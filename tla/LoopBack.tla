------------------------------ MODULE LoopBack ------------------------------
(***************************************************************************)
(* A Stream (src/src/Stream.cpp) over a StringStream, as in                 *)
(* tests/src/string_stream.cpp: bytes go from async_write into the memory    *)
(* of the stream and out of it to async_read_some, async_read and            *)
(* async_read_until.  StreamReader counts bytes; here they are followed,     *)
(* through readBuffer_ and the dump file, and a call or a handler of the      *)
(* reader is one step.  The writer is that of StreamWriter.                  *)
(***************************************************************************)
EXTENDS StreamWriter

CONSTANTS
    Requests,      \* the reads there are: kind, size, and whether with a timeout
    WideDelimiter, \* TRUE: the delimiter is 128 or more and char is signed
    MaxReads,      \* bound on the number of accepted reads in a behaviour
    MaxControls    \* bound on the calls of flush, reset and of the dump files

ASSUME LoopAssumption ==
    /\ \A read \in Requests : /\ read.kind \in {"some", "all", "until"}
                               /\ read.size \in Nat \ {0}
                               /\ read.timed \in BOOLEAN
    /\ WideDelimiter \in BOOLEAN
    /\ MaxReads \in Nat
    /\ MaxControls \in Nat
    /\ Transports = {"string"}
    /\ SyncCallers = {}

VARIABLES
    reads,       \* every read accepted so far; readCounter_ is their number
    readId_,     \* the current read, or 0
    dst_,        \* the bytes in its buffer, processed_ of them
    readTimer_,  \* the wait pending on the timer of the reader, as timer_
    readBuffer_,
    rxDumped,    \* the bytes in the dump file of the reader
    handed       \* the bytes given to the callbacks of the reads

reading  == <<reads, readId_, dst_, readTimer_, readBuffer_, rxDumped, handed>>
writing  == <<lifecycle, outgoing, wire, request, processed_, timer_, waiter, posted>>
loopVars == <<vars, reading>>

-----------------------------------------------------------------------------
(* The device *)

ReadHandler(what, id, bytes, tapped) ==
    [what |-> what, id |-> id, bytes |-> bytes, dump |-> tapped]

(* StringStream::async_read_some answers at once with what there is. *)
StringRead(n, id, queue) ==
    LET count == IF n < Len(buffer_) THEN n ELSE Len(buffer_)
    IN  /\ buffer_' = SubSeq(buffer_, count + 1, Len(buffer_))
        /\ ready' = Append(queue, ReadHandler("read_continue", id, SubSeq(buffer_, 1, count),
                                              dumping))

-----------------------------------------------------------------------------
(* do_read_some: the bytes `held' in readBuffer_ are given first, and the     *)
(* istream has then taken one more than fits; if there are none the device is *)
(* asked.                                                                    *)
DoReadSomeDeviceFirst(n, id, queue, held) ==
    \/ /\ buffer_ # <<>>
       /\ StringRead(n, id, queue)
       /\ readBuffer_' = held
    \/ /\ buffer_ = <<>>
       /\ ready' = Append(queue, ReadHandler("read_continue", id, held, FALSE))
       /\ readBuffer_' = <<>>
       /\ UNCHANGED buffer_

DoReadSomeDumps(n, id, queue, held) ==
    LET count == IF n < Len(held) THEN n ELSE Len(held)
    IN  \/ /\ held # <<>>
           /\ ready' = Append(queue, ReadHandler("read_continue", id, SubSeq(held, 1, count),
                                                 dumping))
           /\ readBuffer_' = SubSeq(held, count + 2, Len(held))
           /\ UNCHANGED buffer_
        \/ /\ held = <<>>
           /\ StringRead(n, id, queue)
           /\ readBuffer_' = <<>>

DoReadSomePastEnd(n, id, queue, held) ==
    LET count == IF n < Len(held) THEN n ELSE Len(held)
        fill  == [i \in 1..(n - count) |-> <<0, 0>>]    \* what get() gives at the end
    IN  \/ /\ held # <<>>
           /\ ready' = Append(queue, ReadHandler("read_continue", id,
                                                 SubSeq(held, 1, count) \o fill, FALSE))
           /\ readBuffer_' = SubSeq(held, count + 2, Len(held))
           /\ UNCHANGED buffer_
        \/ /\ held = <<>>
           /\ StringRead(n, id, queue)
           /\ readBuffer_' = <<>>

DoReadSome(n, id, queue, held) ==
    LET count == IF n < Len(held) THEN n ELSE Len(held)
    IN  \/ /\ held # <<>>
           /\ ready' = Append(queue, ReadHandler("read_continue", id, SubSeq(held, 1, count),
                                                 FALSE))
           /\ readBuffer_' = SubSeq(held, count + 2, Len(held))
           /\ UNCHANGED buffer_
        \/ /\ held = <<>>
           /\ StringRead(n, id, queue)
           /\ readBuffer_' = <<>>

(* finish_read() of the current read, with these bytes in its buffer. *)
FinishRead(id, bytes, queue) ==
    /\ readId_' = 0
    /\ dst_' = <<>>
    /\ ready' = Append(queue, ReadHandler("read_callback", id, bytes, FALSE))

GoOnReading(id, bytes, n, queue, held) ==
    /\ readId_' = id
    /\ dst_' = bytes
    /\ DoReadSome(n, id, queue, held)

-----------------------------------------------------------------------------
(* Delimiters: a message of the writer ends with one. *)
IsDelimiter(byte) == byte[2] = writes[byte[1]].size

Delimiters(bytes) == {i \in 1..Len(bytes) : IsDelimiter(bytes[i])}

(* async_read_until compares chars in readBuffer_, and a char with a uint8_t   *)
(* in its continuation.                                                      *)
DelimitersInAnswer(bytes) == IF WideDelimiter THEN {} ELSE Delimiters(bytes)

(* std::find over these places: the first, or 0 for "not found". *)
First(found, places) ==
    IF places = {} THEN found = 0 ELSE found \in places /\ \A i \in places : found <= i

Upto(i, bytes)  == SubSeq(bytes, 1, i)
After(i, bytes) == SubSeq(bytes, i + 1, Len(bytes))

(* async_read_until takes readBuffer_ up to its first delimiter or the size   *)
(* of the request, or all of it and asks the device for the full size.       *)
StartUntil(id, size, queue) ==
    \E found \in 0..Len(readBuffer_) :
        LET stop == IF found # 0 /\ found <= size THEN found ELSE size
        IN  /\ First(found, Delimiters(readBuffer_))
            /\ \/ /\ stop <= Len(readBuffer_)
                  /\ FinishRead(id, Upto(stop, readBuffer_), queue)
                  /\ readBuffer_' = After(stop, readBuffer_)
                  /\ UNCHANGED buffer_
               \/ /\ stop > Len(readBuffer_)
                  /\ GoOnReading(id, readBuffer_, size, queue, <<>>)

ReaderBusy == readId_ # 0

ArmReadForgotten(id) == UNCHANGED readTimer_

ArmRead(id) == readTimer_' = <<ReadHandler("read_timeout", id, <<>>, FALSE)>>

(* A call of async_read_some, async_read or async_read_until. *)
NewRead(t) ==
    \E read \in Requests :
        LET id    == Len(reads) + 1
            queue == IF read.timed THEN ready \o readTimer_ ELSE ready
        IN  /\ InUserCode(t)
            /\ ~ReaderBusy
            /\ id <= MaxReads
            /\ reads' = Append(reads, read)
            /\ IF read.timed THEN ArmRead(id) ELSE UNCHANGED readTimer_
            /\ \/ read.kind # "until" /\ GoOnReading(id, <<>>, read.size, queue, readBuffer_)
               \/ read.kind = "until" /\ StartUntil(id, read.size, queue)
            /\ UNCHANGED <<writing, dump, pc, rxDumped, handed>>

-----------------------------------------------------------------------------
(* The handlers of the reader *)

NextHandler(what) ==
    /\ pc[Worker] = "loop"
    /\ ready # <<>>
    /\ Head(ready).what = what

(* dump_callback, bound around the answers of the device only. *)
RxDumpCallback(handler) ==
    rxDumped' = IF handler.dump /\ dumping THEN rxDumped \o handler.bytes ELSE rxDumped

ReadDropped ==
    /\ NextHandler("read_continue")
    /\ Head(ready).id # readId_
    /\ ready' = Tail(ready)
    /\ RxDumpCallback(Head(ready))
    /\ UNCHANGED <<writing, buffer_, dump, pc, reads, readId_, dst_, readTimer_, readBuffer_,
                   handed>>

ContinueReadSome(handler, read) ==
    /\ read.kind = "some"
    /\ FinishRead(readId_, handler.bytes, Tail(ready))
    /\ UNCHANGED <<buffer_, readBuffer_>>

(* A read that has not got all it asked for asks for the rest. *)
ContinueReading(handler, read) ==
    LET bytes == dst_ \o handler.bytes
    IN  \/ /\ Len(bytes) >= read.size
           /\ FinishRead(readId_, bytes, Tail(ready))
           /\ UNCHANGED <<buffer_, readBuffer_>>
        \/ /\ Len(bytes) < read.size
           /\ GoOnReading(readId_, bytes, read.size - Len(bytes), Tail(ready), readBuffer_)

ContinueReadAll(handler, read) == read.kind = "all" /\ ContinueReading(handler, read)

ContinueReadUntilKeepsDelimiter(handler, read) ==
    /\ read.kind = "until"
    /\ \E found \in 0..Len(handler.bytes) :
          /\ First(found, DelimitersInAnswer(handler.bytes))
          /\ \/ /\ found # 0
                /\ FinishRead(readId_, dst_ \o Upto(found - 1, handler.bytes), Tail(ready))
                /\ readBuffer_' = readBuffer_ \o After(found - 1, handler.bytes)
                /\ UNCHANGED buffer_
             \/ /\ found = 0
                /\ ContinueReading(handler, read)

ContinueReadUntilForgetsRest(handler, read) ==
    /\ read.kind = "until"
    /\ \E found \in 0..Len(handler.bytes) :
          /\ First(found, DelimitersInAnswer(handler.bytes))
          /\ \/ /\ found # 0
                /\ FinishRead(readId_, dst_ \o Upto(found, handler.bytes), Tail(ready))
                /\ UNCHANGED <<buffer_, readBuffer_>>
             \/ /\ found = 0
                /\ ContinueReading(handler, read)

(* What comes after the delimiter is kept in readBuffer_. *)
ContinueReadUntil(handler, read) ==
    /\ read.kind = "until"
    /\ \E found \in 0..Len(handler.bytes) :
          /\ First(found, DelimitersInAnswer(handler.bytes))
          /\ \/ /\ found # 0
                /\ FinishRead(readId_, dst_ \o Upto(found, handler.bytes), Tail(ready))
                /\ readBuffer_' = readBuffer_ \o After(found, handler.bytes)
                /\ UNCHANGED buffer_
             \/ /\ found = 0
                /\ ContinueReading(handler, read)

ReadContinue ==
    /\ NextHandler("read_continue")
    /\ Head(ready).id = readId_
    /\ LET read == reads[readId_]
       IN  \/ ContinueReadSome(Head(ready), read)
           \/ ContinueReadAll(Head(ready), read)
           \/ ContinueReadUntil(Head(ready), read)
    /\ RxDumpCallback(Head(ready))
    /\ UNCHANGED <<writing, dump, pc, reads, readTimer_, handed>>

(* timeout_reached() ends the current read with the bytes it has. *)
ReadTimeout ==
    /\ NextHandler("read_timeout")
    /\ \/ /\ Head(ready).id = readId_
          /\ FinishRead(readId_, dst_, Tail(ready))
       \/ /\ Head(ready).id # readId_
          /\ ready' = Tail(ready)
          /\ UNCHANGED <<readId_, dst_>>
    /\ UNCHANGED <<writing, buffer_, dump, pc, reads, readTimer_, readBuffer_, rxDumped, handed>>

(* The user takes the bytes, and is in its own code. *)
ReadCallback ==
    /\ NextHandler("read_callback")
    /\ handed' = handed \o Head(ready).bytes
    /\ ready' = Tail(ready)
    /\ Goto(Worker, "callback")
    /\ UNCHANGED <<writing, buffer_, dump, reads, readId_, dst_, readTimer_, readBuffer_,
                   rxDumped>>

ReadTimerExpires ==
    /\ readTimer_ # <<>>
    /\ ready' = ready \o readTimer_
    /\ readTimer_' = <<>>
    /\ UNCHANGED <<writing, buffer_, dump, pc, reads, readId_, dst_, readBuffer_, rxDumped,
                   handed>>

-----------------------------------------------------------------------------
(* Stream::flush() empties readBuffer_ and the device, Stream::reset() only    *)
(* the device.                                                               *)
MayControl == resets + dumps < MaxControls

StreamFlush(t) ==
    /\ MayControl
    /\ Flush(t)
    /\ readBuffer_' = <<>>
    /\ UNCHANGED <<reads, readId_, dst_, readTimer_, rxDumped, handed>>

StreamReset(t) ==
    /\ MayControl
    /\ Reset(t)
    /\ UNCHANGED reading

(* enable_io_dump() and disable_io_dump() open and close both files. *)
EnableIODump(t) ==
    /\ MayControl
    /\ EnableDump(t)
    /\ \/ dumped' = dumped /\ rxDumped' = rxDumped
       \/ dumped' = <<>> /\ rxDumped' = <<>>    \* truncated
    /\ UNCHANGED <<reads, readId_, dst_, readTimer_, readBuffer_, handed>>

DisableIODump(t) ==
    /\ MayControl
    /\ DisableDump(t)
    /\ UNCHANGED reading

LoopInit ==
    /\ Init
    /\ ~waiterNotified_    \* of no effect without synchronous writes
    /\ reads = <<>>
    /\ readId_ = 0
    /\ dst_ = <<>>
    /\ readTimer_ = <<>>
    /\ readBuffer_ = <<>>
    /\ rxDumped = <<>>
    /\ handed = <<>>

WriterSteps ==
    /\ \/ \E t \in Threads : NewWrite(t) \/ Refused(t) \/ Issue(t)
       \/ WorkerSteps
       \/ \E c \in Callers : SyncSteps(c) \/ SpuriousWake(c)
       \/ TimerExpires
    /\ UNCHANGED reading

ReaderSteps == ReadDropped \/ ReadContinue \/ ReadTimeout \/ ReadCallback

LoopNext ==
    \/ WriterSteps
    \/ ReaderSteps
    \/ ReadTimerExpires
    \/ \E t \in Threads : NewRead(t) \/ StreamFlush(t) \/ StreamReset(t)
                          \/ EnableIODump(t) \/ DisableIODump(t)

LoopSpec == LoopInit /\ [][LoopNext]_loopVars

(* The worker and the timers go on; the calls of a thread return. *)
LoopFairness ==
    /\ \A t \in Threads : WF_loopVars(Issue(t) /\ UNCHANGED reading)
    /\ WF_loopVars(ReaderSteps \/ (WorkerSteps /\ UNCHANGED reading))
    /\ WF_loopVars(ReadTimerExpires)

LoopFairSpec == LoopSpec /\ LoopFairness

-----------------------------------------------------------------------------
(* Properties *)

Ascending(bytes) == \A i, j \in 1..Len(bytes) : i < j => Before(bytes[i], bytes[j])

Follow(S, T) == \A a \in S, b \in T : Before(a, b)

(* The handlers that bring bytes to the user, and those that bring the answer  *)
(* to the current read.                                                      *)
Callbacks == {i \in 1..Len(ready) : ready[i].what = "read_callback"}
Answers   == {i \in 1..Len(ready) : ready[i].what = "read_continue" /\ ready[i].id = readId_}

Brought(handlers) == UNION {Content(ready[i].bytes) : i \in handlers}

(* Where a byte is that has reached the user or is on its way to him, from the *)
(* end of the way to its beginning.                                          *)
Stages ==
    <<Content(handed), Brought(Callbacks), Content(dst_), Brought(Answers),
      Content(readBuffer_), Content(buffer_)>>

Pipeline == UNION Content(Stages)

(* Every byte that the user was given, that is on its way to him or that is in  *)
(* the dump file was written to the stream: do_read_some stops at the end of   *)
(* readBuffer_, and an answer has no more bytes than it says.                *)
NothingMadeUp == Pipeline \cup Content(rxDumped) \subseteq Content(wire)

(* Bytes reach the user in the order in which they were written and none       *)
(* twice, whichever reads are mixed: what a callback was given, the current    *)
(* read has, is queued for it, waits in readBuffer_ and waits in the stream     *)
(* follow one another.                                                       *)
PipelineInOrder ==
    /\ \A bytes \in {handed, dst_, readBuffer_, buffer_} : Ascending(bytes)
    /\ \A i \in Callbacks \cup Answers : Ascending(ready[i].bytes)
    /\ \A i, j \in Callbacks : i < j => Follow(Content(ready[i].bytes), Content(ready[j].bytes))
    /\ \A i, j \in Answers : i = j
    /\ \A k, l \in 1..Len(Stages) : k < l => Follow(Stages[k], Stages[l])

(* A byte is lost by flush() or reset(), by a read that times out, or, one at  *)
(* a time, by do_read_some when readBuffer_ holds more than it is asked for.   *)
LostOnlyHere ==
    [][LET lost == Pipeline \ Pipeline'
       IN  \/ lost = {}
           \/ resets' # resets
           \/ ReadTimeout
           \/ /\ Cardinality(lost) = 1
              /\ lost \subseteq Content(readBuffer_)
              /\ \E t \in Threads : NewRead(t)]_loopVars

(* An async_read_until that did not time out gives the user bytes with no      *)
(* delimiter but at their end, where there is one unless the buffer is full.   *)
UntilExact ==
    \A i \in 1..Len(ready) :
        LET handler == ready[i]
            read    == reads[handler.id]
            size    == Len(handler.bytes)
        IN  handler.what = "read_callback" /\ read.kind = "until" /\ ~read.timed
              => /\ size < read.size => size > 0 /\ IsDelimiter(handler.bytes[size])
                 /\ \A j \in 1..(size - 1) : ~IsDelimiter(handler.bytes[j])

(* A dump file that is open all the time holds each byte that the user was     *)
(* given, once and in order, also those that came by readBuffer_.             *)
DumpedOnce ==
    /\ Ascending(rxDumped)
    /\ dumping /\ dumps = 0 => Content(handed) \subseteq Content(rxDumped)

(* A read with a timeout ends although the device answers nothing again and    *)
(* again at once, which keeps the worker busy for ever.                      *)
ReadEnds ==
    \A k \in 1..MaxReads : Len(reads) >= k /\ reads[k].timed ~> readId_ # k

=============================================================================
