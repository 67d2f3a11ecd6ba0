---------------------------- MODULE StreamWriter ----------------------------
(***************************************************************************)
(* rtac::asio::StreamWriter (src/src/StreamWriter.cpp): the synchronous and *)
(* asynchronous writes of several threads on one device, the worker that    *)
(* runs the handlers, timeouts, and a device that is closed, reset, broken  *)
(* or slow.  The bytes of a write are numbered: what reaches the device, in  *)
(* which order, is `wire', and what the dump file holds is `dumped'.        *)
(*                                                                         *)
(* As in StreamReader, a section under writeMutex_ is one step and what is   *)
(* done without that mutex is a step of its own.  A call of a device is one  *)
(* step: boost::asio does not allow two at once.                            *)
(***************************************************************************)
EXTENDS Devices, FiniteSets

CONSTANTS
    Callers,      \* the threads of the user
    Worker,       \* the thread in AsyncService::run
    NoOwner,      \* value of mutex_ when it is free
    SyncCallers,  \* the threads that use write
    AsyncCallers, \* the threads that use async_write and async_write_some
    Kinds,        \* which of "some", "all" are used
    Sizes,        \* the requested sizes
    Timeouts,     \* whether writes are made with a timeout: a set of BOOLEAN
    Dumps,        \* whether the dump file is open at first: a set of BOOLEAN
    MaxDumps,     \* bound on how often it is opened or closed later
    SlowCaller,   \* TRUE: a timeout may expire while the call that armed it
                  \* has not returned yet
    Modulus,      \* writeCounter_ wraps here: 2^32 in the build
    MaxWrites     \* bound on the number of accepted writes in a behaviour

Threads == Callers \cup {Worker}

ASSUME WriterAssumption ==
    /\ Worker \notin Callers
    /\ NoOwner \notin Threads
    /\ SyncCallers \subseteq Callers
    /\ AsyncCallers \subseteq Threads
    /\ Kinds \subseteq {"some", "all"}
    /\ Sizes \subseteq Nat
    /\ Timeouts \subseteq BOOLEAN
    /\ Dumps \subseteq BOOLEAN
    /\ MaxDumps \in Nat
    /\ SlowCaller \in BOOLEAN
    /\ Modulus \in Nat \ {0}
    /\ MaxWrites \in Nat

VARIABLES
    writeCounter_,
    writeId_,
    requestedSize_,
    processed_,
    src_,            \* the write that src_ and callback_ belong to: its place
                     \* in `writes' (every write has its own buffer)
    timer_,          \* the wait pending on timer_: a sequence of at most one
    mutex_,          \* the owner of mutex_
    waiterNotified_,
    waiting,         \* the threads blocked on waiter_
    dumping,         \* dump_enabled()
    dumped,          \* the bytes in the dump file
    dumps,
    pc,              \* what each thread is doing
    mine,            \* the write each thread made last
    writes,          \* every write accepted so far
    posted           \* the writes whose callback was posted, in that order

device  == <<lifecycle, outgoing, buffer_, wire>>
request == <<writeCounter_, writeId_, requestedSize_, src_, writes, mine>>
waiter  == <<mutex_, waiterNotified_, waiting>>
dump    == <<dumping, dumped, dumps>>
vars    == <<device, ready, request, processed_, timer_, waiter, dump, pc, posted>>

-----------------------------------------------------------------------------
(* Handlers and operations.  `id' and `src' are the writeId_ and the buffer    *)
(* they were made for, `from' the bytes of it before theirs, `n' how many     *)
(* bytes they ask for, have written or report, `dump' whether dump_callback   *)
(* is bound around them.                                                     *)

Handler(what, id, src, kind) ==
    [what |-> what, id |-> id, src |-> src, kind |-> kind, from |-> 0, n |-> 0,
     err |-> FALSE, dump |-> FALSE]

TimeoutReached(id, src) == Handler("timeout", id, src, "none")

UserCallback(err) ==
    [Handler("callback", 0, src_, "none") EXCEPT !.n = processed_, !.err = err]

Goto(t, s) == pc' = [pc EXCEPT ![t] = s]

(* Where the code after the start of a write takes its caller. *)
Started(t) ==
    IF t = Worker THEN "loop" ELSE IF writes[mine[t]].sync THEN "reset" ELSE "idle"

(* The user's code runs in a callback, or in a thread outside the library. *)
InUserCode(t) == pc[t] = IF t = Worker THEN "callback" ELSE "idle"

-----------------------------------------------------------------------------
(* Starting a write *)

MayCall(t, sync) ==
    /\ InUserCode(t)
    /\ IF sync THEN t \in SyncCallers /\ mutex_ = NoOwner ELSE t \in AsyncCallers

(* Variants of definitions, named for a mistake, precede what they vary.     *)
ArmForgotten(id, src) == UNCHANGED <<ready, timer_>>

(* expires_from_now() cancels the wait of an earlier write, whose handler is  *)
(* queued with an error timeout_reached does not look at.                    *)
Arm(id, src) ==
    /\ ready' = ready \o timer_
    /\ timer_' = <<TimeoutReached(id, src)>>

(* new_write(): a write is refused while another has its id in writeId_. *)
Busy == writeId_ # 0

NextId == (writeCounter_ + 1) % Modulus

(* An accepted call; write holds mutex_ from here on. *)
NewWrite(t) ==
    \E kind \in Kinds, size \in Sizes, timed \in Timeouts, sync \in BOOLEAN :
        /\ MayCall(t, sync)
        /\ sync => kind = "all"
        /\ ~Busy
        /\ Len(writes) < MaxWrites
        /\ writeCounter_' = NextId
        /\ writeId_' = NextId
        /\ requestedSize_' = size
        /\ processed_' = 0
        /\ src_' = Len(writes) + 1
        /\ writes' = Append(writes, [kind |-> kind, size |-> size, timed |-> timed, sync |-> sync])
        /\ mine' = [mine EXCEPT ![t] = Len(writes) + 1]
        /\ IF timed THEN Arm(NextId, Len(writes) + 1) ELSE UNCHANGED <<ready, timer_>>
        /\ mutex_' = IF sync THEN t ELSE mutex_
        /\ Goto(t, "issue")
        /\ UNCHANGED <<waiterNotified_, waiting, device, dump, posted>>

(* A refused call returns false, or 0 bytes, and changes nothing. *)
Refused(t) ==
    /\ \E sync \in BOOLEAN : MayCall(t, sync)
    /\ Busy
    /\ Goto(t, IF t = Worker THEN "loop" ELSE "idle")
    /\ UNCHANGED <<device, ready, request, processed_, timer_, waiter, dump, posted>>

(* do_write_some(): the n bytes of buffer src after the first `from', answered *)
(* by the continuation of a write of this kind.                              *)
DoWriteSome(n, src, from, id, kind, queue) ==
    AsyncWriteSome([Handler("continue", id, src, kind)
                       EXCEPT !.from = from, !.n = n, !.dump = dumping], queue)

(* What async_write_some and async_write do after new_write, without a lock. *)
Issue(t) ==
    /\ pc[t] = "issue"
    /\ DoWriteSome(requestedSize_, src_, 0, writeId_, writes[mine[t]].kind, ready)
    /\ Goto(t, Started(t))
    /\ UNCHANGED <<transport, resets, request, processed_, timer_, waiter, dump, posted>>

-----------------------------------------------------------------------------
(* The end of a write *)

FinishWriteStaysBusy(err, queue) ==
    /\ ready' = Append(queue, UserCallback(err))
    /\ posted' = Append(posted, src_)
    /\ UNCHANGED writeId_

(* finish_write(): posts the callback of the current write, unless there is   *)
(* none, which "should not happen".                                          *)
FinishWrite(err, queue) ==
    \/ /\ ~Busy
       /\ ready' = queue
       /\ UNCHANGED <<writeId_, posted>>
    \/ /\ Busy
       /\ writeId_' = 0
       /\ ready' = Append(queue, UserCallback(err))
       /\ posted' = Append(posted, src_)

(* The last step of a continuation, or of timeout_reached. *)
FinishHandler ==
    /\ pc[Worker] = "end"
    /\ FinishWrite(Head(ready).err, Tail(ready))
    /\ Goto(Worker, "loop")
    /\ UNCHANGED <<device, writeCounter_, requestedSize_, src_, writes, mine, processed_,
                   timer_, waiter, dump>>

-----------------------------------------------------------------------------
(* The handlers, executed one at a time by the worker *)

WriteIdUnchecked(handler) == Busy

(* writeid_ok(), under writeMutex_: the handler is of the current write. *)
WriteIdOk(handler) == handler.id = writeId_

DumpFromStart(handler) ==
    dumped' = IF handler.dump /\ dumping
              THEN dumped \o Bytes([handler EXCEPT !.from = 0], handler.n)
              ELSE dumped

(* dump_callback, bound around a continuation, writes what the device took to *)
(* the dump file before the continuation looks at its id.                    *)
DumpCallback(handler) ==
    dumped' = IF handler.dump /\ ~handler.err /\ dumping
              THEN dumped \o Bytes(handler, handler.n)
              ELSE dumped

(* A continuation or a timeout that is no longer relevant is dropped. *)
DropHandler ==
    /\ pc[Worker] = "loop"
    /\ ready # <<>>
    /\ Head(ready).what \in {"continue", "timeout"}
    /\ ~WriteIdOk(Head(ready))
    /\ DumpCallback(Head(ready))
    /\ ready' = Tail(ready)
    /\ UNCHANGED <<device, request, processed_, timer_, waiter, dumping, dumps, pc, posted>>

EnterHandler ==
    /\ pc[Worker] = "loop"
    /\ ready # <<>>
    /\ Head(ready).what \in {"continue", "timeout"}
    /\ WriteIdOk(Head(ready))
    /\ DumpCallback(Head(ready))
    /\ Goto(Worker, Head(ready).what)
    /\ UNCHANGED <<device, ready, request, processed_, timer_, waiter, dumping, dumps, posted>>

(* timeout_reached notifies a waiter, without mutex_, before finish_write. *)
TimeoutNotifies ==
    /\ pc[Worker] = "timeout"
    /\ waiterNotified_' = TRUE
    /\ waiting' = {}
    /\ Goto(Worker, "end")
    /\ UNCHANGED <<device, ready, request, processed_, timer_, mutex_, dump, posted>>

ContinueSome(handler) ==
    /\ handler.kind = "some"
    /\ processed_' = handler.n
    /\ Goto(Worker, "end")
    /\ UNCHANGED <<link, outgoing, buffer_, wire, ready>>

ContinueAllOnce(handler) ==
    /\ handler.kind = "all"
    /\ processed_' = processed_ + handler.n
    /\ Goto(Worker, "end")
    /\ UNCHANGED <<link, outgoing, buffer_, wire, ready>>

ContinueAllFromStart(handler) ==
    /\ handler.kind = "all"
    /\ processed_' = processed_ + handler.n
    /\ \/ /\ handler.err \/ processed_ + handler.n >= requestedSize_
          /\ Goto(Worker, "end")
          /\ UNCHANGED <<link, outgoing, buffer_, wire, ready>>
       \/ /\ ~handler.err
          /\ processed_ + handler.n < requestedSize_
          /\ DoWriteSome(requestedSize_ - (processed_ + handler.n), src_, 0,
                         handler.id, handler.kind, Tail(ready))
          /\ Goto(Worker, "loop")

ContinueAllFullSize(handler) ==
    /\ handler.kind = "all"
    /\ processed_' = processed_ + handler.n
    /\ \/ /\ handler.err \/ processed_ + handler.n >= requestedSize_
          /\ Goto(Worker, "end")
          /\ UNCHANGED <<link, outgoing, buffer_, wire, ready>>
       \/ /\ ~handler.err
          /\ processed_ + handler.n < requestedSize_
          /\ DoWriteSome(requestedSize_, src_, processed_ + handler.n,
                         handler.id, handler.kind, Tail(ready))
          /\ Goto(Worker, "loop")

ContinueAllNoElse(handler) ==
    /\ handler.kind = "all"
    /\ processed_' = processed_ + handler.n
    /\ Goto(Worker, "end")
    /\ IF ~handler.err /\ processed_ + handler.n < requestedSize_
       THEN DoWriteSome(requestedSize_ - (processed_ + handler.n), src_,
                        processed_ + handler.n, handler.id, handler.kind, ready)
       ELSE UNCHANGED <<link, outgoing, buffer_, wire, ready>>

(* A continuation that goes on writes what is missing; one that is done, or   *)
(* failed, ends the write.                                                   *)
ContinueAll(handler) ==
    /\ handler.kind = "all"
    /\ processed_' = processed_ + handler.n
    /\ \/ /\ handler.err \/ processed_ + handler.n >= requestedSize_
          /\ Goto(Worker, "end")
          /\ UNCHANGED <<link, outgoing, buffer_, wire, ready>>
       \/ /\ ~handler.err
          /\ processed_ + handler.n < requestedSize_
          /\ DoWriteSome(requestedSize_ - (processed_ + handler.n), src_,
                         processed_ + handler.n, handler.id, handler.kind, Tail(ready))
          /\ Goto(Worker, "loop")

Continue ==
    /\ pc[Worker] = "continue"
    /\ ContinueSome(Head(ready)) \/ ContinueAll(Head(ready))
    /\ UNCHANGED <<transport, resets, request, timer_, waiter, dump, posted>>

WriteCallbackSilent ==
    /\ pc[Worker] = "loop"
    /\ ready # <<>>
    /\ Head(ready).what = "callback"
    /\ writes[Head(ready).src].sync
    /\ ready' = Tail(ready)
    /\ UNCHANGED <<device, request, processed_, timer_, waiter, dump, pc, posted>>

WriteCallbackKeepsLock ==
    /\ pc[Worker] = "loop"
    /\ ready # <<>>
    /\ Head(ready).what = "callback"
    /\ writes[Head(ready).src].sync
    /\ mutex_ = NoOwner
    /\ mutex_' = Worker
    /\ waiterNotified_' = TRUE
    /\ waiting' = {}
    /\ ready' = Tail(ready)
    /\ UNCHANGED <<device, request, processed_, timer_, dump, pc, posted>>

(* write_callback notifies the waiters under mutex_. *)
WriteCallback ==
    /\ pc[Worker] = "loop"
    /\ ready # <<>>
    /\ Head(ready).what = "callback"
    /\ writes[Head(ready).src].sync
    /\ mutex_ = NoOwner
    /\ waiterNotified_' = TRUE
    /\ waiting' = {}
    /\ ready' = Tail(ready)
    /\ UNCHANGED <<device, request, processed_, timer_, mutex_, dump, pc, posted>>

(* The callback of an asynchronous write is code of the user, which may call  *)
(* the writer or the device, and returns.                                    *)
EnterCallback ==
    /\ pc[Worker] = "loop"
    /\ ready # <<>>
    /\ Head(ready).what = "callback"
    /\ ~writes[Head(ready).src].sync
    /\ ready' = Tail(ready)
    /\ Goto(Worker, "callback")
    /\ UNCHANGED <<device, request, processed_, timer_, waiter, dump, posted>>

LeaveCallback ==
    /\ pc[Worker] = "callback"
    /\ Goto(Worker, "loop")
    /\ UNCHANGED <<device, ready, request, processed_, timer_, waiter, dump, posted>>

-----------------------------------------------------------------------------
(* write(), which holds mutex_ except when blocked *)

ResetForgotten(t) ==
    /\ pc[t] = "reset"
    /\ Goto(t, "check")
    /\ UNCHANGED <<device, ready, request, processed_, timer_, waiter, dump, posted>>

ResetNotified(t) ==
    /\ pc[t] = "reset"
    /\ waiterNotified_' = FALSE
    /\ Goto(t, "check")
    /\ UNCHANGED <<device, ready, request, processed_, timer_, mutex_, waiting, dump, posted>>

(* The predicate of waiter_.wait: the call returns processed_, or ... *)
CheckNotified(t) ==
    /\ pc[t] = "check"
    /\ IF waiterNotified_
       THEN Goto(t, "idle") /\ mutex_' = NoOwner
       ELSE Goto(t, "block") /\ UNCHANGED mutex_
    /\ UNCHANGED <<device, ready, request, processed_, timer_, waiterNotified_, waiting, dump,
                   posted>>

(* ... blocks.  A notification made since the predicate was looked at is not  *)
(* seen, unless its author held mutex_.                                      *)
Block(t) ==
    /\ pc[t] = "block"
    /\ mutex_' = NoOwner
    /\ waiting' = waiting \cup {t}
    /\ Goto(t, "asleep")
    /\ UNCHANGED <<device, ready, request, processed_, timer_, waiterNotified_, dump, posted>>

Wake(t) ==
    /\ pc[t] = "asleep"
    /\ t \notin waiting
    /\ mutex_ = NoOwner
    /\ mutex_' = t
    /\ Goto(t, "check")
    /\ UNCHANGED <<device, ready, request, processed_, timer_, waiterNotified_, waiting, dump,
                   posted>>

SpuriousWake(t) ==
    /\ t \in waiting
    /\ waiting' = waiting \ {t}
    /\ UNCHANGED <<device, ready, request, processed_, timer_, mutex_, waiterNotified_, dump,
                   pc, posted>>

-----------------------------------------------------------------------------
(* The user's other calls: reset(), flush() and close() reach the device, and *)
(* the dump file is opened, anew or at its end, or closed.                   *)

Reset(t) ==
    /\ InUserCode(t)
    /\ ResetDevice
    /\ UNCHANGED <<request, processed_, timer_, waiter, dump, pc, posted>>

Flush(t) ==
    /\ InUserCode(t)
    /\ FlushDevice
    /\ UNCHANGED <<request, processed_, timer_, waiter, dump, pc, posted>>

CloseLink(t) ==
    /\ InUserCode(t)
    /\ Close
    /\ UNCHANGED <<request, processed_, timer_, waiter, dump, pc, posted>>

EnableDump(t) ==
    /\ InUserCode(t)
    /\ dumps < MaxDumps
    /\ ~dumping
    /\ dumping' = TRUE
    /\ dumped' \in {dumped, <<>>}
    /\ dumps' = dumps + 1
    /\ UNCHANGED <<device, ready, request, processed_, timer_, waiter, pc, posted>>

DisableDump(t) ==
    /\ InUserCode(t)
    /\ dumps < MaxDumps
    /\ dumping
    /\ dumping' = FALSE
    /\ dumps' = dumps + 1
    /\ UNCHANGED <<dumped, device, ready, request, processed_, timer_, waiter, pc, posted>>

(* The environment: timers, and the device. *)

TimerExpires ==
    /\ timer_ # <<>>
    /\ SlowCaller \/ \A t \in Threads : pc[t] # "issue"
    /\ ready' = ready \o timer_
    /\ timer_' = <<>>
    /\ UNCHANGED <<device, request, processed_, waiter, dump, pc, posted>>

DeviceSteps ==
    /\ DeviceTakes \/ DeviceFails \/ LinkBreaks
    /\ UNCHANGED <<request, processed_, timer_, waiter, dump, pc, posted>>

-----------------------------------------------------------------------------
Init ==
    /\ DevicesInit
    /\ writeCounter_ = 0
    /\ writeId_ = 0
    /\ requestedSize_ = 0
    /\ processed_ = 0
    /\ src_ = 0
    /\ timer_ = <<>>
    /\ mutex_ = NoOwner
    /\ waiterNotified_ \in BOOLEAN    \* the constructor leaves it uninitialized
    /\ waiting = {}
    /\ dumping \in Dumps
    /\ dumped = <<>>
    /\ dumps = 0
    /\ pc = [t \in Threads |-> IF t = Worker THEN "loop" ELSE "idle"]
    /\ mine = [t \in Threads |-> 0]
    /\ writes = <<>>
    /\ posted = <<>>

Running == link # "crashed"

SyncSteps(t) == ResetNotified(t) \/ CheckNotified(t) \/ Block(t) \/ Wake(t)

WorkerSteps ==
    \/ DropHandler \/ EnterHandler \/ TimeoutNotifies \/ Continue \/ FinishHandler
    \/ WriteCallback \/ EnterCallback \/ LeaveCallback

UserSteps(t) ==
    \/ NewWrite(t) \/ Refused(t) \/ Reset(t) \/ Flush(t) \/ CloseLink(t)
    \/ EnableDump(t) \/ DisableDump(t)

(* A process that used a null pointer takes no further step. *)
Next ==
    /\ Running
    /\ \/ \E t \in Threads : UserSteps(t) \/ Issue(t)
       \/ \E c \in Callers : SyncSteps(c) \/ SpuriousWake(c)
       \/ WorkerSteps
       \/ TimerExpires
       \/ DeviceSteps

Spec == Init /\ [][Next]_vars

(* Threads are scheduled, a mutex that is free time and again is obtained,    *)
(* and timers expire.  Nothing is assumed of the user or of the device.      *)
Fairness ==
    /\ \A t \in Threads : WF_vars(Running /\ Issue(t))
    /\ \A c \in Callers : SF_vars(Running /\ Wake(c)) /\ WF_vars(Running /\ SyncSteps(c))
    /\ SF_vars(Running /\ WriteCallback)
    /\ WF_vars(Running /\ WorkerSteps)
    /\ WF_vars(Running /\ TimerExpires)

FairSpec == Spec /\ Fairness

-----------------------------------------------------------------------------
(* Properties *)

CallerStates == {"idle", "issue", "reset", "check", "block", "asleep"}
WorkerStates == {"loop", "issue", "continue", "timeout", "end", "callback"}

Handlers ==
    [what : {"continue", "timeout", "callback"}, id : Nat, src : Nat,
     kind : Kinds \cup {"none"}, from : Nat, n : Nat, err : BOOLEAN, dump : BOOLEAN]

Writes == [kind : Kinds, size : Sizes, timed : BOOLEAN, sync : BOOLEAN]

ByteNames == Nat \X Nat

(* Types; the ids stay below the width of the counter, a StringStream within  *)
(* its capacity, and mutex_ with the callers.                                *)
TypeOK ==
    /\ transport \in Transports
    /\ link \in {"none", "open", "broken", "crashed"}
    /\ outgoing \in Seq(Handlers)
    /\ buffer_ \in Seq(ByteNames) /\ Len(buffer_) <= Capacity
    /\ wire \in Seq(ByteNames)
    /\ ready \in Seq(Handlers)
    /\ writeCounter_ \in 0..(Modulus - 1)
    /\ writeId_ \in 0..(Modulus - 1)
    /\ requestedSize_ \in Nat
    /\ processed_ \in Nat
    /\ src_ \in Nat
    /\ timer_ \in Seq(Handlers)
    /\ mutex_ \in Callers \cup {NoOwner}
    /\ waiterNotified_ \in BOOLEAN
    /\ waiting \subseteq Callers
    /\ dumping \in BOOLEAN
    /\ dumped \in Seq(ByteNames)
    /\ pc \in [Threads -> CallerStates \cup WorkerStates]
    /\ mine \in [Threads -> Nat]
    /\ writes \in Seq(Writes)
    /\ posted \in Seq(Nat)

(* Every accepted write has one outcome: the callbacks are posted in the      *)
(* order the writes were accepted, each once, and only the write that has its *)
(* id in writeId_ is without one.                                            *)
OneOutcome ==
    /\ \A i \in 1..Len(posted) : posted[i] = i
    /\ Len(writes) = Len(posted) + IF Busy THEN 1 ELSE 0

InHandler == pc[Worker] \in {"continue", "timeout", "end"}

(* A handler that got past writeid_ok acts on the write it was made for: a    *)
(* late answer or timeout never moves processed_ of, nor ends, another write. *)
LateIsIgnored == InHandler => Busy /\ Head(ready).src = src_

(* The bytes reach the device in the order of the writes, and of each write a *)
(* prefix without a gap or a repetition, in one piece, though the operation   *)
(* of a write that timed out is left outstanding and another write starts.    *)
WireInOrder ==
    /\ wire # <<>> => wire[1][2] = 1
    /\ \A i \in 1..(Len(wire) - 1) :
          \/ wire[i + 1] = <<wire[i][1], wire[i][2] + 1>>
          \/ wire[i + 1][1] > wire[i][1] /\ wire[i + 1][2] = 1

(* The device is never given, and never takes, bytes past the end of the      *)
(* user's buffer.                                                            *)
WithinBuffer ==
    /\ \A i \in 1..Len(outgoing) :
          outgoing[i].from + outgoing[i].n <= writes[outgoing[i].src].size
    /\ \A i \in 1..Len(wire) : wire[i][2] <= writes[wire[i][1]].size

OnWire(w) == Cardinality({i \in 1..Len(wire) : wire[i][1] = w})

(* Without a timeout, a callback is given the number of bytes that reached    *)
(* the device, all those of an async_write that reports no error, though      *)
(* another write may have reset processed_ since.                            *)
CountIsTrue ==
    \A i \in 1..Len(ready) :
        LET handler == ready[i]
            write   == writes[handler.src]
        IN  handler.what = "callback" /\ ~write.timed
              => /\ handler.n = OnWire(handler.src)
                 /\ write.kind = "all" /\ ~handler.err => handler.n = write.size

(* The device holds the buffer of a write in progress only, one that timed    *)
(* out excepted: after its callback the user may free it.                    *)
BufferReleased ==
    \A i \in 1..Len(outgoing) :
        \/ Busy /\ outgoing[i].src = src_
        \/ writes[outgoing[i].src].timed

Content(bytes) == {bytes[i] : i \in 1..Len(bytes)}

(* The answers of the device whose handlers, and so dump_callback, have not   *)
(* run, and the bytes they are about.                                        *)
Unhandled == {i \in 1..Len(ready) : ready[i].what = "continue" /\ (InHandler => i # 1)}

NotHandled == UNION {Content(Bytes(ready[i], ready[i].n)) : i \in Unhandled}

Before(a, b) == a[1] < b[1] \/ (a[1] = b[1] /\ a[2] < b[2])

(* The dump file holds bytes in the order of the device and none twice; one    *)
(* that was open all the time holds exactly what the device has taken and the *)
(* service has handled, late answers included.                               *)
DumpIsWire ==
    /\ Content(dumped) \subseteq Content(wire)
    /\ \A i, j \in 1..Len(dumped) : i < j => Before(dumped[i], dumped[j])
    /\ dumping /\ dumps = 0 => Content(dumped) = Content(wire) \ NotHandled

Returns(c) == pc[c] = "check" /\ pc'[c] = "idle"

Over(k) == k <= Len(posted)

TimedSync == \E i \in 1..Len(writes) : writes[i].sync /\ writes[i].timed

(* A write() returns only once its write is over, so that the caller may      *)
(* reuse its buffer, as long as no write() was given a timeout.              *)
ReturnsWhenOver == [][\A c \in Callers : Returns(c) /\ ~TimedSync => Over(mine[c])]_vars

InSync(c) == pc[c] \in {"reset", "check", "block", "asleep"}

Timed(k) == writes[k].timed

(* A write() with a timeout returns, even if the device takes nothing. *)
SyncReturns ==
    \A c \in Callers : InSync(c) /\ Timed(mine[c]) ~> ~InSync(c) \/ ~Running

(* A write with a timeout comes to its end. *)
WriteEnds ==
    \A k \in 1..MaxWrites : Len(writes) >= k /\ Timed(k) ~> Over(k) \/ ~Running

=============================================================================
