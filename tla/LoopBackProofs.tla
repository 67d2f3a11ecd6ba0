--------------------------- MODULE LoopBackProofs ---------------------------
(***************************************************************************)
(* Proofs about LoopBack: the bytes of a Stream over a StringStream, for    *)
(* any capacity, any threads, and any mix of writes, reads, flushes and     *)
(* resets.                                                                  *)
(***************************************************************************)
EXTENDS LoopBack, StreamWriterProofs, FiniteSetTheorems

(* The handlers of the reader; each belongs to one of the first n reads. *)
ReadHandlers ==
    [what : {"read_continue", "read_callback", "read_timeout"}, id : Nat,
     bytes : Seq(ByteNames), dump : BOOLEAN]

ReadKnown(n) == {h \in ReadHandlers : h.id \in 1..n}

ReadTimeouts(n) == {h \in ReadKnown(n) : h.what = "read_timeout"}

LoopKnown(n, m) == Known(n) \cup ReadKnown(m)

TimeoutsOf(n) == {h \in Known(n) : h.what = "timeout"}

(* Types of both halves of the Stream. *)
WriterTypesOK ==
    /\ transport = "string" /\ link = "open"
    /\ buffer_ \in Seq(ByteNames) /\ Len(buffer_) <= Capacity
    /\ wire \in Seq(ByteNames)
    /\ timer_ \in Seq(TimeoutsOf(Len(writes)))
    /\ requestedSize_ \in Nat /\ processed_ \in Nat
    /\ mine \in [Threads -> Nat]
    /\ pc \in [Threads -> CallerStates \cup WorkerStates]
    /\ dumping \in BOOLEAN
    /\ dumps \in Nat

ReaderTypesOK ==
    /\ reads \in Seq(Requests) /\ Len(reads) <= MaxReads
    /\ readId_ \in {0, Len(reads)}
    /\ readTimer_ \in Seq(ReadTimeouts(Len(reads))) /\ Len(readTimer_) <= 1
    /\ dst_ \in Seq(ByteNames)
    /\ readBuffer_ \in Seq(ByteNames)
    /\ rxDumped \in Seq(ByteNames)
    /\ handed \in Seq(ByteNames)

LoopTypes ==
    /\ WriterTypesOK
    /\ ReaderTypesOK
    /\ ready \in Seq(LoopKnown(Len(writes), Len(reads)))

(* The writer.  A write that has to be issued is the last one: no handler has  *)
(* its number yet and no byte of it was written.                             *)
ToIssue ==
    \A t \in Threads : pc[t] = "issue" =>
        /\ Busy
        /\ ready \in Seq(LoopKnown(Len(writes) - 1, Len(reads)))
        /\ processed_ = 0
        /\ mine[t] = Len(writes)
        /\ \A b \in Content(wire) : b[1] < Len(writes)
        /\ \A u \in Threads : pc[u] = "issue" => u = t

(* A handler in execution is of the write in progress. *)
Executing ==
    InHandler => /\ ready # <<>>
                 /\ Busy
                 /\ Head(ready).what \in {"continue", "timeout"}
                 /\ Head(ready).id = writeId_
                 /\ pc[Worker] = "continue" => Head(ready).what = "continue"

(* The one continuation of the write in progress tells where its bytes end. *)
OwnContinue(i) == i \in 1..Len(ready) /\ ready[i].what = "continue" /\ ready[i].id = writeId_

Progress ==
    Busy /\ pc[Worker] # "end" =>
        /\ \A i, j \in 1..Len(ready) : OwnContinue(i) /\ OwnContinue(j) => i = j
        /\ \A i \in 1..Len(ready) : OwnContinue(i) =>
              /\ ready[i].from = processed_
              /\ \A b \in Content(wire) :
                    b[1] = Len(writes) => b[2] <= processed_ + ready[i].n

(* The bytes accepted by the memory are in the order of the writes. *)
Written ==
    /\ Ascending(wire)
    /\ \A b \in Content(wire) : b[1] \in 1..Len(writes)

WriterInv == OutcomeInv /\ ToIssue /\ Executing /\ Progress /\ Written

-----------------------------------------------------------------------------
(* The way of the bytes.  Line: the bytes of h, then those of the handlers S   *)
(* of a queue, in its order, then those of X.                                *)
Line(h, q, S, X) ==
    /\ Ascending(h)
    /\ \A i \in S : Ascending(q[i].bytes)
    /\ \A i \in S : Follow(Content(h), Content(q[i].bytes)) /\ Follow(Content(q[i].bytes), X)
    /\ \A i, j \in S : i < j => Follow(Content(q[i].bytes), Content(q[j].bytes))
    /\ Follow(Content(h), X)

(* What the current read has, its answer, what waits in readBuffer_ and what   *)
(* waits in the memory.                                                      *)
Order(d, a, r, b) ==
    /\ Ascending(d) /\ Ascending(a) /\ Ascending(r) /\ Ascending(b)
    /\ Follow(Content(d), Content(a) \cup Content(r) \cup Content(b))
    /\ Follow(Content(a), Content(r) \cup Content(b))
    /\ Follow(Content(r), Content(b))

Behind(d, a, r, b) == Content(d) \cup Content(a) \cup Content(r) \cup Content(b)

CallbacksOf(q)    == {i \in 1..Len(q) : q[i].what = "read_callback"}
AnswersTo(q, id)  == {i \in 1..Len(q) : q[i].what = "read_continue" /\ q[i].id = id}
TappedOf(q)       == {i \in 1..Len(q) : q[i].what = "read_continue" /\ q[i].dump}

OneAnswer(q, id, a) ==
    /\ \A i, j \in AnswersTo(q, id) : i = j
    /\ \A i \in AnswersTo(q, id) : q[i].bytes = a

Flow(q, id, h, d, a, r, b) ==
    /\ OneAnswer(q, id, a)
    /\ Order(d, a, r, b)
    /\ Line(h, q, CallbacksOf(q), Behind(d, a, r, b))

Inside(h, q, S, X, W) ==
    /\ Content(h) \subseteq W
    /\ \A i \in S : Content(q[i].bytes) \subseteq W
    /\ X \subseteq W

FlowWith(a) ==
    /\ Flow(ready, readId_, handed, dst_, a, readBuffer_, buffer_)
    /\ Inside(handed, ready, CallbacksOf(ready), Behind(dst_, a, readBuffer_, buffer_),
              Content(wire))

FlowInv == \E a \in Seq(ByteNames) : FlowWith(a)

UntilRead == readId_ # 0 /\ reads[readId_].kind = "until"

UntilInv == UntilRead => readBuffer_ = <<>>

(* The dump file of the reader. *)
DumpLine ==
    /\ Line(rxDumped, ready, TappedOf(ready), Content(buffer_))
    /\ Inside(rxDumped, ready, TappedOf(ready), Content(buffer_), Content(wire))

Covers(q, D) ==
    \A i \in 1..Len(q) :
        \/ q[i].what = "read_callback"
        \/ q[i].what = "read_continue" /\ ~q[i].dump
        => Content(q[i].bytes) \subseteq D

DumpCovers ==
    dumping /\ dumps = 0 =>
        /\ Content(handed) \cup Content(dst_) \cup Content(readBuffer_) \subseteq Content(rxDumped)
        /\ Covers(ready, Content(rxDumped))

DumpInv == DumpLine /\ DumpCovers

(* Reads up to a delimiter: a byte that, in these writes, is one.  The bytes   *)
(* of a read that did not time out have one at their end only, or fill the     *)
(* buffer; those of a read that goes on have none.                           *)
Marks(ws, b) == b[2] = ws[b[1]].size

NoMark(ws, bytes) == \A i \in 1..Len(bytes) : ~Marks(ws, bytes[i])

Exact(ws, bytes, size) ==
    /\ Len(bytes) < size => Len(bytes) > 0 /\ Marks(ws, bytes[Len(bytes)])
    /\ \A j \in 1..(Len(bytes) - 1) : ~Marks(ws, bytes[j])

ExactHandler(h, rs, ws) ==
    /\ h.what = "read_timeout" => rs[h.id].timed
    /\ /\ h.what = "read_callback" /\ rs[h.id].kind = "until" /\ ~rs[h.id].timed
       => Exact(ws, h.bytes, rs[h.id].size)

ExactInv ==
    /\ UntilRead => NoMark(writes, dst_)
    /\ \A i \in 1..Len(readTimer_) : ExactHandler(readTimer_[i], reads, writes)
    /\ \A i \in 1..Len(ready) : ExactHandler(ready[i], reads, writes)

-----------------------------------------------------------------------------
(* Queues.  A step takes k handlers, one or none, from the head of the queue   *)
(* and appends others.                                                       *)
Queue(k, new) ==
    /\ k \in {0, 1} /\ k <= Len(ready)
    /\ ready' = (IF k = 0 THEN ready ELSE Tail(ready)) \o new

LEMMA QueueShape ==
    ASSUME NEW S, NEW T, S \subseteq T, ready \in Seq(S), NEW k, NEW new \in Seq(T), Queue(k, new)
    PROVE  /\ ready' \in Seq(T)
           /\ Len(ready') = Len(ready) - k + Len(new)
           /\ Len(ready) \in Nat /\ Len(new) \in Nat /\ k \in {0, 1} /\ k <= Len(ready)
           /\ \A i \in 1..Len(ready') :
                 \/ i + k \in 1..Len(ready) /\ ready'[i] = ready[i + k]
                 \/ /\ i + k - Len(ready) \in 1..Len(new)
                    /\ ready'[i] = new[i + k - Len(ready)]
<1> DEFINE rest == IF k = 0 THEN ready ELSE Tail(ready)
<1>1. k \in {0, 1} /\ k <= Len(ready) /\ ready' = rest \o new
  BY DEF Queue
<1>2. /\ rest \in Seq(T) /\ Len(rest) = Len(ready) - k
      /\ \A i \in 1..Len(rest) : i + k \in 1..Len(ready) /\ rest[i] = ready[i + k]
  <2>1. CASE k = 0
    BY <2>1
  <2>2. CASE k = 1
    <3>1. Tail(ready) \in Seq(S) /\ Len(Tail(ready)) = Len(ready) - 1
      BY <1>1, <2>2
    <3>2. \A i \in 1..(Len(ready) - 1) : Tail(ready)[i] = ready[i + 1]
      BY <1>1, <2>2
    <3> QED
      BY <2>2, <3>1, <3>2
  <2> QED
    BY <1>1, <2>1, <2>2
<1> HIDE DEF rest
<1>3. ready' \in Seq(T) /\ Len(ready') = Len(rest) + Len(new)
  BY <1>1, <1>2, ConcatType
<1>4. \A i \in 1..Len(ready') :
         ready'[i] = IF i <= Len(rest) THEN rest[i] ELSE new[i - Len(rest)]
  BY <1>1, <1>2
<1>5. ASSUME NEW i \in 1..Len(ready')
      PROVE  \/ i + k \in 1..Len(ready) /\ ready'[i] = ready[i + k]
             \/ /\ i + k - Len(ready) \in 1..Len(new)
                /\ ready'[i] = new[i + k - Len(ready)]
  <2>1. CASE i <= Len(rest)
    BY <1>2, <1>4, <2>1
  <2>2. CASE i > Len(rest)
    <3>1. i - Len(rest) \in 1..Len(new) /\ i + k - Len(ready) = i - Len(rest)
      BY <1>1, <1>2, <1>3, <2>2
    <3> QED
      BY <1>4, <2>2, <3>1
  <2> QED
    BY <1>2, <2>1, <2>2
<1> QED
  BY <1>1, <1>2, <1>3, <1>5

LEMMA QueueParts ==
    ASSUME NEW T, ready \in Seq(T), NEW k, NEW new \in Seq(T), Queue(k, new)
    PROVE  /\ ready' \in Seq(T)
           /\ Len(ready') = Len(ready) - k + Len(new)
           /\ Len(ready) \in Nat /\ Len(new) \in Nat /\ k \in {0, 1} /\ k <= Len(ready)
           /\ \A i \in 1..Len(ready') :
                 \/ i + k \in 1..Len(ready) /\ ready'[i] = ready[i + k]
                 \/ /\ i + k - Len(ready) \in 1..Len(new)
                    /\ ready'[i] = new[i + k - Len(ready)]
<1>1. T \subseteq T
  OBVIOUS
<1> QED
  BY <1>1, QueueShape

(* The ways in which the code changes the queue. *)
LEMMA QueueWays ==
    ASSUME NEW S, NEW T, S \subseteq T, ready \in Seq(S), NEW e \in T, NEW new \in Seq(T)
    PROVE  /\ ready' = ready => Queue(0, <<>>)
           /\ ready' = ready \o new => Queue(0, new)
           /\ ready' = Append(ready, e) => Queue(0, <<e>>)
           /\ ready # <<>> /\ ready' = Tail(ready) => Queue(1, <<>>)
           /\ ready # <<>> /\ ready' = Append(Tail(ready), e) => Queue(1, <<e>>)
           /\ <<>> \in Seq(T) /\ <<e>> \in Seq(T)
<1>1. Len(ready) \in Nat /\ (ready # <<>> => Len(ready) >= 1 /\ Tail(ready) \in Seq(T))
  OBVIOUS
<1>2. \A s \in Seq(T) : s \o <<>> = s /\ Append(s, e) = s \o <<e>>
  OBVIOUS
<1>3. ready \in Seq(T)
  OBVIOUS
<1>4. ASSUME NEW s \in Seq(T), ready' = ready \o s PROVE Queue(0, s)
  BY <1>1, <1>4 DEF Queue
<1>5. ASSUME NEW s \in Seq(T), ready # <<>>, ready' = Tail(ready) \o s PROVE Queue(1, s)
  BY <1>1, <1>5 DEF Queue
<1>6. <<>> \in Seq(T) /\ <<e>> \in Seq(T)
  OBVIOUS
<1> QED
  BY <1>1, <1>2, <1>3, <1>4, <1>5, <1>6, Zenon

(* What follows and what does not is known as well. *)
LEMMA LoopKnownGrows ==
    ASSUME NEW n \in Nat, NEW m \in Nat, NEW i \in Nat, NEW j \in Nat, n <= i, m <= j
    PROVE  LoopKnown(n, m) \subseteq LoopKnown(i, j)
  BY DEF LoopKnown, Known, ReadKnown

(* A handler of the writer is not one of the reader. *)
LEMMA LoopFields ==
    ASSUME NEW n \in Nat, NEW m \in Nat, NEW h \in LoopKnown(n, m)
    PROVE  /\ h.what \in {"continue", "timeout", "callback"} =>
                /\ h \in Known(n) /\ h \in Handlers
                /\ h.what # "callback" => h.id = h.src /\ h.id \in 1..n
           /\ h.what \in {"read_continue", "read_callback", "read_timeout"} =>
                /\ h \in ReadKnown(m) /\ h \in ReadHandlers
                /\ h.id \in 1..m /\ h.bytes \in Seq(ByteNames) /\ h.dump \in BOOLEAN
           /\ \/ h.what \in {"continue", "timeout", "callback"}
              \/ h.what \in {"read_continue", "read_callback", "read_timeout"}
<1>1. CASE h \in Known(n)
  BY <1>1 DEF Known, Handlers
<1>2. CASE h \in ReadKnown(m)
  BY <1>2 DEF ReadKnown, ReadHandlers
<1> QED
  BY <1>1, <1>2 DEF LoopKnown

-----------------------------------------------------------------------------
(* What the writer relies on, kept by the steps that do not concern it. *)

LoopInv == LoopTypes /\ WriterInv

LEMMA SeqGrowsIn == ASSUME NEW S, NEW T, S \subseteq T PROVE \A s \in Seq(S) : s \in Seq(T)
  OBVIOUS

LEMMA SameReaderTypes == ASSUME ReaderTypesOK, UNCHANGED reading PROVE ReaderTypesOK'
  BY DEF ReaderTypesOK, reading

LEMMA LengthTypes == ASSUME LoopInv
                     PROVE  /\ Len(writes) \in Nat /\ Len(reads) \in Nat /\ Len(ready) \in Nat
                            /\ Len(buffer_) \in Nat /\ Len(wire) \in Nat
                            /\ writes \in Seq(Writes) /\ reads \in Seq(Requests)
  BY DEF LoopInv, LoopTypes, WriterTypesOK, ReaderTypesOK, WriterInv, OutcomeInv, Numbered

(* The head of the queue is a handler; the handlers in it are of accepted      *)
(* writes and reads.                                                         *)
LEMMA HeadOf == ASSUME LoopInv, ready # <<>>
                PROVE  /\ Head(ready) \in LoopKnown(Len(writes), Len(reads))
                       /\ Head(ready) = ready[1] /\ 1 \in 1..Len(ready)
  BY QueueType DEF LoopInv, LoopTypes

(* While a handler is executed, no thread has a write to issue. *)
LEMMA NoneToIssue == ASSUME LoopInv, InHandler PROVE \A t \in Threads : pc[t] # "issue"
<1> SUFFICES ASSUME NEW t \in Threads, pc[t] = "issue" PROVE FALSE
  OBVIOUS
<1>1. /\ ready # <<>> /\ Head(ready).what \in {"continue", "timeout"} /\ Busy
      /\ Head(ready).id = writeId_
  BY DEF LoopInv, WriterInv, Executing
<1>2. ready \in Seq(LoopKnown(Len(writes) - 1, Len(reads)))
  BY DEF LoopInv, WriterInv, ToIssue
<1>3. Head(ready) \in LoopKnown(Len(writes) - 1, Len(reads))
  BY <1>1, <1>2, QueueType
<1>4. Len(writes) \in Nat /\ Len(reads) \in Nat
  BY LengthTypes
<1>5. Head(ready).id \in 1..(Len(writes) - 1)
  BY <1>1, <1>3, <1>4 DEF LoopKnown, Known, ReadKnown, ReadHandlers
<1>6. writeId_ = Len(writes)
  BY <1>1 DEF LoopInv, WriterInv, OutcomeInv, Numbered, Busy
<1> QED
  BY <1>1, <1>4, <1>5, <1>6

LEMMA KeptToIssue ==
    ASSUME LoopInv, NEW k, NEW new, Queue(k, new), Len(reads') \in Nat, Len(reads) <= Len(reads'),
           \A t \in Threads : pc'[t] = "issue" =>
                pc[t] = "issue" /\ new \in Seq(LoopKnown(Len(writes) - 1, Len(reads'))),
           UNCHANGED <<writeId_, writes, processed_, mine, wire>>
    PROVE  ToIssue'
<1> SUFFICES ASSUME NEW t \in Threads, pc'[t] = "issue"
             PROVE  /\ Busy'
                    /\ ready' \in Seq(LoopKnown(Len(writes) - 1, Len(reads')))
                    /\ processed_' = 0
                    /\ mine'[t] = Len(writes')
                    /\ \A b \in Content(wire') : b[1] < Len(writes')
                    /\ \A u \in Threads : pc'[u] = "issue" => u = t
  BY DEF ToIssue
<1>1. ready \in Seq(LoopKnown(Len(writes) - 1, Len(reads))) /\ Len(writes) \in Nat /\ Busy
  BY LengthTypes DEF LoopInv, WriterInv, ToIssue
<1>2. LoopKnown(Len(writes) - 1, Len(reads)) \subseteq LoopKnown(Len(writes) - 1, Len(reads'))
  BY <1>1, LengthTypes DEF LoopKnown, ReadKnown
<1>3. ready' \in Seq(LoopKnown(Len(writes) - 1, Len(reads')))
  BY <1>1, <1>2, QueueShape
<1>4. /\ Busy' /\ processed_' = 0 /\ mine'[t] = Len(writes')
      /\ \A b \in Content(wire') : b[1] < Len(writes')
  BY DEF LoopInv, WriterInv, ToIssue, Busy, Content
<1>5. \A u \in Threads : pc'[u] = "issue" => u = t
  BY DEF LoopInv, WriterInv, ToIssue
<1> QED
  BY <1>3, <1>4, <1>5

LEMMA KeptProgress ==
    ASSUME LoopInv, NEW T, NEW k, NEW new \in Seq(T), Queue(k, new),
           \A i \in 1..Len(new) : new[i].what = "continue" => new[i].id # writeId_,
           pc'[Worker] # "end" => pc[Worker] # "end",
           UNCHANGED <<writeId_, writes, processed_, wire>>
    PROVE  Progress'
<1> SUFFICES ASSUME Busy', pc'[Worker] # "end"
             PROVE  /\ \A i, j \in 1..Len(ready') : OwnContinue(i)' /\ OwnContinue(j)' => i = j
                    /\ \A i \in 1..Len(ready') : OwnContinue(i)' =>
                          /\ ready'[i].from = processed_
                          /\ \A b \in Content(wire) :
                                b[1] = Len(writes) => b[2] <= processed_ + ready'[i].n
  BY DEF Progress, Content
<1> DEFINE S == LoopKnown(Len(writes), Len(reads)) \cup T
<1>1. ready \in Seq(S) /\ new \in Seq(S)
  <2>1. ready \in Seq(LoopKnown(Len(writes), Len(reads)))
    BY DEF LoopInv, LoopTypes
  <2> QED
    BY <2>1
<1> HIDE DEF S
<1>2. /\ Len(ready) \in Nat /\ Len(ready') \in Nat /\ k \in {0, 1}
      /\ \A i \in 1..Len(ready') :
            \/ i + k \in 1..Len(ready) /\ ready'[i] = ready[i + k]
            \/ \E j \in 1..Len(new) : ready'[i] = new[j]
  <2>2. /\ Len(ready') = Len(ready) - k + Len(new)
        /\ Len(ready) \in Nat /\ Len(new) \in Nat /\ k \in {0, 1} /\ k <= Len(ready)
        /\ \A i \in 1..Len(ready') :
              \/ i + k \in 1..Len(ready) /\ ready'[i] = ready[i + k]
              \/ /\ i + k - Len(ready) \in 1..Len(new)
                 /\ ready'[i] = new[i + k - Len(ready)]
    BY <1>1, QueueParts
  <2> QED
    BY <2>2
<1>3. \A i \in 1..Len(ready') : OwnContinue(i)' =>
         OwnContinue(i + k) /\ ready'[i] = ready[i + k]
  BY <1>2 DEF OwnContinue
<1>4. /\ \A i, j \in 1..Len(ready) : OwnContinue(i) /\ OwnContinue(j) => i = j
      /\ \A i \in 1..Len(ready) : OwnContinue(i) =>
            /\ ready[i].from = processed_
            /\ \A b \in Content(wire) :
                  b[1] = Len(writes) => b[2] <= processed_ + ready[i].n
  BY DEF LoopInv, WriterInv, Progress, Busy
<1>5. \A i : OwnContinue(i) => i \in 1..Len(ready)
  BY DEF OwnContinue
<1> QED
  BY <1>2, <1>3, <1>4, <1>5

LEMMA KeptExecuting ==
    ASSUME LoopInv, NEW T, NEW new \in Seq(T), Queue(0, new), UNCHANGED <<writeId_, pc>>
    PROVE  Executing'
<1> SUFFICES ASSUME InHandler'
             PROVE  /\ ready' # <<>>
                    /\ Busy'
                    /\ Head(ready').what \in {"continue", "timeout"}
                    /\ Head(ready').id = writeId_
                    /\ pc'[Worker] = "continue" => Head(ready').what = "continue"
  BY DEF Executing
<1>1. InHandler
  BY DEF InHandler
<1>2. /\ ready # <<>> /\ Busy /\ Head(ready).what \in {"continue", "timeout"}
      /\ Head(ready).id = writeId_
      /\ pc[Worker] = "continue" => Head(ready).what = "continue"
  BY <1>1 DEF LoopInv, WriterInv, Executing
<1>3. ready' # <<>> /\ Head(ready') = Head(ready)
  <2>1. ready \in Seq(LoopKnown(Len(writes), Len(reads)) \cup T)
        /\ new \in Seq(LoopKnown(Len(writes), Len(reads)) \cup T)
    <3>1. ready \in Seq(LoopKnown(Len(writes), Len(reads)))
      BY DEF LoopInv, LoopTypes
    <3> QED
      BY <3>1
  <2>2. ready' = ready \o new
    BY DEF Queue
  <2> QED
    BY <1>2, <2>1, <2>2
<1> QED
  BY <1>2, <1>3 DEF Busy

LEMMA KeptWritten == ASSUME LoopInv, UNCHANGED <<wire, writes>> PROVE Written'
  BY DEF LoopInv, WriterInv, Written, Ascending, Content

-----------------------------------------------------------------------------
(* The steps of the writer *)

(* The memory gains bytes that follow all those before them. *)
Grows(w) ==
    /\ w \in Seq(ByteNames)
    /\ buffer_' = buffer_ \o w
    /\ wire' = wire \o w
    /\ Len(buffer_') <= Capacity
    /\ Ascending(w)
    /\ Follow(Content(wire), Content(w))
    /\ \A b \in Content(w) : b[1] = Len(writes)

(* What such a step does to the queue and to the memory, as the reader sees. *)
Feeds ==
    /\ \E k \in {0, 1}, new \in Seq(Known(Len(writes'))) :
          /\ Queue(k, new)
          /\ k = 1 => Head(ready).what \in {"continue", "timeout", "callback"}
    /\ \E w : Grows(w)
    /\ Len(writes') \in Nat /\ Len(writes) <= Len(writes')
    /\ \A i \in 1..Len(writes) : writes'[i] = writes[i]
    /\ UNCHANGED <<dumping, dumps, reading>>

LEMMA NoneGrow == ASSUME LoopInv, UNCHANGED <<buffer_, wire>> PROVE Grows(<<>>)
<1>1. /\ buffer_ \in Seq(ByteNames) /\ wire \in Seq(ByteNames) /\ Len(buffer_) <= Capacity
  BY DEF LoopInv, LoopTypes, WriterTypesOK
<1>2. buffer_ \o <<>> = buffer_ /\ wire \o <<>> = wire /\ <<>> \in Seq(ByteNames)
  BY <1>1
<1>3. Content(<<>>) = {} /\ Ascending(<<>>)
  BY DEF Content, Ascending
<1> QED
  BY <1>1, <1>2, <1>3 DEF Grows, Follow

LEMMA QuietStep ==
    ASSUME LoopInv, NEW k, NEW new \in Seq(Known(Len(writes))), Queue(k, new),
           k = 1 => Head(ready).what \in {"continue", "timeout", "callback"},
           UNCHANGED <<transport, link, buffer_, wire, requestedSize_, processed_, mine,
                       writeId_, writes, dumping, dumps, reading>>,
           timer_' \in Seq(TimeoutsOf(Len(writes))),
           pc' \in [Threads -> CallerStates \cup WorkerStates],
           \A t \in Threads : pc'[t] = "issue" => pc[t] = "issue" /\ new = <<>>,
           \A i \in 1..Len(new) : new[i].what # "continue",
           pc'[Worker] # "end" => pc[Worker] # "end"
    PROVE  LoopTypes' /\ ToIssue' /\ Progress' /\ Written' /\ Feeds
<1>1. Len(writes) \in Nat /\ Len(reads) \in Nat /\ UNCHANGED reads /\ writes' = writes
  BY LengthTypes DEF reading
<1>2. new \in Seq(LoopKnown(Len(writes), Len(reads)))
  BY SeqGrowsIn DEF LoopKnown
<1>3. ready' \in Seq(LoopKnown(Len(writes), Len(reads)))
  <2>1. ready \in Seq(LoopKnown(Len(writes), Len(reads)))
    BY DEF LoopInv, LoopTypes
  <2> QED
    BY <1>2, <2>1, QueueShape
<1>4. LoopTypes'
  BY <1>1, <1>3, SameReaderTypes DEF LoopInv, LoopTypes, WriterTypesOK
<1>5. ToIssue'
  <2>1. \A S : <<>> \in Seq(S)
    OBVIOUS
  <2> QED
    BY <1>1, <2>1, KeptToIssue
<1>6. Progress' /\ Written'
  BY <1>2, KeptProgress, KeptWritten
<1>7. Feeds
  <2>1. k \in {0, 1}
    BY DEF Queue
  <2> QED
    BY <1>1, <2>1, NoneGrow DEF Feeds
<1> QED
  BY <1>4, <1>5, <1>6, <1>7

LEMMA OutcomeStep == ASSUME NoWrap, LoopInv, WriterSteps PROVE OutcomeInv'
<1>1. Running
  BY DEF LoopInv, LoopTypes, WriterTypesOK, Running
<1>2. [Next]_vars
  BY <1>1 DEF WriterSteps, Next, UserSteps
<1> QED
  BY <1>2, StepOutcome DEF LoopInv, WriterInv

WriterKept == LoopTypes' /\ ToIssue' /\ Executing' /\ Progress' /\ Written' /\ Feeds

(* A step that changes neither the queue nor what is written. *)
LEMMA IdleStep ==
    ASSUME LoopInv, UNCHANGED <<ready, transport, link, buffer_, wire, requestedSize_, processed_,
                                mine, writeId_, writes, timer_, dumping, dumps, reading>>,
           pc' \in [Threads -> CallerStates \cup WorkerStates],
           \A t \in Threads : pc'[t] = "issue" => pc[t] = "issue",
           pc'[Worker] # "end" => pc[Worker] # "end",
           Executing'
    PROVE  WriterKept
<1>1. timer_ \in Seq(TimeoutsOf(Len(writes))) /\ ready \in Seq(LoopKnown(Len(writes), Len(reads)))
  BY DEF LoopInv, LoopTypes, WriterTypesOK
<1>2. Queue(0, <<>>)
  <2>1. ready \o <<>> = ready /\ Len(ready) \in Nat
    BY <1>1
  <2> QED
    BY <2>1 DEF Queue
<1>3. /\ <<>> \in Seq(Known(Len(writes)))
      /\ \A i \in 1..Len(<<>>) : <<>>[i].what # "continue"
      /\ 0 = 1 => Head(ready).what \in {"continue", "timeout", "callback"}
  OBVIOUS
<1>4. \A t \in Threads : pc'[t] = "issue" => pc[t] = "issue" /\ <<>> = <<>>
  OBVIOUS
<1> QED
  BY <1>1, <1>2, <1>3, <1>4, QuietStep, Zenon DEF WriterKept

LEMMA PcType == ASSUME LoopInv, NEW t \in Threads, NEW s \in CallerStates \cup WorkerStates,
                       Goto(t, s)
                PROVE  /\ pc' \in [Threads -> CallerStates \cup WorkerStates]
                       /\ pc'[t] = s
                       /\ \A u \in Threads : u # t => pc'[u] = pc[u]
  BY DEF LoopInv, LoopTypes, WriterTypesOK, Goto

(* Another thread that goes on does not disturb the worker. *)
LEMMA CallerExecuting ==
    ASSUME LoopInv, UNCHANGED <<ready, writeId_>>, pc'[Worker] = pc[Worker]
    PROVE  Executing'
  BY DEF LoopInv, WriterInv, Executing, InHandler, Busy

LEMMA CallerSteps ==
    ASSUME LoopInv, UNCHANGED reading,
           \/ \E t \in Threads : Refused(t)
           \/ \E c \in Callers : SyncSteps(c) \/ SpuriousWake(c)
    PROVE  WriterKept
<1> USE WriterAssumption
<1>1. /\ UNCHANGED <<ready, transport, link, buffer_, wire, requestedSize_, processed_,
                     mine, writeId_, writes, timer_, dumping, dumps>>
      /\ \/ \E t \in Threads : /\ InUserCode(t)
                               /\ Goto(t, IF t = Worker THEN "loop" ELSE "idle")
         \/ \E c \in Callers, s \in {"check", "idle", "block", "asleep"} : Goto(c, s)
         \/ UNCHANGED pc
  <2>1. CASE \E t \in Threads : Refused(t)
    <3>1. PICK t \in Threads : Refused(t)
      BY <2>1
    <3>2. /\ InUserCode(t)
          /\ Goto(t, IF t = Worker THEN "loop" ELSE "idle")
          /\ UNCHANGED <<device, ready, request, processed_, timer_, dump>>
      BY <3>1, Zenon DEF Refused, MayCall
    <3> QED
      BY <3>2 DEF device, lifecycle, request, dump
  <2>2. CASE \E c \in Callers : SyncSteps(c) \/ SpuriousWake(c)
    <3>1. PICK c \in Callers : SyncSteps(c) \/ SpuriousWake(c)
      BY <2>2
    <3>2. /\ (\E s \in {"check", "idle", "block", "asleep"} : Goto(c, s)) \/ UNCHANGED pc
          /\ UNCHANGED <<device, ready, request, processed_, timer_, dump>>
      BY <3>1 DEF SyncSteps, ResetNotified, CheckNotified, Block, Wake, SpuriousWake
    <3> QED
      BY <3>2 DEF device, lifecycle, request, dump
  <2> QED
    BY <2>1, <2>2
<1>2. /\ pc' \in [Threads -> CallerStates \cup WorkerStates]
      /\ \A t \in Threads : pc'[t] = "issue" => pc[t] = "issue"
      /\ \/ pc'[Worker] = pc[Worker]
         \/ pc[Worker] = "callback" /\ pc'[Worker] = "loop"
  <2>1. ASSUME NEW t \in Threads, InUserCode(t), Goto(t, IF t = Worker THEN "loop" ELSE "idle")
        PROVE  <1>2
    <3>1. (IF t = Worker THEN "loop" ELSE "idle") \in CallerStates \cup WorkerStates
      BY DEF CallerStates, WorkerStates
    <3> QED
      BY <2>1, <3>1, PcType DEF InUserCode, Threads
  <2>2. ASSUME NEW c \in Callers, NEW s \in {"check", "idle", "block", "asleep"}, Goto(c, s)
        PROVE  <1>2
    <3>1. s \in CallerStates \cup WorkerStates /\ c \in Threads /\ c # Worker /\ Worker \in Threads
      BY DEF CallerStates, WorkerStates, Threads
    <3> QED
      BY <2>2, <3>1, PcType
  <2>3. CASE UNCHANGED pc
    BY <2>3 DEF LoopInv, LoopTypes, WriterTypesOK
  <2> QED
    BY <1>1, <2>1, <2>2, <2>3
<1>3. Executing'
  <2>1. CASE pc'[Worker] = pc[Worker]
    BY <1>1, <2>1, CallerExecuting
  <2>2. CASE pc'[Worker] = "loop"
    BY <2>2 DEF Executing, InHandler
  <2> QED
    BY <1>2, <2>1, <2>2
<1> QED
  BY <1>1, <1>2, <1>3, IdleStep

LEMMA WorkerMoves ==
    ASSUME LoopInv, NEW s \in WorkerStates, Goto(Worker, s), s # "issue"
    PROVE  /\ pc' \in [Threads -> CallerStates \cup WorkerStates]
           /\ pc'[Worker] = s
           /\ \A t \in Threads : pc'[t] = "issue" => pc[t] = "issue"
<1>1. Worker \in Threads /\ s \in CallerStates \cup WorkerStates
  BY DEF Threads
<1> QED
  BY <1>1, PcType

(* The worker takes a handler to execute, notifies or leaves a callback. *)
LEMMA WorkerIdles ==
    ASSUME LoopInv, UNCHANGED reading, EnterHandler \/ TimeoutNotifies \/ LeaveCallback
    PROVE  WriterKept
<1>1. PICK s \in {"continue", "timeout", "end", "loop"} :
         /\ Goto(Worker, s)
         /\ \/ s = "loop"
            \/ /\ s \in {"continue", "timeout"} /\ s = Head(ready).what
               /\ ready # <<>> /\ WriteIdOk(Head(ready))
            \/ s = "end" /\ pc[Worker] = "timeout"
         /\ pc[Worker] # "end"
         /\ UNCHANGED <<ready, transport, link, buffer_, wire, requestedSize_, processed_,
                        mine, writeId_, writes, timer_, dumping, dumps>>
  <2>1. CASE EnterHandler
    <3>1. /\ pc[Worker] = "loop" /\ ready # <<>> /\ WriteIdOk(Head(ready))
          /\ Head(ready).what \in {"continue", "timeout"} /\ Goto(Worker, Head(ready).what)
          /\ UNCHANGED <<device, ready, request, processed_, timer_, dumping, dumps>>
      BY <2>1, Zenon DEF EnterHandler
    <3> QED
      BY <3>1 DEF device, lifecycle, request
  <2>2. CASE TimeoutNotifies
    <3>1. /\ pc[Worker] = "timeout" /\ Goto(Worker, "end")
          /\ UNCHANGED <<device, ready, request, processed_, timer_, dump>>
      BY <2>2, Zenon DEF TimeoutNotifies
    <3> QED
      BY <3>1 DEF device, lifecycle, request, dump
  <2>3. CASE LeaveCallback
    <3>1. /\ pc[Worker] = "callback" /\ Goto(Worker, "loop")
          /\ UNCHANGED <<device, ready, request, processed_, timer_, dump>>
      BY <2>3, Zenon DEF LeaveCallback
    <3> QED
      BY <3>1 DEF device, lifecycle, request, dump
  <2> QED
    BY <2>1, <2>2, <2>3
<1>2. /\ pc' \in [Threads -> CallerStates \cup WorkerStates]
      /\ pc'[Worker] = s
      /\ \A t \in Threads : pc'[t] = "issue" => pc[t] = "issue"
  BY <1>1, WorkerMoves DEF WorkerStates
<1>3. Executing'
  <2>1. CASE s = "loop"
    BY <1>2, <2>1 DEF Executing, InHandler
  <2>2. CASE s = "end" /\ pc[Worker] = "timeout"
    BY <1>1, <1>2, <2>2 DEF LoopInv, WriterInv, Executing, InHandler, Busy
  <2>3. CASE /\ s \in {"continue", "timeout"} /\ s = Head(ready).what
             /\ ready # <<>> /\ WriteIdOk(Head(ready))
    <3>1. s \in {"continue", "timeout"}
      BY <2>3
    <3>2. /\ Head(ready) \in LoopKnown(Len(writes), Len(reads))
          /\ Len(writes) \in Nat /\ Len(reads) \in Nat
      BY <2>3, HeadOf, LengthTypes
    <3>3. Head(ready).id \in 1..Len(writes)
      BY <2>3, <3>1, <3>2, LoopFields
    <3>4. Busy'
      BY <1>1, <2>3, <3>2, <3>3 DEF WriteIdOk, Busy
    <3> QED
      BY <1>1, <1>2, <2>3, <3>1, <3>4 DEF Executing, WriteIdOk
  <2> QED
    BY <1>1, <2>1, <2>2, <2>3
<1> QED
  BY <1>1, <1>2, <1>3, IdleStep

(* A handler of the writer that is taken from the queue for nothing, or for    *)
(* the callback of the user.                                                 *)
LEMMA TakenHandler ==
    ASSUME LoopInv, UNCHANGED reading, DropHandler \/ WriteCallback \/ EnterCallback
    PROVE  WriterKept
<1>1. PICK s \in {"loop", "callback"} :
         /\ (s = "callback" /\ Goto(Worker, s)) \/ (s = "loop" /\ UNCHANGED pc)
         /\ pc[Worker] = "loop" /\ ready # <<>> /\ ready' = Tail(ready)
         /\ Head(ready).what \in {"continue", "timeout", "callback"}
         /\ UNCHANGED <<transport, link, buffer_, wire, requestedSize_, processed_, mine,
                        writeId_, writes, timer_, dumping, dumps>>
  <2>1. CASE DropHandler
    <3>1. /\ pc[Worker] = "loop" /\ ready # <<>> /\ ready' = Tail(ready) /\ UNCHANGED pc
          /\ Head(ready).what \in {"continue", "timeout"}
          /\ UNCHANGED <<device, request, processed_, timer_, dumping, dumps>>
      BY <2>1, Zenon DEF DropHandler
    <3> QED
      BY <3>1 DEF device, lifecycle, request
  <2>2. CASE WriteCallback
    <3>1. /\ pc[Worker] = "loop" /\ ready # <<>> /\ ready' = Tail(ready) /\ UNCHANGED pc
          /\ Head(ready).what = "callback"
          /\ UNCHANGED <<device, request, processed_, timer_, dump>>
      BY <2>2, Zenon DEF WriteCallback
    <3> QED
      BY <3>1 DEF device, lifecycle, request, dump
  <2>3. CASE EnterCallback
    <3>1. /\ pc[Worker] = "loop" /\ ready # <<>> /\ ready' = Tail(ready)
          /\ Goto(Worker, "callback") /\ Head(ready).what = "callback"
          /\ UNCHANGED <<device, request, processed_, timer_, dump>>
      BY <2>3, Zenon DEF EnterCallback
    <3> QED
      BY <3>1 DEF device, lifecycle, request, dump
  <2> QED
    BY <2>1, <2>2, <2>3
<1>2. /\ pc' \in [Threads -> CallerStates \cup WorkerStates]
      /\ pc'[Worker] = s
      /\ \A t \in Threads : pc'[t] = "issue" => pc[t] = "issue"
  <2>1. CASE s = "callback" /\ Goto(Worker, s)
    BY <2>1, WorkerMoves DEF WorkerStates
  <2>2. CASE s = "loop" /\ UNCHANGED pc
    BY <1>1, <2>2 DEF LoopInv, LoopTypes, WriterTypesOK
  <2> QED
    BY <1>1, <2>1, <2>2
<1>3. Queue(1, <<>>)
  <2>1. ready \in Seq(LoopKnown(Len(writes), Len(reads)))
    BY DEF LoopInv, LoopTypes
  <2>2. Tail(ready) \o <<>> = Tail(ready) /\ Len(ready) >= 1 /\ Len(ready) \in Nat
    BY <1>1, <2>1
  <2> QED
    BY <1>1, <2>2 DEF Queue
<1>4. Executing'
  BY <1>1, <1>2 DEF Executing, InHandler
<1>5. /\ <<>> \in Seq(Known(Len(writes)))
      /\ \A i \in 1..Len(<<>>) : <<>>[i].what # "continue"
  OBVIOUS
<1>6. timer_' \in Seq(TimeoutsOf(Len(writes)))
  BY <1>1 DEF LoopInv, LoopTypes, WriterTypesOK
<1>7. /\ pc'[Worker] # "end" => pc[Worker] # "end"
      /\ \A t \in Threads : pc'[t] = "issue" => pc[t] = "issue" /\ <<>> = <<>>
  BY <1>1, <1>2
<1>8. LoopTypes' /\ ToIssue' /\ Progress' /\ Written' /\ Feeds
  BY <1>1, <1>2, <1>3, <1>5, <1>6, <1>7, QuietStep, Zenon
<1> QED
  BY <1>4, <1>8 DEF WriterKept

(* The timer does not expire in the midst of a call. *)
LEMMA TimerStep ==
    ASSUME ~SlowCaller, LoopInv, UNCHANGED reading, TimerExpires
    PROVE  WriterKept
<1>1. /\ \A t \in Threads : pc[t] # "issue"
      /\ ready' = ready \o timer_ /\ timer_' = <<>>
      /\ UNCHANGED <<device, request, processed_, dump, pc>>
  BY Zenon DEF TimerExpires
<1>2. UNCHANGED <<transport, link, buffer_, wire, requestedSize_, processed_, mine, writeId_,
                  writes, dumping, dumps>>
  BY <1>1 DEF device, lifecycle, request, dump
<1>3. /\ timer_ \in Seq(TimeoutsOf(Len(writes)))
      /\ ready \in Seq(LoopKnown(Len(writes), Len(reads)))
      /\ pc \in [Threads -> CallerStates \cup WorkerStates]
  BY DEF LoopInv, LoopTypes, WriterTypesOK
<1>4. timer_ \in Seq(Known(Len(writes))) /\ \A i \in 1..Len(timer_) : timer_[i].what # "continue"
  <2>1. \A i \in 1..Len(timer_) : timer_[i] \in TimeoutsOf(Len(writes))
    BY <1>3
  <2>2. TimeoutsOf(Len(writes)) \subseteq Known(Len(writes))
    BY DEF TimeoutsOf
  <2>3. timer_ \in Seq(Known(Len(writes)))
    BY <1>3, <2>2, SeqGrowsIn
  <2> QED
    BY <2>1, <2>3 DEF TimeoutsOf
<1>5. Queue(0, timer_) /\ timer_' \in Seq(TimeoutsOf(Len(writes)))
  <2>1. Len(ready) \in Nat
    BY <1>3
  <2> QED
    BY <1>1, <2>1 DEF Queue
<1>6. Executing'
  BY <1>1, <1>2, <1>4, <1>5, KeptExecuting
<1>7. /\ pc' \in [Threads -> CallerStates \cup WorkerStates]
      /\ \A t \in Threads : pc'[t] = "issue" => pc[t] = "issue" /\ timer_ = <<>>
      /\ pc'[Worker] # "end" => pc[Worker] # "end"
      /\ 0 = 1 => Head(ready).what \in {"continue", "timeout", "callback"}
  BY <1>1, <1>3
<1>8. LoopTypes' /\ ToIssue' /\ Progress' /\ Written' /\ Feeds
  BY <1>2, <1>4, <1>5, <1>7, QuietStep, Zenon
<1> QED
  BY <1>6, <1>8 DEF WriterKept

(* A write is accepted: its number is new to the queue. *)
LEMMA NewWriteStep ==
    ASSUME NoWrap, LoopInv, UNCHANGED reading, NEW t \in Threads, NewWrite(t)
    PROVE  WriterKept
<1> USE WriterAssumption
<1> DEFINE n == Len(writes) + 1
<1>1. PICK kind \in Kinds, size \in Sizes, timed \in Timeouts, sync \in BOOLEAN :
         /\ requestedSize_' = size
         /\ writes' = Append(writes, [kind |-> kind, size |-> size, timed |-> timed,
                                      sync |-> sync])
         /\ IF timed THEN Arm(NextId, n) ELSE UNCHANGED <<ready, timer_>>
  BY Zenon DEF NewWrite
<1>2. /\ InUserCode(t) /\ ~Busy /\ Len(writes) < MaxWrites
      /\ writeId_' = NextId
      /\ processed_' = 0
      /\ mine' = [mine EXCEPT ![t] = n]
      /\ Goto(t, "issue")
      /\ UNCHANGED <<device, dump>>
  BY Zenon DEF NewWrite, MayCall
<1>3. /\ Len(writes) \in Nat /\ n \in Nat /\ Len(reads) \in Nat /\ writes \in Seq(Writes)
      /\ UNCHANGED reads
  BY LengthTypes DEF reading
<1>4. NextId = n
  BY <1>2, <1>3, NextIdCounts DEF NextId, LoopInv, WriterInv, OutcomeInv, Numbered
<1>5. /\ Len(writes') = n
      /\ \A i \in 1..Len(writes) : writes'[i] = writes[i]
  <2>1. [kind |-> kind, size |-> size, timed |-> timed, sync |-> sync] \in Writes
    BY DEF Writes
  <2> QED
    BY <1>1, <1>3, <2>1
<1> HIDE DEF n
<1>6. /\ timer_ \in Seq(TimeoutsOf(Len(writes))) /\ timer_ \in Seq(TimeoutsOf(n))
      /\ timer_ \in Seq(Known(Len(writes))) /\ timer_ \in Seq(Known(n))
      /\ ready \in Seq(LoopKnown(Len(writes), Len(reads)))
  <2>1. /\ TimeoutsOf(Len(writes)) \subseteq Known(Len(writes))
        /\ Known(Len(writes)) \subseteq Known(n)
        /\ TimeoutsOf(Len(writes)) \subseteq TimeoutsOf(n)
    BY <1>3 DEF TimeoutsOf, Known, n
  <2>2. timer_ \in Seq(TimeoutsOf(Len(writes))) /\ ready \in Seq(LoopKnown(Len(writes), Len(reads)))
    BY DEF LoopInv, LoopTypes, WriterTypesOK
  <2>3. timer_ \in Seq(TimeoutsOf(n)) /\ timer_ \in Seq(Known(Len(writes)))
    BY <2>1, <2>2, SeqGrowsIn
  <2>4. timer_ \in Seq(Known(n))
    BY <2>1, <2>3, SeqGrowsIn
  <2> QED
    BY <2>2, <2>3, <2>4
<1>7. PICK new \in Seq(Known(Len(writes))) : Queue(0, new) /\ new \in Seq(Known(n))
  <2>1. CASE timed
    <3>1. ready' = ready \o timer_
      BY <1>1, <2>1 DEF Arm
    <3>2. Queue(0, timer_)
      BY <1>6, <3>1 DEF Queue
    <3> QED
      BY <1>6, <3>2
  <2>2. CASE ~timed
    <3>1. ready' = ready \o <<>> /\ \A S : <<>> \in Seq(S)
      BY <1>1, <1>6, <2>2
    <3>2. Queue(0, <<>>)
      BY <1>6, <3>1 DEF Queue
    <3> QED
      BY <3>1, <3>2
  <2> QED
    BY <2>1, <2>2
<1>8. timer_' \in Seq(TimeoutsOf(n))
  <2>1. TimeoutReached(n, n) \in TimeoutsOf(n)
    BY <1>3 DEF TimeoutReached, Handler, Handlers, Known, TimeoutsOf, n
  <2>2. CASE timed
    <3>1. timer_' = <<TimeoutReached(n, n)>>
      BY <1>1, <1>4, <2>2 DEF Arm
    <3> QED
      BY <2>1, <3>1
  <2>3. CASE ~timed
    BY <1>1, <1>6, <2>3
  <2> QED
    BY <2>2, <2>3
<1>9. ready' \in Seq(LoopKnown(Len(writes), Len(reads)))
  <2>1. new \in Seq(LoopKnown(Len(writes), Len(reads)))
    BY SeqGrowsIn DEF LoopKnown
  <2> QED
    BY <1>6, <1>7, <2>1, QueueShape
<1>10. UNCHANGED <<transport, link, buffer_, wire, dumping, dumps>>
  BY <1>2 DEF device, lifecycle, dump
<1>11. /\ pc' \in [Threads -> CallerStates \cup WorkerStates]
       /\ pc'[t] = "issue"
       /\ \A u \in Threads : u # t => pc'[u] = pc[u] /\ pc[u] # "issue"
  <2>1. "issue" \in CallerStates \cup WorkerStates
    BY DEF CallerStates
  <2>2. \A u \in Threads : pc[u] # "issue"
    BY <1>2 DEF LoopInv, WriterInv, ToIssue
  <2> QED
    BY <1>2, <2>1, <2>2, PcType
<1>12. writeId_' = Len(writes') /\ Len(writes') \in Nat /\ Busy'
  BY <1>2, <1>3, <1>4, <1>5 DEF Busy, n
<1>13. LoopTypes'
  <2>1. LoopKnown(Len(writes), Len(reads)) \subseteq LoopKnown(Len(writes'), Len(reads'))
    BY <1>3, <1>5 DEF LoopKnown, Known, ReadKnown, n
  <2>2. ready' \in Seq(LoopKnown(Len(writes'), Len(reads')))
    BY <1>9, <2>1, SeqGrowsIn
  <2>3. requestedSize_' \in Nat /\ processed_' \in Nat /\ mine' \in [Threads -> Nat]
    BY <1>1, <1>2, <1>3 DEF LoopInv, LoopTypes, WriterTypesOK, n
  <2>4. WriterTypesOK'
    BY <1>5, <1>8, <1>10, <1>11, <2>3 DEF LoopInv, LoopTypes, WriterTypesOK
  <2> QED
    BY <2>2, <2>4, SameReaderTypes DEF LoopInv, LoopTypes
<1>14. ToIssue'
  <2>1. \A u \in Threads : pc'[u] = "issue" => u = t
    BY <1>11
  <2>2. Len(writes') - 1 = Len(writes)
    BY <1>3, <1>5 DEF n
  <2>3. mine'[t] = Len(writes')
    BY <1>2, <1>5 DEF LoopInv, LoopTypes, WriterTypesOK
  <2>4. \A b \in Content(wire') : b[1] < Len(writes')
    <3>1. \A b \in Content(wire) : b[1] \in 1..Len(writes)
      BY DEF LoopInv, WriterInv, Written
    <3>2. Content(wire') = Content(wire)
      BY <1>10 DEF Content
    <3> QED
      BY <1>3, <1>5, <3>1, <3>2 DEF n
  <2> QED
    BY <1>2, <1>3, <1>9, <1>12, <2>1, <2>2, <2>3, <2>4 DEF ToIssue
<1>15. Executing'
  <2>1. ~InHandler
    BY <1>2 DEF LoopInv, WriterInv, Executing
  <2>2. ~InHandler'
    BY <1>11, <2>1 DEF InHandler, Threads
  <2> QED
    BY <2>2 DEF Executing
<1>16. Progress'
  <2>1. \A i \in 1..Len(ready') : ~OwnContinue(i)'
    <3> SUFFICES ASSUME NEW i \in 1..Len(ready'), ready'[i].what = "continue",
                        ready'[i].id = writeId_'
                 PROVE  FALSE
      BY DEF OwnContinue
    <3>1. ready'[i] \in LoopKnown(Len(writes), Len(reads))
      BY <1>9
    <3>2. ready'[i].id \in 1..Len(writes)
      BY <1>3, <3>1, LoopFields
    <3> QED
      BY <1>3, <1>5, <1>12, <3>2 DEF n
  <2> QED
    BY <2>1 DEF Progress
<1>17. Written'
  <2>1. /\ Content(wire') = Content(wire) /\ Ascending(wire')
        /\ \A b \in Content(wire) : b[1] \in 1..Len(writes)
    BY <1>10 DEF LoopInv, WriterInv, Written, Content, Ascending
  <2> QED
    BY <1>3, <1>5, <2>1 DEF Written, n
<1>18. Feeds
  <2>1. Grows(<<>>)
    BY <1>10, NoneGrow
  <2>2. Len(writes') \in Nat /\ Len(writes) <= Len(writes')
    BY <1>3, <1>5 DEF n
  <2>3. \E k \in {0, 1}, q \in Seq(Known(Len(writes'))) :
          /\ Queue(k, q)
          /\ k = 1 => Head(ready).what \in {"continue", "timeout", "callback"}
    BY <1>5, <1>7
  <2> QED
    BY <1>5, <1>10, <2>1, <2>2, <2>3 DEF Feeds
<1> QED
  BY <1>13, <1>14, <1>15, <1>16, <1>17, <1>18 DEF WriterKept

-----------------------------------------------------------------------------
(* Sequences of bytes *)

LEMMA ContentConcat == ASSUME NEW S, NEW s \in Seq(S), NEW t \in Seq(S)
                       PROVE  Content(s \o t) = Content(s) \cup Content(t)
<1>1. /\ Len(s) \in Nat /\ Len(t) \in Nat /\ Len(s \o t) = Len(s) + Len(t)
      /\ \A i \in 1..(Len(s) + Len(t)) :
            (s \o t)[i] = IF i <= Len(s) THEN s[i] ELSE t[i - Len(s)]
  OBVIOUS
<1>2. ASSUME NEW x, x \in Content(s \o t) PROVE x \in Content(s) \cup Content(t)
  <2>1. PICK i \in 1..(Len(s) + Len(t)) : x = (s \o t)[i]
    BY <1>1, <1>2 DEF Content
  <2>2. CASE i <= Len(s)
    BY <1>1, <2>1, <2>2 DEF Content
  <2>3. CASE i > Len(s)
    <3>1. i - Len(s) \in 1..Len(t) /\ x = t[i - Len(s)]
      BY <1>1, <2>1, <2>3
    <3> QED
      BY <3>1 DEF Content
  <2> QED
    BY <1>1, <2>2, <2>3
<1>3. ASSUME NEW x, x \in Content(s) PROVE x \in Content(s \o t)
  BY <1>1, <1>3 DEF Content
<1>4. ASSUME NEW x, x \in Content(t) PROVE x \in Content(s \o t)
  <2>1. PICK i \in 1..Len(t) : x = t[i]
    BY <1>4 DEF Content
  <2>2. i + Len(s) \in 1..(Len(s) + Len(t)) /\ (s \o t)[i + Len(s)] = x
    BY <1>1, <2>1
  <2> QED
    BY <1>1, <2>2 DEF Content
<1> QED
  BY <1>2, <1>3, <1>4

LEMMA AscendingConcat ==
    ASSUME NEW S, NEW s \in Seq(S), NEW t \in Seq(S), Ascending(s), Ascending(t),
           Follow(Content(s), Content(t))
    PROVE  Ascending(s \o t)
<1>1. /\ Len(s) \in Nat /\ Len(t) \in Nat /\ Len(s \o t) = Len(s) + Len(t)
      /\ \A i \in 1..(Len(s) + Len(t)) :
            (s \o t)[i] = IF i <= Len(s) THEN s[i] ELSE t[i - Len(s)]
  OBVIOUS
<1> SUFFICES ASSUME NEW i \in 1..(Len(s) + Len(t)), NEW j \in 1..(Len(s) + Len(t)), i < j
             PROVE  Before((s \o t)[i], (s \o t)[j])
  BY <1>1 DEF Ascending
<1>2. CASE j <= Len(s)
  <2>1. i \in 1..Len(s) /\ j \in 1..Len(s) /\ (s \o t)[i] = s[i] /\ (s \o t)[j] = s[j]
    BY <1>1, <1>2
  <2> QED
    BY <2>1 DEF Ascending
<1>3. CASE i <= Len(s) /\ j > Len(s)
  <2>1. /\ i \in 1..Len(s) /\ j - Len(s) \in 1..Len(t)
        /\ (s \o t)[i] = s[i] /\ (s \o t)[j] = t[j - Len(s)]
    BY <1>1, <1>3
  <2>2. s[i] \in Content(s) /\ t[j - Len(s)] \in Content(t)
    BY <2>1 DEF Content
  <2> QED
    BY <2>1, <2>2 DEF Follow
<1>4. CASE i > Len(s)
  <2>1. /\ i - Len(s) \in 1..Len(t) /\ j - Len(s) \in 1..Len(t) /\ i - Len(s) < j - Len(s)
        /\ (s \o t)[i] = t[i - Len(s)] /\ (s \o t)[j] = t[j - Len(s)]
    BY <1>1, <1>4
  <2> QED
    BY <2>1 DEF Ascending
<1> QED
  BY <1>1, <1>2, <1>3, <1>4

(* The bytes an operation writes. *)
LEMMA BytesAscend ==
    ASSUME NEW op \in Handlers, NEW n \in Nat
    PROVE  /\ Bytes(op, n) \in Seq(ByteNames) /\ Len(Bytes(op, n)) = n
           /\ Ascending(Bytes(op, n))
           /\ \A b \in Content(Bytes(op, n)) :
                 b[1] = op.src /\ op.from < b[2] /\ b[2] <= op.from + n
<1>1. Bytes(op, n) \in Seq(ByteNames) /\ Len(Bytes(op, n)) = n
  BY BytesType
<1>2. op.src \in Nat /\ op.from \in Nat
  BY DEF Handlers
<1>3. \A i \in 1..n : Bytes(op, n)[i][1] = op.src /\ Bytes(op, n)[i][2] = op.from + i
  BY DEF Bytes
<1>4. Ascending(Bytes(op, n))
  BY <1>1, <1>2, <1>3 DEF Ascending, Before
<1>5. \A b \in Content(Bytes(op, n)) :
         b[1] = op.src /\ op.from < b[2] /\ b[2] <= op.from + n
  BY <1>1, <1>2, <1>3 DEF Content
<1> QED
  BY <1>1, <1>4, <1>5

-----------------------------------------------------------------------------
(* The memory takes bytes of the write in progress that follow what it took. *)
LEMMA StringTakes ==
    ASSUME LoopInv, NEW op \in Handlers, op.src = Len(writes), NEW queue, StringWrite(op, queue),
           \A b \in Content(wire) : b[1] = op.src => b[2] <= op.from
    PROVE  \E n \in Nat :
              /\ ready' = Append(queue, Answered(op, n, FALSE))
              /\ Grows(Bytes(op, n))
              /\ \A b \in Content(wire') : b[1] = Len(writes) => b[2] <= op.from + n
<1> DEFINE room == Capacity - Len(buffer_)
           n    == IF op.n < room THEN op.n ELSE room
<1>1. /\ buffer_ \in Seq(ByteNames) /\ Len(buffer_) <= Capacity /\ wire \in Seq(ByteNames)
      /\ Len(writes) \in Nat /\ Len(buffer_) \in Nat
  BY LengthTypes DEF LoopInv, LoopTypes, WriterTypesOK
<1>2. n \in Nat /\ Len(buffer_) + n <= Capacity
  BY <1>1, DevicesAssumption DEF Handlers
<1>3. /\ buffer_' = buffer_ \o Bytes(op, n)
      /\ wire' = wire \o Bytes(op, n)
      /\ ready' = Append(queue, Answered(op, n, FALSE))
  BY DEF StringWrite
<1> HIDE DEF n
<1>4. /\ Bytes(op, n) \in Seq(ByteNames) /\ Len(Bytes(op, n)) = n
      /\ Ascending(Bytes(op, n))
      /\ \A b \in Content(Bytes(op, n)) :
            b[1] = op.src /\ op.from < b[2] /\ b[2] <= op.from + n
  BY <1>2, BytesAscend
<1>5. Len(buffer_') <= Capacity
  BY <1>1, <1>2, <1>3, <1>4, ConcatType
<1>6. op.from \in Nat
  BY DEF Handlers
<1>7. \A b \in Content(wire) : b \in ByteNames /\ b[1] \in 1..Len(writes) /\ b[2] \in Nat
  <2>1. \A b \in Content(wire) : b \in ByteNames
    BY <1>1, LenType DEF Content
  <2>2. \A b \in ByteNames : b[2] \in Nat
    BY DEF ByteNames
  <2> QED
    BY <2>1, <2>2 DEF LoopInv, WriterInv, Written
<1>8. \A c \in Content(Bytes(op, n)) : c \in ByteNames /\ c[2] \in Nat
  <2>1. \A b \in Content(Bytes(op, n)) : b \in ByteNames
    BY <1>4, LenType DEF Content
  <2> QED
    BY <2>1 DEF ByteNames
<1>9. Follow(Content(wire), Content(Bytes(op, n)))
  BY <1>1, <1>4, <1>6, <1>7, <1>8 DEF Follow, Before
<1>10. \A b \in Content(wire') : b[1] = Len(writes) => b[2] <= op.from + n
  <2>1. Content(wire') = Content(wire) \cup Content(Bytes(op, n))
    BY <1>1, <1>3, <1>4, ContentConcat
  <2> QED
    BY <1>2, <1>4, <1>6, <1>7, <2>1
<1> QED
  BY <1>2, <1>3, <1>4, <1>5, <1>9, <1>10 DEF Grows

(* Bytes that follow keep what was written in order. *)
LEMMA GrowsWritten ==
    ASSUME LoopInv, NEW w, Grows(w), Busy, UNCHANGED writes
    PROVE  Written' /\ buffer_' \in Seq(ByteNames) /\ wire' \in Seq(ByteNames)
<1>1. /\ buffer_ \in Seq(ByteNames) /\ wire \in Seq(ByteNames) /\ w \in Seq(ByteNames)
      /\ wire' = wire \o w /\ buffer_' = buffer_ \o w
  BY DEF LoopInv, LoopTypes, WriterTypesOK, Grows
<1>2. /\ Ascending(wire) /\ Ascending(w) /\ Follow(Content(wire), Content(w))
      /\ \A b \in Content(wire) : b[1] \in 1..Len(writes)
      /\ \A b \in Content(w) : b[1] = Len(writes)
  BY DEF LoopInv, WriterInv, Written, Grows
<1>3. Len(writes) \in 1..Len(writes)
  BY LengthTypes DEF LoopInv, WriterInv, OutcomeInv, Numbered, Busy
<1>4. Ascending(wire') /\ Content(wire') = Content(wire) \cup Content(w)
  BY <1>1, <1>2, AscendingConcat, ContentConcat
<1> QED
  BY <1>1, <1>2, <1>3, <1>4, ConcatType DEF Written

(* An operation given to the memory is answered at once. *)
LEMMA OperationStep ==
    ASSUME LoopInv, Busy, NEW k \in {0, 1}, k <= Len(ready),
           k = 1 => Head(ready).what \in {"continue", "timeout", "callback"},
           NEW op \in Handlers, op.what = "continue", op.id = Len(writes), op.src = Len(writes),
           op.from = processed_', processed_' \in Nat,
           StringWrite(op, IF k = 0 THEN ready ELSE Tail(ready)),
           \A b \in Content(wire) : b[1] = op.src => b[2] <= op.from,
           \A i \in 1..Len(ready) : OwnContinue(i) => i <= k,
           UNCHANGED <<transport, link, requestedSize_, mine, writeId_, writes, timer_, dumping,
                       dumps, reading>>,
           pc' \in [Threads -> CallerStates \cup WorkerStates],
           \A t \in Threads : pc'[t] # "issue",
           ~InHandler'
    PROVE  WriterKept
<1> DEFINE queue == IF k = 0 THEN ready ELSE Tail(ready)
<1>1. PICK n \in Nat :
         /\ ready' = Append(queue, Answered(op, n, FALSE))
         /\ Grows(Bytes(op, n))
         /\ \A b \in Content(wire') : b[1] = Len(writes) => b[2] <= op.from + n
  BY StringTakes
<1> DEFINE e == Answered(op, n, FALSE)
           T == LoopKnown(Len(writes), Len(reads))
<1>2. /\ Len(writes) \in Nat /\ Len(reads) \in Nat /\ Len(ready) \in Nat /\ UNCHANGED reads
      /\ Len(writes) \in 1..Len(writes) /\ writeId_ = Len(writes)
  BY LengthTypes DEF LoopInv, WriterInv, OutcomeInv, Numbered, Busy, reading
<1>3. /\ e \in Known(Len(writes))
      /\ e.what = "continue" /\ e.id = Len(writes) /\ e.from = op.from /\ e.n = n
  <2>1. e \in Handlers
    BY AnsweredType
  <2>2. e.what = op.what /\ e.id = op.id /\ e.src = op.src /\ e.from = op.from /\ e.n = n
    BY DEF Answered, Handlers
  <2> QED
    BY <1>2, <2>1, <2>2 DEF Known
<1>4. ready \in Seq(T) /\ e \in T
  BY <1>3 DEF LoopInv, LoopTypes, LoopKnown
<1>a. ready' = Append(queue, e)
  BY <1>1
<1> HIDE DEF e, T
<1> DEFINE new == <<e>>
<1>5. Queue(k, new) /\ new \in Seq(T) /\ new \in Seq(Known(Len(writes)))
  <2>1. /\ <<e>> \in Seq(T) /\ <<e>> \in Seq(Known(Len(writes)))
        /\ ready \in Seq(T) => Append(ready, e) = ready \o <<e>>
    BY <1>3, <1>4
  <2>2. CASE k = 0
    BY <1>a, <1>2, <1>4, <2>1, <2>2 DEF Queue
  <2>3. CASE k = 1
    <3>1. Tail(ready) \in Seq(T)
      BY <1>2, <1>4, <2>3
    <3>2. Append(Tail(ready), e) = Tail(ready) \o <<e>>
      BY <1>4, <3>1
    <3> QED
      BY <1>a, <1>2, <2>1, <2>3, <3>2 DEF Queue
  <2> QED
    BY <2>2, <2>3
<1>6. /\ ready' \in Seq(T) /\ Len(ready') = Len(ready) - k + 1
      /\ \A i \in 1..Len(ready') :
            \/ i + k \in 1..Len(ready) /\ ready'[i] = ready[i + k]
            \/ i = Len(ready') /\ ready'[i] = e
  <2>1. Len(new) = 1 /\ new[1] = e
    OBVIOUS
  <2> HIDE DEF new
  <2>2. /\ ready' \in Seq(T)
        /\ Len(ready') = Len(ready) - k + Len(new)
        /\ \A i \in 1..Len(ready') :
              \/ i + k \in 1..Len(ready) /\ ready'[i] = ready[i + k]
              \/ /\ i + k - Len(ready) \in 1..Len(new)
                 /\ ready'[i] = new[i + k - Len(ready)]
    <3>1. ready \in Seq(T) /\ new \in Seq(T) /\ Queue(k, new)
      BY <1>4, <1>5
    <3> HIDE DEF queue
    <3> QED
      BY ONLY <3>1, QueueParts
  <2>3. ASSUME NEW i \in 1..Len(ready'), i + k - Len(ready) \in 1..Len(new),
               ready'[i] = new[i + k - Len(ready)]
        PROVE  i = Len(ready') /\ ready'[i] = e
    <3>1. i + k - Len(ready) = 1
      BY <1>2, <2>1, <2>3
    <3>2. i = Len(ready')
      BY <1>2, <2>1, <2>2, <3>1
    <3> QED
      BY <2>1, <2>3, <3>1, <3>2
  <2> QED
    BY <2>1, <2>2, <2>3
<1>7. Written' /\ buffer_' \in Seq(ByteNames) /\ wire' \in Seq(ByteNames)
  BY <1>1, GrowsWritten
<1>8. LoopTypes'
  <2>1. Len(buffer_') <= Capacity
    BY <1>1 DEF Grows
  <2>2. WriterTypesOK'
    BY <1>7, <2>1 DEF LoopInv, LoopTypes, WriterTypesOK
  <2>3. ready' \in Seq(LoopKnown(Len(writes'), Len(reads')))
    BY <1>2, <1>6 DEF T
  <2> QED
    BY <2>2, <2>3, SameReaderTypes DEF LoopInv, LoopTypes
<1>9. ToIssue' /\ Executing'
  BY DEF ToIssue, Executing
<1>10. Progress'
  <2>1. \A i \in 1..Len(ready') : OwnContinue(i)' => i = Len(ready') /\ ready'[i] = e
    <3> SUFFICES ASSUME NEW i \in 1..Len(ready'), OwnContinue(i)',
                        i + k \in 1..Len(ready), ready'[i] = ready[i + k]
                 PROVE  FALSE
      BY <1>6
    <3>1. OwnContinue(i + k)
      BY DEF OwnContinue
    <3>2. i + k <= k
      BY <3>1
    <3> QED
      BY <1>2, <3>2
  <2>2. \A i, j \in 1..Len(ready') : OwnContinue(i)' /\ OwnContinue(j)' => i = j
    BY <2>1
  <2>3. ASSUME NEW i \in 1..Len(ready'), OwnContinue(i)'
        PROVE  /\ ready'[i].from = processed_'
               /\ \A b \in Content(wire') :
                     b[1] = Len(writes') => b[2] <= processed_' + ready'[i].n
    <3>1. ready'[i].from = processed_' /\ ready'[i].n = n
      BY <1>3, <2>1, <2>3
    <3> QED
      BY <1>1, <3>1
  <2> QED
    BY <2>2, <2>3 DEF Progress
<1>11. Feeds
  <2> HIDE DEF new
  <2>1. new \in Seq(Known(Len(writes')))
    BY <1>5
  <2>2. \E q \in Seq(Known(Len(writes'))) :
           Queue(k, q) /\ (k = 1 => Head(ready).what \in {"continue", "timeout", "callback"})
    BY <1>5, <2>1
  <2>3. \E w : Grows(w)
    BY <1>1
  <2>4. /\ Len(writes') \in Nat /\ Len(writes) <= Len(writes')
        /\ \A i \in 1..Len(writes) : writes'[i] = writes[i]
    BY <1>2
  <2> QED
    BY <2>2, <2>3, <2>4 DEF Feeds
<1> QED
  BY <1>7, <1>8, <1>9, <1>10, <1>11 DEF WriterKept

(* The continuation that a write is given. *)
LEMMA OperationAsked ==
    ASSUME LoopInv, Busy, NEW from \in Nat, NEW n \in Nat, NEW kind \in Kinds,
           NEW queue, DoWriteSome(n, src_, from, writeId_, kind, queue)
    PROVE  \E op \in Handlers :
              /\ op.what = "continue" /\ op.id = Len(writes) /\ op.src = Len(writes)
              /\ op.from = from
              /\ StringWrite(op, queue)
              /\ link' = link
<1> DEFINE op == [Handler("continue", writeId_, src_, kind)
                     EXCEPT !.from = from, !.n = n, !.dump = dumping]
<1>1. /\ writeId_ = Len(writes) /\ src_ = Len(writes) /\ Len(writes) \in Nat
      /\ dumping \in BOOLEAN /\ transport = "string" /\ link = "open"
  BY LengthTypes DEF LoopInv, LoopTypes, WriterTypesOK, WriterInv, OutcomeInv, Numbered, Busy
<1>2. /\ op \in Handlers
      /\ op.what = "continue" /\ op.id = Len(writes) /\ op.src = Len(writes) /\ op.from = from
  BY <1>1 DEF Handler, Handlers
<1>3. AsyncWriteSome(op, queue)
  BY Zenon DEF DoWriteSome
<1> HIDE DEF op
<1>4. StringWrite(op, queue) /\ link' = link
  BY <1>1, <1>3 DEF AsyncWriteSome
<1> QED
  BY <1>2, <1>4

LEMMA IssueStep ==
    ASSUME LoopInv, UNCHANGED reading, NEW t \in Threads, Issue(t)
    PROVE  WriterKept
<1>1. /\ pc[t] = "issue"
      /\ DoWriteSome(requestedSize_, src_, 0, writeId_, writes[mine[t]].kind, ready)
      /\ Goto(t, Started(t))
      /\ UNCHANGED <<transport, resets, request, processed_, timer_, dump>>
  BY Zenon DEF Issue
<1>2. /\ Busy /\ processed_ = 0 /\ mine[t] = Len(writes)
      /\ ready \in Seq(LoopKnown(Len(writes) - 1, Len(reads)))
      /\ \A b \in Content(wire) : b[1] < Len(writes)
      /\ \A u \in Threads : pc[u] = "issue" => u = t
  BY <1>1 DEF LoopInv, WriterInv, ToIssue
<1>3. /\ Len(writes) \in Nat /\ Len(reads) \in Nat /\ Len(ready) \in Nat /\ writes \in Seq(Writes)
      /\ Len(writes) \in 1..Len(writes) /\ writeId_ = Len(writes)
      /\ requestedSize_ \in Nat
  BY <1>2, LengthTypes
  DEF LoopInv, LoopTypes, WriterTypesOK, WriterInv, OutcomeInv, Numbered, Busy
<1>4. writes[mine[t]].kind \in Kinds
  <2>1. writes[mine[t]] \in Writes
    BY <1>2, <1>3, LenType
  <2> QED
    BY <2>1 DEF Writes
<1>5. PICK op \in Handlers :
         /\ op.what = "continue" /\ op.id = Len(writes) /\ op.src = Len(writes)
         /\ op.from = 0
         /\ StringWrite(op, ready)
         /\ link' = link
  BY <1>1, <1>2, <1>3, <1>4, OperationAsked
<1>6. UNCHANGED <<requestedSize_, mine, writeId_, writes, dumping, dumps>>
  BY <1>1 DEF request, dump
<1>7. Started(t) \in (CallerStates \cup WorkerStates) \ {"issue", "continue", "timeout", "end"}
  BY DEF Started, CallerStates, WorkerStates
<1>8. /\ pc' \in [Threads -> CallerStates \cup WorkerStates]
      /\ pc'[t] = Started(t) /\ \A u \in Threads : u # t => pc'[u] = pc[u]
  BY <1>1, <1>7, PcType
<1>9. \A u \in Threads : pc'[u] # "issue"
  BY <1>2, <1>7, <1>8
<1>10. ~InHandler'
  <2>1. ~InHandler
    BY <1>1, NoneToIssue
  <2> QED
    BY <1>7, <1>8, <2>1 DEF InHandler, Threads
<1>11. \A i \in 1..Len(ready) : ~OwnContinue(i)
  <2> SUFFICES ASSUME NEW i \in 1..Len(ready), ready[i].what = "continue", ready[i].id = writeId_
               PROVE  FALSE
    BY DEF OwnContinue
  <2>1. ready[i] \in LoopKnown(Len(writes) - 1, Len(reads)) /\ Len(writes) - 1 \in Nat
    BY <1>2, <1>3
  <2>2. ready[i].id \in 1..(Len(writes) - 1)
    BY <1>3, <2>1, LoopFields
  <2> QED
    BY <1>3, <2>2
<1>12. \A b \in Content(wire) : b[1] = op.src => b[2] <= op.from
  <2>1. \A b \in Content(wire) : b[1] \in 1..Len(writes)
    BY DEF LoopInv, WriterInv, Written
  <2> QED
    BY <1>2, <1>3, <1>5, <2>1
<1>13. /\ op.from = processed_' /\ processed_' \in Nat
       /\ StringWrite(op, IF 0 = 0 THEN ready ELSE Tail(ready))
       /\ 0 <= Len(ready) /\ 0 \in {0, 1}
       /\ 0 = 1 => Head(ready).what \in {"continue", "timeout", "callback"}
       /\ \A i \in 1..Len(ready) : OwnContinue(i) => i <= 0
  BY <1>1, <1>2, <1>3, <1>5, <1>11
<1> QED
  BY <1>1, <1>2, <1>5, <1>6, <1>8, <1>9, <1>10, <1>12, <1>13, OperationStep, Zenon

(* What the worker does in the midst of a handler concerns no write that has   *)
(* to be issued.                                                             *)
LEMMA HandlerStep ==
    ASSUME LoopInv, InHandler, NEW k, NEW new \in Seq(Known(Len(writes))), Queue(k, new),
           k = 1 => Head(ready).what \in {"continue", "timeout", "callback"},
           UNCHANGED <<transport, link, buffer_, wire, requestedSize_, mine, writes, timer_,
                       dumping, dumps, reading>>,
           processed_' \in Nat, NEW s \in {"end", "loop"}, Goto(Worker, s),
           Progress', Executing'
    PROVE  WriterKept
<1>1. /\ pc' \in [Threads -> CallerStates \cup WorkerStates]
      /\ \A t \in Threads : pc'[t] # "issue"
  BY NoneToIssue, WorkerMoves DEF WorkerStates
<1>2. UNCHANGED reads
  BY DEF reading
<1>3. new \in Seq(LoopKnown(Len(writes), Len(reads)))
  BY SeqGrowsIn DEF LoopKnown
<1>4. ready' \in Seq(LoopKnown(Len(writes), Len(reads)))
  <2>1. ready \in Seq(LoopKnown(Len(writes), Len(reads)))
    BY DEF LoopInv, LoopTypes
  <2> QED
    BY ONLY <1>3, <2>1, QueueParts, Queue(k, new)
<1>5. LoopTypes'
  BY <1>1, <1>2, <1>4, SameReaderTypes DEF LoopInv, LoopTypes, WriterTypesOK
<1>6. ToIssue' /\ Written'
  BY <1>1, KeptWritten DEF ToIssue
<1>7. Feeds
  <2>1. k \in {0, 1} /\ Len(writes') \in Nat /\ Len(writes) <= Len(writes')
    BY LengthTypes DEF Queue
  <2>2. \E q \in Seq(Known(Len(writes'))) :
           Queue(k, q) /\ (k = 1 => Head(ready).what \in {"continue", "timeout", "callback"})
    OBVIOUS
  <2> QED
    BY <2>1, <2>2, NoneGrow DEF Feeds
<1> QED
  BY <1>5, <1>6, <1>7 DEF WriterKept

LEMMA ContinueStep ==
    ASSUME LoopInv, UNCHANGED reading, Continue
    PROVE  WriterKept
<1> DEFINE handler == Head(ready)
           total   == processed_ + handler.n
<1>1. /\ pc[Worker] = "continue" /\ InHandler
      /\ UNCHANGED <<transport, resets, request, timer_, dump>>
  BY DEF Continue, InHandler
<1>2. /\ ready # <<>> /\ Busy /\ handler.what = "continue" /\ handler.id = writeId_
      /\ handler = ready[1] /\ 1 \in 1..Len(ready)
      /\ handler \in LoopKnown(Len(writes), Len(reads))
  BY <1>1, HeadOf DEF LoopInv, WriterInv, Executing
<1>3. /\ Len(writes) \in Nat /\ Len(reads) \in Nat /\ Len(ready) \in Nat /\ writeId_ = Len(writes)
      /\ src_ = Len(writes) /\ requestedSize_ \in Nat /\ processed_ \in Nat
      /\ ready \in Seq(LoopKnown(Len(writes), Len(reads)))
  BY <1>2, LengthTypes
  DEF LoopInv, LoopTypes, WriterTypesOK, WriterInv, OutcomeInv, Numbered, Busy
<1>4. handler \in Handlers /\ handler.n \in Nat
  <2>1. handler \in Handlers
    BY <1>2, <1>3, LoopFields
  <2> QED
    BY <2>1 DEF Handlers
<1>5. /\ \A i \in 1..Len(ready) : OwnContinue(i) => i <= 1
      /\ handler.from = processed_
      /\ \A b \in Content(wire) : b[1] = Len(writes) => b[2] <= total
  <2>1. OwnContinue(1)
    BY <1>2 DEF OwnContinue
  <2> QED
    BY <1>1, <1>2, <2>1 DEF LoopInv, WriterInv, Progress
<1>6. total \in Nat
  BY <1>3, <1>4
<1>7. \/ /\ processed_' \in {handler.n, total}
         /\ Goto(Worker, "end")
         /\ UNCHANGED <<link, buffer_, wire, ready>>
      \/ /\ handler.kind = "all" /\ processed_' = total /\ total < requestedSize_
         /\ DoWriteSome(requestedSize_ - total, src_, total, handler.id, handler.kind,
                        Tail(ready))
         /\ Goto(Worker, "loop")
  BY Zenon DEF Continue, ContinueSome, ContinueAll
<1> HIDE DEF handler, total
<1>8. UNCHANGED <<requestedSize_, mine, writeId_, writes, dumping, dumps>>
  BY <1>1 DEF request, dump
<1>9. CASE /\ processed_' \in {handler.n, total}
           /\ Goto(Worker, "end")
           /\ UNCHANGED <<link, buffer_, wire, ready>>
  <2>1. pc'[Worker] = "end"
    BY <1>9, WorkerMoves DEF WorkerStates
  <2>2. Executing' /\ Progress'
    BY <1>1, <1>8, <1>9, <2>1 DEF LoopInv, WriterInv, Executing, Progress, InHandler, Busy
  <2>3. Queue(0, <<>>) /\ <<>> \in Seq(Known(Len(writes)))
    BY <1>3, <1>9 DEF Queue
  <2>4. processed_' \in Nat
    BY <1>4, <1>6, <1>9
  <2>5. 0 = 1 => Head(ready).what \in {"continue", "timeout", "callback"}
    OBVIOUS
  <2> QED
    BY <1>1, <1>8, <1>9, <2>2, <2>3, <2>4, <2>5, HandlerStep
<1>10. CASE /\ handler.kind = "all" /\ processed_' = total /\ total < requestedSize_
            /\ DoWriteSome(requestedSize_ - total, src_, total, handler.id, handler.kind,
                           Tail(ready))
            /\ Goto(Worker, "loop")
  <2>1. requestedSize_ - total \in Nat /\ handler.kind \in Kinds
    BY <1>3, <1>4, <1>6, <1>10 DEF Handlers
  <2>2. DoWriteSome(requestedSize_ - total, src_, total, writeId_, handler.kind, Tail(ready))
    BY <1>2, <1>10
  <2>3. PICK op \in Handlers :
           /\ op.what = "continue" /\ op.id = Len(writes) /\ op.src = Len(writes)
           /\ op.from = total
           /\ StringWrite(op, Tail(ready))
           /\ link' = link
    BY <1>2, <1>6, <2>1, <2>2, OperationAsked
  <2>4. /\ pc' \in [Threads -> CallerStates \cup WorkerStates]
        /\ \A t \in Threads : pc'[t] # "issue"
        /\ ~InHandler'
    BY <1>1, <1>10, NoneToIssue, WorkerMoves DEF WorkerStates, InHandler
  <2>5. /\ op.from = processed_' /\ processed_' \in Nat
        /\ StringWrite(op, IF 1 = 0 THEN ready ELSE Tail(ready))
        /\ 1 <= Len(ready) /\ 1 \in {0, 1}
        /\ 1 = 1 => Head(ready).what \in {"continue", "timeout", "callback"}
        /\ \A b \in Content(wire) : b[1] = op.src => b[2] <= op.from
    BY <1>2, <1>3, <1>5, <1>6, <1>10, <2>3 DEF handler
  <2> QED
    BY <1>1, <1>2, <1>5, <1>8, <2>3, <2>4, <2>5, OperationStep, Zenon
<1> QED
  BY <1>7, <1>9, <1>10

LEMMA FinishStep ==
    ASSUME LoopInv, UNCHANGED reading, FinishHandler
    PROVE  WriterKept
<1>1. /\ pc[Worker] = "end" /\ InHandler
      /\ FinishWrite(Head(ready).err, Tail(ready))
      /\ Goto(Worker, "loop")
      /\ UNCHANGED <<device, requestedSize_, writes, mine, processed_, timer_, dump>>
  BY Zenon DEF FinishHandler, InHandler
<1>2. /\ ready # <<>> /\ Busy /\ Head(ready).what \in {"continue", "timeout"}
      /\ Head(ready) \in LoopKnown(Len(writes), Len(reads))
  BY <1>1, HeadOf DEF LoopInv, WriterInv, Executing
<1>3. /\ Len(writes) \in Nat /\ Len(reads) \in Nat /\ Len(ready) \in Nat
      /\ src_ = Len(writes) /\ processed_ \in Nat
      /\ ready \in Seq(LoopKnown(Len(writes), Len(reads)))
  BY <1>2, LengthTypes
  DEF LoopInv, LoopTypes, WriterTypesOK, WriterInv, OutcomeInv, Numbered, Busy
<1>4. Head(ready).err \in BOOLEAN
  <2>1. Head(ready) \in Handlers
    BY <1>2, <1>3, LoopFields
  <2> QED
    BY <2>1 DEF Handlers
<1> DEFINE e == UserCallback(Head(ready).err)
<1>5. e \in Known(Len(writes))
  BY <1>3, <1>4 DEF UserCallback, Handler, Handlers, Known
<1>6. writeId_' = 0 /\ ready' = Append(Tail(ready), e)
  BY <1>1, <1>2, Zenon DEF FinishWrite
<1> HIDE DEF e
<1>7. Queue(1, <<e>>) /\ <<e>> \in Seq(Known(Len(writes)))
  <2>1. Tail(ready) \in Seq(LoopKnown(Len(writes), Len(reads)))
        /\ e \in LoopKnown(Len(writes), Len(reads)) /\ Len(ready) >= 1
    BY <1>2, <1>3, <1>5 DEF LoopKnown
  <2>2. Append(Tail(ready), e) = Tail(ready) \o <<e>>
    BY <2>1
  <2> QED
    BY <1>3, <1>5, <1>6, <2>1, <2>2 DEF Queue
<1>8. Progress' /\ Executing'
  <2>1. pc'[Worker] = "loop" /\ ~Busy'
    BY <1>1, <1>6, WorkerMoves DEF WorkerStates, Busy
  <2> QED
    BY <2>1 DEF Progress, Executing, InHandler
<1>9. UNCHANGED <<transport, link, buffer_, wire, requestedSize_, mine, writes, timer_,
                  dumping, dumps>>
  BY <1>1 DEF device, lifecycle, dump
<1>10. processed_' \in Nat /\ (1 = 1 => Head(ready).what \in {"continue", "timeout", "callback"})
  BY <1>1, <1>2, <1>3
<1> QED
  BY <1>1, <1>7, <1>8, <1>9, <1>10, HandlerStep

(* Every step of the writer keeps the invariant and feeds the reader. *)
LEMMA WriterStep == ASSUME NoWrap, ~SlowCaller, LoopInv, WriterSteps
                    PROVE  LoopInv' /\ Feeds
<1>1. UNCHANGED reading
  BY DEF WriterSteps
<1>2. WriterKept
  <2>1. ASSUME NEW t \in Threads, NewWrite(t) \/ Refused(t) \/ Issue(t) PROVE WriterKept
    BY <1>1, <2>1, NewWriteStep, CallerSteps, IssueStep
  <2>2. CASE DropHandler \/ WriteCallback \/ EnterCallback
    BY <1>1, <2>2, TakenHandler
  <2>3. CASE EnterHandler \/ TimeoutNotifies \/ LeaveCallback
    BY <1>1, <2>3, WorkerIdles
  <2>4. CASE Continue \/ FinishHandler
    BY <1>1, <2>4, ContinueStep, FinishStep
  <2>5. CASE WorkerSteps
    BY <2>2, <2>3, <2>4, <2>5 DEF WorkerSteps
  <2>6. ASSUME NEW c \in Callers, SyncSteps(c) \/ SpuriousWake(c) PROVE WriterKept
    BY <1>1, <2>6, CallerSteps
  <2>7. CASE TimerExpires
    BY <1>1, <2>7, TimerStep
  <2> QED
    BY <2>1, <2>5, <2>6, <2>7, Zenon DEF WriterSteps
<1>3. OutcomeInv'
  BY OutcomeStep
<1> QED
  BY <1>2, <1>3 DEF WriterKept, LoopInv, WriterInv

-----------------------------------------------------------------------------
(* Pieces of a sequence.  What is taken comes before what is left; a byte      *)
(* between them may be lost.                                                 *)
Splits(s, taken, left) ==
    \E i \in 0..Len(s), j \in Nat :
        i < j /\ taken = SubSeq(s, 1, i) /\ left = SubSeq(s, j, Len(s))

LEMMA SubSeqFacts ==
    ASSUME NEW S, NEW s \in Seq(S), NEW m \in Nat, m > 0, NEW n \in 0..Len(s)
    PROVE  /\ SubSeq(s, m, n) \in Seq(S)
           /\ Len(SubSeq(s, m, n)) = IF m <= n THEN n - m + 1 ELSE 0
           /\ \A i \in 1..Len(SubSeq(s, m, n)) :
                 i + m - 1 \in m..n /\ SubSeq(s, m, n)[i] = s[i + m - 1]
  OBVIOUS

LEMMA SplitParts ==
    ASSUME NEW S, NEW s \in Seq(S), NEW taken, NEW left, Splits(s, taken, left)
    PROVE  /\ taken \in Seq(S) /\ left \in Seq(S)
           /\ Len(taken) <= Len(s) /\ Len(left) <= Len(s)
           /\ Content(taken) \subseteq Content(s) /\ Content(left) \subseteq Content(s)
           /\ Ascending(s) => /\ Ascending(taken) /\ Ascending(left)
                              /\ Follow(Content(taken), Content(left))
<1>1. PICK i \in 0..Len(s), j \in Nat :
         i < j /\ taken = SubSeq(s, 1, i) /\ left = SubSeq(s, j, Len(s))
  BY DEF Splits
<1>2. Len(s) \in Nat /\ i \in Nat /\ j > 0 /\ Len(s) \in 0..Len(s)
  BY <1>1
<1>3. /\ taken \in Seq(S) /\ Len(taken) = i
      /\ \A k \in 1..i : k \in 1..Len(s) /\ taken[k] = s[k]
  BY <1>1, <1>2, SubSeqFacts
<1>4. /\ left \in Seq(S)
      /\ Len(left) = IF j <= Len(s) THEN Len(s) - j + 1 ELSE 0
      /\ \A k \in 1..Len(left) : k + j - 1 \in j..Len(s) /\ left[k] = s[k + j - 1]
  BY <1>1, <1>2, SubSeqFacts
<1>5. Len(taken) <= Len(s) /\ Len(left) <= Len(s)
  BY <1>1, <1>2, <1>3, <1>4
<1>6. Content(taken) \subseteq Content(s) /\ Content(left) \subseteq Content(s)
  <2>1. \A k \in 1..Len(left) : k + j - 1 \in 1..Len(s)
    BY <1>2, <1>4
  <2> QED
    BY <1>3, <1>4, <2>1 DEF Content
<1>7. ASSUME Ascending(s)
      PROVE  Ascending(taken) /\ Ascending(left) /\ Follow(Content(taken), Content(left))
  <2>1. Ascending(taken)
    BY <1>3, <1>7 DEF Ascending
  <2>2. Ascending(left)
    <3> SUFFICES ASSUME NEW k \in 1..Len(left), NEW l \in 1..Len(left), k < l
                 PROVE  Before(left[k], left[l])
      BY DEF Ascending
    <3>1. k + j - 1 \in 1..Len(s) /\ l + j - 1 \in 1..Len(s) /\ k + j - 1 < l + j - 1
      BY <1>2, <1>4
    <3> QED
      BY <1>4, <1>7, <3>1 DEF Ascending
  <2>3. ASSUME NEW k \in 1..Len(taken), NEW l \in 1..Len(left) PROVE Before(taken[k], left[l])
    <3>1. k \in 1..Len(s) /\ l + j - 1 \in 1..Len(s) /\ k < l + j - 1
      BY <1>1, <1>2, <1>3, <1>4
    <3> QED
      BY <1>3, <1>4, <1>7, <3>1 DEF Ascending
  <2> QED
    BY <2>1, <2>2, <2>3 DEF Follow, Content
<1> QED
  BY <1>3, <1>4, <1>5, <1>6, <1>7

(* A line of bytes whose queue loses its first handler or gains others: each   *)
(* handler of it is an old one, k places further on, or one of the new ones,   *)
(* at most one, whose bytes are taken from X and come before all that is left. *)
Shifted(k, n, q, p, new, S, N, R) ==
    /\ k \in {0, 1} /\ n \in Nat /\ S \subseteq 1..n
    /\ \A i \in N \cup R : i \in Nat /\ i > 0
    /\ \A i \in R : \/ i + k \in S /\ p[i] = q[i + k]
                    \/ i + k - n \in N /\ p[i] = new[i + k - n]

Brings(new, N, X, Y) ==
    /\ Y \subseteq X
    /\ \A i, j \in N : i = j
    /\ \A i \in N : /\ Ascending(new[i].bytes)
                    /\ Content(new[i].bytes) \subseteq X
                    /\ Follow(Content(new[i].bytes), Y)

HandsOver(k, q, S, h, g) ==
    \/ g = h
    \/ /\ k = 1 /\ 1 \in S /\ g = h \o q[1].bytes
       /\ h \in Seq(ByteNames) /\ q[1].bytes \in Seq(ByteNames)

LEMMA LineMoves ==
    ASSUME NEW k, NEW n, NEW q, NEW p, NEW new, NEW S, NEW N, NEW R, NEW h, NEW g,
           NEW X, NEW Y, NEW W, Shifted(k, n, q, p, new, S, N, R), Brings(new, N, X, Y),
           HandsOver(k, q, S, h, g), Line(h, q, S, X), Inside(h, q, S, X, W)
    PROVE  Line(g, p, R, Y) /\ Inside(g, p, R, Y, W)
<1>0. /\ k \in {0, 1} /\ n \in Nat /\ S \subseteq 1..n
      /\ \A i \in N \cup R : i \in Nat /\ i > 0
      /\ \A i \in R : \/ i + k \in S /\ p[i] = q[i + k]
                      \/ i + k - n \in N /\ p[i] = new[i + k - n]
      /\ Y \subseteq X
      /\ \A i, j \in N : i = j
      /\ \A i \in N : /\ Ascending(new[i].bytes)
                      /\ Content(new[i].bytes) \subseteq X
                      /\ Follow(Content(new[i].bytes), Y)
  BY DEF Shifted, Brings
<1>1. /\ Ascending(h)
      /\ \A i \in S : /\ Ascending(q[i].bytes)
                      /\ Follow(Content(h), Content(q[i].bytes))
                      /\ Follow(Content(q[i].bytes), X)
                      /\ Content(q[i].bytes) \subseteq W
      /\ \A i, j \in S : i < j => Follow(Content(q[i].bytes), Content(q[j].bytes))
      /\ Follow(Content(h), X) /\ Content(h) \subseteq W /\ X \subseteq W
  BY DEF Line, Inside
<1>2. /\ Ascending(g) /\ Content(g) \subseteq W /\ Follow(Content(g), X)
      /\ \A i \in S : i > k => Follow(Content(g), Content(q[i].bytes))
  <2>1. CASE g = h
    BY <1>1, <2>1
  <2>2. CASE /\ k = 1 /\ 1 \in S /\ g = h \o q[1].bytes
             /\ h \in Seq(ByteNames) /\ q[1].bytes \in Seq(ByteNames)
    <3>1. Content(g) = Content(h) \cup Content(q[1].bytes)
      BY <2>2, ContentConcat
    <3>2. Ascending(g)
      BY <1>1, <2>2, AscendingConcat
    <3>3. \A i \in S : i > k => Follow(Content(q[1].bytes), Content(q[i].bytes))
      BY <1>0, <1>1, <2>2
    <3> QED
      BY <1>1, <2>2, <3>1, <3>2, <3>3 DEF Follow
  <2> QED
    BY <2>1, <2>2 DEF HandsOver
<1>3. k \in Nat /\ \A i \in R : i \in Nat /\ i > 0 /\ i + k > k
  BY ONLY <1>0
<1>4. ASSUME NEW i \in R
      PROVE  /\ Ascending(p[i].bytes) /\ Content(p[i].bytes) \subseteq W
             /\ Follow(Content(g), Content(p[i].bytes)) /\ Follow(Content(p[i].bytes), Y)
  <2>1. CASE i + k \in S /\ p[i] = q[i + k]
    BY <1>0, <1>1, <1>2, <1>3, <2>1 DEF Follow
  <2>2. CASE i + k - n \in N /\ p[i] = new[i + k - n]
    BY <1>0, <1>1, <1>2, <2>2 DEF Follow
  <2> QED
    BY <1>0, <2>1, <2>2
<1>5. ASSUME NEW i \in R, NEW j \in R, i < j
      PROVE  Follow(Content(p[i].bytes), Content(p[j].bytes))
  <2>1. CASE i + k \in S /\ p[i] = q[i + k] /\ j + k \in S /\ p[j] = q[j + k]
    <3>1. i + k < j + k
      BY ONLY <1>5, <1>3
    <3> QED
      BY <1>1, <2>1, <3>1
  <2>2. CASE i + k \in S /\ p[i] = q[i + k] /\ j + k - n \in N /\ p[j] = new[j + k - n]
    BY <1>0, <1>1, <2>2 DEF Follow
  <2>3. CASE i + k - n \in N /\ j + k \in S
    <3>1. i + k - n >= 1 /\ j + k <= n
      BY ONLY <1>0, <2>3
    <3> QED
      BY ONLY <1>5, <1>3, <3>1, <1>0
  <2>4. CASE i + k - n \in N /\ j + k - n \in N
    <3>1. i + k - n = j + k - n
      BY <1>0, <2>4
    <3> QED
      BY ONLY <1>5, <1>3, <3>1, <1>0
  <2> QED
    BY <1>0, <2>1, <2>2, <2>3, <2>4
<1> QED
  BY <1>0, <1>1, <1>2, <1>4, <1>5 DEF Line, Inside, Follow

(* Bytes that follow all that was written join the end of a line. *)
LEMMA LineGains ==
    ASSUME NEW h, NEW q, NEW S, NEW X, NEW W, NEW Y, Line(h, q, S, X), Inside(h, q, S, X, W),
           Follow(W, Y)
    PROVE  Line(h, q, S, X \cup Y) /\ Inside(h, q, S, X \cup Y, W \cup Y)
  BY DEF Line, Inside, Follow

-----------------------------------------------------------------------------
(* The steps of the reader keep what the writer relies on. *)

Aside == UNCHANGED <<transport, link, wire, request, processed_, timer_, posted>>

(* The worker takes a handler of the reader from its loop only. *)
Moves(k) ==
    \/ k = 0 /\ UNCHANGED pc
    \/ /\ k = 1 /\ pc[Worker] = "loop"
       /\ UNCHANGED pc \/ Goto(Worker, "callback")

LEMMA ReaderKeeps ==
    ASSUME LoopInv, Aside, NEW k, Moves(k), NEW new \in Seq(ReadKnown(Len(reads'))), Queue(k, new),
           Len(reads) <= Len(reads'), ReaderTypesOK',
           buffer_' \in Seq(ByteNames), Len(buffer_') <= Capacity,
           dumping' \in BOOLEAN, dumps' \in Nat
    PROVE  LoopInv'
<1>1. /\ Len(writes) \in Nat /\ Len(reads) \in Nat /\ Len(reads') \in Nat
      /\ UNCHANGED <<writes, writeId_, mine, requestedSize_>>
  BY LengthTypes DEF Aside, request, ReaderTypesOK
<1>2. /\ pc' \in [Threads -> CallerStates \cup WorkerStates]
      /\ \A t \in Threads : pc'[t] = "issue" => pc[t] = "issue"
      /\ pc'[Worker] # "end" => pc[Worker] # "end"
      /\ k = 1 => ~InHandler'
  <2>1. CASE UNCHANGED pc
    <3>1. k = 1 => pc'[Worker] = "loop"
      BY <2>1 DEF Moves
    <3> QED
      BY <2>1, <3>1 DEF LoopInv, LoopTypes, WriterTypesOK, InHandler
  <2>2. CASE k = 1 /\ Goto(Worker, "callback") /\ pc[Worker] = "loop"
    BY <2>2, WorkerMoves DEF WorkerStates, InHandler
  <2> QED
    BY <2>1, <2>2 DEF Moves
<1>3. \A n : new \in Seq(LoopKnown(n, Len(reads')))
  BY SeqGrowsIn DEF LoopKnown
<1>4. \A i \in 1..Len(new) : new[i].what # "continue"
  <2>1. \A i \in 1..Len(new) : new[i] \in ReadKnown(Len(reads'))
    BY LenType
  <2> QED
    BY <2>1 DEF ReadKnown, ReadHandlers
<1>5. LoopTypes'
  <2>1. WriterTypesOK'
    BY <1>1, <1>2 DEF LoopInv, LoopTypes, WriterTypesOK, Aside
  <2>2. ready' \in Seq(LoopKnown(Len(writes), Len(reads')))
    <3>1. /\ ready \in Seq(LoopKnown(Len(writes), Len(reads)))
          /\ LoopKnown(Len(writes), Len(reads)) \subseteq LoopKnown(Len(writes), Len(reads'))
      BY <1>1, LoopKnownGrows DEF LoopInv, LoopTypes
    <3> QED
      BY ONLY <1>3, <3>1, QueueShape, Queue(k, new)
  <2> QED
    BY <1>1, <2>1, <2>2 DEF LoopTypes
<1>6. OutcomeInv'
  BY SameOutcome DEF LoopInv, WriterInv, Aside
<1>7. ToIssue' /\ Progress' /\ Written'
  BY <1>1, <1>2, <1>3, <1>4, KeptToIssue, KeptProgress, KeptWritten DEF Aside
<1>8. Executing'
  <2>1. CASE k = 0
    BY <1>1, <2>1, KeptExecuting DEF Moves
  <2>2. CASE k = 1
    BY <1>2, <2>2 DEF Executing
  <2> QED
    BY <2>1, <2>2 DEF Moves
<1> QED
  BY <1>5, <1>6, <1>7, <1>8 DEF LoopInv, WriterInv

(* The answer that do_read_some has for the reader: bytes held in readBuffer_, *)
(* or, if there are none, of the memory.                                     *)
Given(held, taken, tapped) ==
    \/ /\ held # <<>> /\ tapped = FALSE
       /\ Splits(held, taken, readBuffer_')
       /\ buffer_' = buffer_
    \/ /\ held = <<>> /\ tapped = dumping
       /\ Splits(buffer_, taken, buffer_')
       /\ readBuffer_' = <<>>

LEMMA GivenTypes ==
    ASSUME LoopInv, NEW held \in Seq(ByteNames), NEW taken, NEW tapped, Given(held, taken, tapped)
    PROVE  /\ taken \in Seq(ByteNames) /\ tapped \in BOOLEAN
           /\ readBuffer_' \in Seq(ByteNames)
           /\ buffer_' \in Seq(ByteNames) /\ Len(buffer_') <= Capacity
           /\ held = <<>> => readBuffer_' = <<>>
<1>1. buffer_ \in Seq(ByteNames) /\ Len(buffer_) <= Capacity /\ dumping \in BOOLEAN
  BY DEF LoopInv, LoopTypes, WriterTypesOK
<1>2. CASE Splits(held, taken, readBuffer_') /\ held # <<>> /\ tapped = FALSE /\ buffer_' = buffer_
  BY <1>1, <1>2, SplitParts
<1>3. CASE /\ Splits(buffer_, taken, buffer_') /\ tapped = dumping /\ readBuffer_' = <<>>
  <2>1. taken \in Seq(ByteNames) /\ buffer_' \in Seq(ByteNames) /\ Len(buffer_') <= Len(buffer_)
    BY <1>1, <1>3, SplitParts
  <2>2. Len(buffer_) \in Nat /\ Len(buffer_') \in Nat /\ Capacity \in Nat
    BY <1>1, <2>1, DevicesAssumption
  <2> QED
    BY <1>1, <1>3, <2>1, <2>2
<1> QED
  BY <1>2, <1>3 DEF Given

LEMMA ReadSomeGives ==
    ASSUME LoopInv, NEW held \in Seq(ByteNames), NEW n \in Nat, NEW id, NEW queue,
           DoReadSome(n, id, queue, held)
    PROVE  \E taken, tapped :
              /\ Given(held, taken, tapped)
              /\ ready' = Append(queue, ReadHandler("read_continue", id, taken, tapped))
<1> DEFINE least(s) == IF n < Len(s) THEN n ELSE Len(s)
<1>1. buffer_ \in Seq(ByteNames)
  BY DEF LoopInv, LoopTypes, WriterTypesOK
<1>2. \A s \in Seq(ByteNames), m \in {1, 2} :
         Splits(s, SubSeq(s, 1, least(s)), SubSeq(s, least(s) + m, Len(s)))
  <2> SUFFICES ASSUME NEW s \in Seq(ByteNames), NEW m \in {1, 2}
               PROVE  Splits(s, SubSeq(s, 1, least(s)), SubSeq(s, least(s) + m, Len(s)))
    OBVIOUS
  <2>1. least(s) \in 0..Len(s) /\ least(s) + m \in Nat /\ least(s) < least(s) + m
    OBVIOUS
  <2> QED
    BY <2>1 DEF Splits
<1>3. CASE held # <<>>
  <2>1. /\ ready' = Append(queue, ReadHandler("read_continue", id, SubSeq(held, 1, least(held)),
                                              FALSE))
        /\ readBuffer_' = SubSeq(held, least(held) + 2, Len(held))
        /\ buffer_' = buffer_
    BY <1>3 DEF DoReadSome
  <2>2. Given(held, SubSeq(held, 1, least(held)), FALSE)
    BY <1>2, <1>3, <2>1 DEF Given
  <2> QED
    BY <2>1, <2>2
<1>4. CASE held = <<>>
  <2>1. /\ ready' = Append(queue, ReadHandler("read_continue", id,
                                              SubSeq(buffer_, 1, least(buffer_)), dumping))
        /\ buffer_' = SubSeq(buffer_, least(buffer_) + 1, Len(buffer_))
        /\ readBuffer_' = <<>>
    BY <1>4 DEF DoReadSome, StringRead
  <2>2. Given(held, SubSeq(buffer_, 1, least(buffer_)), dumping)
    BY <1>1, <1>2, <1>4, <2>1 DEF Given
  <2> QED
    BY <2>1, <2>2
<1> QED
  BY <1>3, <1>4

-----------------------------------------------------------------------------
(* What a call or a handler that serves a read does: it accepts the read or     *)
(* takes a handler of it, has bytes at hand, d for the buffer of the read and   *)
(* r for readBuffer_, and then asks for more or ends the read.               *)

Accepts(k) ==
    \/ /\ k = 0 /\ readId_ = 0
       /\ \E read \in Requests : reads' = Append(reads, read) /\ Len(reads) < MaxReads
    \/ /\ k = 1 /\ ready # <<>> /\ Head(ready).id = readId_ /\ readId_ # 0
       /\ reads' = reads

RxTaps(k) ==
    IF k = 1 /\ Head(ready).what = "read_continue"
    THEN RxDumpCallback(Head(ready))
    ELSE rxDumped' = rxDumped

Serves(k) ==
    /\ Aside
    /\ UNCHANGED <<dumping, dumps, pc, handed>>
    /\ k = 1 => pc[Worker] = "loop"
    /\ Accepts(k)
    /\ RxTaps(k)
    /\ \/ readTimer_' = readTimer_
       \/ /\ k = 0 /\ readTimer_' = <<ReadHandler("read_timeout", Len(reads'), <<>>, FALSE)>>
          /\ reads'[Len(reads')].timed

AtHand(k, d, r) ==
    \/ k = 0 /\ Splits(readBuffer_, d, r)
    \/ /\ k = 1 /\ Head(ready).what = "read_continue"
       /\ \/ d \in {Head(ready).bytes, dst_ \o Head(ready).bytes} /\ r = readBuffer_
          \/ /\ reads[readId_].kind = "until"
             /\ \E taken, left :
                   /\ Splits(Head(ready).bytes, taken, left)
                   /\ d = dst_ \o taken /\ r = readBuffer_ \o left
    \/ k = 1 /\ Head(ready).what = "read_timeout" /\ d = dst_ /\ r = readBuffer_

Asks(k, timers, d, r, taken, tapped) ==
    /\ Queue(k, timers \o <<ReadHandler("read_continue", Len(reads'), taken, tapped)>>)
    /\ readId_' = Len(reads') /\ dst_' = d
    /\ Given(r, taken, tapped)
    /\ reads'[Len(reads')].kind = "until" /\ (k = 0 \/ readBuffer_ = <<>>) => r = <<>>
    /\ k = 1 => Head(ready).what = "read_continue"

Finishes(k, timers, d, r) ==
    /\ Queue(k, timers \o <<ReadHandler("read_callback", Len(reads'), d, FALSE)>>)
    /\ readId_' = 0 /\ dst_' = <<>>
    /\ readBuffer_' = r /\ buffer_' = buffer_

(* Timers and then one handler join the queue. *)
LEMMA QueueAppends ==
    ASSUME NEW S, ready \in Seq(S), NEW timers \in Seq(S), NEW e \in S
    PROVE  /\ timers \o <<e>> \in Seq(S) /\ Len(timers \o <<e>>) = Len(timers) + 1
           /\ ready' = Append(ready \o timers, e) => Queue(0, timers \o <<e>>)
           /\ ready # <<>> /\ ready' = Append(Tail(ready), e) => Queue(1, <<>> \o <<e>>)
<1>1. /\ timers \o <<e>> \in Seq(S) /\ Len(timers \o <<e>>) = Len(timers) + 1
      /\ Len(ready) \in Nat /\ Len(timers) \in Nat
  OBVIOUS
<1>2. Append(ready \o timers, e) = ready \o (timers \o <<e>>)
  <2> DEFINE left  == Append(ready \o timers, e)
             right == ready \o (timers \o <<e>>)
  <2>1. /\ left \in Seq(S) /\ right \in Seq(S)
        /\ Len(left) = Len(ready) + Len(timers) + 1
        /\ Len(right) = Len(ready) + Len(timers) + 1
    BY <1>1
  <2>2. \A i \in 1..(Len(ready) + Len(timers) + 1) : left[i] = right[i]
    BY <1>1
  <2> HIDE DEF left, right
  <2>3. left = right
    BY <2>1, <2>2
  <2> QED
    BY <2>3 DEF left, right
<1>3. ready # <<>> => /\ Append(Tail(ready), e) = Tail(ready) \o <<e>>
                      /\ <<>> \o <<e>> = <<e>> /\ Len(ready) >= 1
  OBVIOUS
<1>4. ready' = Append(ready \o timers, e) => Queue(0, timers \o <<e>>)
  BY <1>1, <1>2 DEF Queue
<1>5. ready # <<>> /\ ready' = Append(Tail(ready), e) => Queue(1, <<>> \o <<e>>)
  BY <1>1, <1>3 DEF Queue
<1> QED
  BY <1>1, <1>4, <1>5, Zenon

LEMMA ReadHandlerType ==
    ASSUME NEW what \in {"read_continue", "read_callback", "read_timeout"}, NEW m \in Nat, m > 0,
           NEW bytes \in Seq(ByteNames), NEW tapped \in BOOLEAN
    PROVE  /\ ReadHandler(what, m, bytes, tapped) \in ReadKnown(m)
           /\ ReadHandler(what, m, bytes, tapped).what = what
           /\ ReadHandler(what, m, bytes, tapped).id = m
           /\ ReadHandler(what, m, bytes, tapped).bytes = bytes
           /\ ReadHandler(what, m, bytes, tapped).dump = tapped
  BY DEF ReadHandler, ReadKnown, ReadHandlers

LEMMA TimersType ==
    ASSUME LoopInv, Len(reads') \in Nat, Len(reads) <= Len(reads')
    PROVE  /\ \A timers \in {<<>>, readTimer_} :
                 /\ timers \in Seq(ReadTimeouts(Len(reads')))
                 /\ timers \in Seq(LoopKnown(Len(writes), Len(reads')))
           /\ ready \in Seq(LoopKnown(Len(writes), Len(reads')))
           /\ ReadKnown(Len(reads')) \subseteq LoopKnown(Len(writes), Len(reads'))
           /\ ReadTimeouts(Len(reads')) \subseteq LoopKnown(Len(writes), Len(reads'))
<1>1. /\ readTimer_ \in Seq(ReadTimeouts(Len(reads))) /\ Len(writes) \in Nat /\ Len(reads) \in Nat
      /\ ready \in Seq(LoopKnown(Len(writes), Len(reads)))
  BY LengthTypes DEF LoopInv, LoopTypes, ReaderTypesOK
<1>2. /\ LoopKnown(Len(writes), Len(reads)) \subseteq LoopKnown(Len(writes), Len(reads'))
      /\ ReadTimeouts(Len(reads)) \subseteq ReadTimeouts(Len(reads'))
      /\ ReadTimeouts(Len(reads')) \subseteq LoopKnown(Len(writes), Len(reads'))
      /\ ReadKnown(Len(reads')) \subseteq LoopKnown(Len(writes), Len(reads'))
  BY <1>1, LoopKnownGrows DEF ReadTimeouts, ReadKnown, LoopKnown
<1>3. /\ readTimer_ \in Seq(ReadTimeouts(Len(reads')))
      /\ ready \in Seq(LoopKnown(Len(writes), Len(reads')))
  BY <1>1, <1>2, SeqGrowsIn
<1>4. \A timers \in {<<>>, readTimer_} : timers \in Seq(ReadTimeouts(Len(reads')))
  <2>1. <<>> \in Seq(ReadTimeouts(Len(reads')))
    OBVIOUS
  <2> QED
    BY <1>3, <2>1
<1> QED
  BY <1>2, <1>3, <1>4, SeqGrowsIn

LEMMA QueueJoins ==
    ASSUME LoopInv, NEW k \in {0, 1}, NEW timers \in {<<>>, readTimer_},
           k = 1 => ready # <<>> /\ timers = <<>>,
           Len(reads') \in Nat, Len(reads) <= Len(reads'), NEW e \in ReadKnown(Len(reads')),
           ready' = Append(IF k = 0 THEN ready \o timers ELSE Tail(ready), e)
    PROVE  Queue(k, timers \o <<e>>)
<1> DEFINE T == LoopKnown(Len(writes), Len(reads'))
<1>1. ready \in Seq(T) /\ timers \in Seq(T) /\ e \in T
  BY TimersType
<1> HIDE DEF T
<1>2. /\ ready' = Append(ready \o timers, e) => Queue(0, timers \o <<e>>)
      /\ ready # <<>> /\ ready' = Append(Tail(ready), e) => Queue(1, <<>> \o <<e>>)
  BY ONLY <1>1, QueueAppends
<1>3. CASE k = 0
  BY ONLY <1>2, <1>3, ready' = Append(IF k = 0 THEN ready \o timers ELSE Tail(ready), e)
<1>4. CASE k = 1
  BY <1>2, <1>4
<1> QED
  BY <1>3, <1>4

(* Going on asks; finish_read ends. *)
LEMMA AsksMore ==
    ASSUME LoopInv, NEW k \in {0, 1}, NEW timers \in {<<>>, readTimer_}, k = 1 => ready # <<>> /\ timers = <<>>,
           Len(reads') \in Nat, Len(reads') > 0, Len(reads) <= Len(reads'),
           NEW d, NEW r \in Seq(ByteNames), NEW n \in Nat,
           GoOnReading(Len(reads'), d, n, IF k = 0 THEN ready \o timers ELSE Tail(ready), r),
           reads'[Len(reads')].kind = "until" /\ (k = 0 \/ readBuffer_ = <<>>) => r = <<>>,
           k = 1 => Head(ready).what = "read_continue"
    PROVE  \E taken, tapped : Asks(k, timers, d, r, taken, tapped)
<1> DEFINE queue == IF k = 0 THEN ready \o timers ELSE Tail(ready)
<1>1. PICK taken, tapped :
         /\ Given(r, taken, tapped)
         /\ ready' = Append(queue, ReadHandler("read_continue", Len(reads'), taken, tapped))
  <2>1. DoReadSome(n, Len(reads'), queue, r)
    BY DEF GoOnReading
  <2> HIDE DEF queue
  <2> QED
    BY <2>1, ReadSomeGives
<1>2. ReadHandler("read_continue", Len(reads'), taken, tapped) \in ReadKnown(Len(reads'))
  BY <1>1, GivenTypes, ReadHandlerType
<1>3. Queue(k, timers \o <<ReadHandler("read_continue", Len(reads'), taken, tapped)>>)
  BY <1>1, <1>2, QueueJoins
<1>4. readId_' = Len(reads') /\ dst_' = d
  BY DEF GoOnReading
<1>5. Asks(k, timers, d, r, taken, tapped)
  BY <1>1, <1>3, <1>4 DEF Asks
<1> QED
  BY <1>5

LEMMA EndsRead ==
    ASSUME LoopInv, NEW k \in {0, 1}, NEW timers \in {<<>>, readTimer_}, k = 1 => ready # <<>> /\ timers = <<>>,
           Len(reads') \in Nat, Len(reads') > 0, Len(reads) <= Len(reads'),
           NEW d \in Seq(ByteNames), NEW r,
           FinishRead(Len(reads'), d, IF k = 0 THEN ready \o timers ELSE Tail(ready)),
           readBuffer_' = r, buffer_' = buffer_
    PROVE  Finishes(k, timers, d, r)
<1>1. ReadHandler("read_callback", Len(reads'), d, FALSE) \in ReadKnown(Len(reads'))
  BY ReadHandlerType
<1>2. Queue(k, timers \o <<ReadHandler("read_callback", Len(reads'), d, FALSE)>>)
  <2>1. ready' = Append(IF k = 0 THEN ready \o timers ELSE Tail(ready),
                        ReadHandler("read_callback", Len(reads'), d, FALSE))
    BY DEF FinishRead
  <2> QED
    BY <1>1, <2>1, QueueJoins
<1> QED
  BY <1>2 DEF Finishes, FinishRead

(* A read is served. *)
ReadServed(k) ==
    /\ Serves(k)
    /\ \E timers, d, r :
          /\ timers \in {<<>>, readTimer_} /\ (k = 1 => timers = <<>>)
          /\ AtHand(k, d, r)
          /\ \/ Finishes(k, timers, d, r)
             \/ \E taken, tapped : Asks(k, timers, d, r, taken, tapped)

LEMMA SplitEnds ==
    ASSUME NEW S, NEW s \in Seq(S)
    PROVE  /\ Splits(s, <<>>, s) /\ Splits(s, s, <<>>)
           /\ \A i \in 0..Len(s) : Splits(s, Upto(i, s), After(i, s))
<1>1. /\ Len(s) \in Nat /\ 0 \in 0..Len(s) /\ Len(s) \in 0..Len(s)
      /\ SubSeq(s, 1, 0) = <<>> /\ SubSeq(s, 1, Len(s)) = s /\ SubSeq(s, Len(s) + 1, Len(s)) = <<>>
  OBVIOUS
<1>2. \A i \in 0..Len(s) : i + 1 \in Nat /\ i < i + 1
  BY <1>1
<1>3. \A i \in 0..Len(s) : Splits(s, SubSeq(s, 1, i), SubSeq(s, i + 1, Len(s)))
  BY <1>1, <1>2 DEF Splits
<1>4. Splits(s, <<>>, s)
  <2>1. Splits(s, SubSeq(s, 1, 0), SubSeq(s, 0 + 1, Len(s))) /\ 0 + 1 = 1
    BY <1>1, <1>3
  <2> QED
    BY <1>1, <2>1
<1>5. Splits(s, s, <<>>)
  BY <1>1, <1>3
<1> QED
  BY <1>3, <1>4, <1>5 DEF Upto, After

LEMMA RequestTypesOf ==
    ASSUME NEW read \in Requests
    PROVE  /\ read.kind \in {"some", "all", "until"} /\ read.size \in Nat /\ read.size > 0
           /\ read.timed \in BOOLEAN
  BY LoopAssumption

LEMMA NewReadServes ==
    ASSUME LoopInv, NEW t \in Threads, NewRead(t)
    PROVE  ReadServed(0)
<1> DEFINE id == Len(reads) + 1
<1>1. PICK read \in Requests :
         /\ ~ReaderBusy /\ id <= MaxReads
         /\ reads' = Append(reads, read)
         /\ IF read.timed THEN ArmRead(id) ELSE UNCHANGED readTimer_
         /\ LET queue == IF read.timed THEN ready \o readTimer_ ELSE ready
            IN  \/ read.kind # "until" /\ GoOnReading(id, <<>>, read.size, queue, readBuffer_)
                \/ read.kind = "until" /\ StartUntil(id, read.size, queue)
         /\ UNCHANGED <<writing, dump, pc, rxDumped, handed>>
  BY Zenon DEF NewRead
<1> DEFINE timers == IF read.timed THEN readTimer_ ELSE <<>>
           queue  == ready \o timers
<1>2. /\ Len(reads) \in Nat /\ MaxReads \in Nat /\ Len(reads') = id /\ reads'[Len(reads')] = read
      /\ readBuffer_ \in Seq(ByteNames)
      /\ read.size \in Nat /\ read.kind \in {"some", "all", "until"} /\ read.timed \in BOOLEAN
      /\ reads \in Seq(Requests)
  BY <1>1, LengthTypes, RequestTypesOf, LoopAssumption DEF LoopInv, LoopTypes, ReaderTypesOK
<1>3. /\ timers \in {<<>>, readTimer_}
      /\ queue = IF read.timed THEN ready \o readTimer_ ELSE ready
  <2>1. ready \o <<>> = ready
    BY DEF LoopInv, LoopTypes
  <2> QED
    BY <1>2, <2>1
<1>4. Serves(0)
  <2>1. Aside /\ UNCHANGED <<dumping, dumps, pc, handed, rxDumped>>
    BY <1>1 DEF Aside, writing, dump, lifecycle
  <2>2. Accepts(0)
    BY <1>1, <1>2 DEF Accepts, ReaderBusy
  <2>3. \/ readTimer_' = readTimer_
        \/ /\ readTimer_' = <<ReadHandler("read_timeout", Len(reads'), <<>>, FALSE)>>
           /\ reads'[Len(reads')].timed
    BY <1>1, <1>2 DEF ArmRead
  <2>4. RxTaps(0)
    BY <2>1 DEF RxTaps
  <2>5. UNCHANGED <<dumping, dumps, pc, handed>>
    BY <2>1
  <2>6. 0 = 0 /\ (0 = 1 => pc[Worker] = "loop")
    OBVIOUS
  <2> QED
    BY <2>1, <2>2, <2>3, <2>4, <2>5, <2>6, Zenon DEF Serves
<1>5. /\ \A bytes \in Seq(ByteNames), n \in Nat, r \in Seq(ByteNames) :
            GoOnReading(id, bytes, n, queue, r) /\ (read.kind = "until" => r = <<>>) =>
               \E taken, tapped : Asks(0, timers, bytes, r, taken, tapped)
      /\ \A bytes \in Seq(ByteNames), r \in Seq(ByteNames) :
            FinishRead(id, bytes, queue) /\ readBuffer_' = r /\ buffer_' = buffer_ =>
               Finishes(0, timers, bytes, r)
  <2>1. /\ Len(reads') \in Nat /\ Len(reads') > 0 /\ Len(reads) <= Len(reads')
        /\ queue = IF 0 = 0 THEN ready \o timers ELSE Tail(ready)
        /\ 0 \in {0, 1} /\ (0 = 1 => ready # <<>> /\ timers = <<>>)
        /\ (0 = 1 => Head(ready).what = "read_continue")
    BY <1>2
  <2> HIDE DEF queue, timers
  <2>2. ASSUME NEW bytes \in Seq(ByteNames), NEW n \in Nat, NEW r \in Seq(ByteNames),
               GoOnReading(id, bytes, n, queue, r), read.kind = "until" => r = <<>>
        PROVE  \E taken, tapped : Asks(0, timers, bytes, r, taken, tapped)
    BY <1>2, <1>3, <2>1, <2>2, AsksMore
  <2>3. ASSUME NEW bytes \in Seq(ByteNames), NEW r \in Seq(ByteNames),
               FinishRead(id, bytes, queue), readBuffer_' = r, buffer_' = buffer_
        PROVE  Finishes(0, timers, bytes, r)
    BY <1>2, <1>3, <2>1, <2>3, EndsRead
  <2> QED
    BY <2>2, <2>3
<1> HIDE DEF timers, queue
<1> SUFFICES \E d, r : /\ Splits(readBuffer_, d, r)
                       /\ \/ Finishes(0, timers, d, r)
                          \/ \E taken, tapped : Asks(0, timers, d, r, taken, tapped)
  <2>1. PICK d, r : /\ Splits(readBuffer_, d, r)
                    /\ \/ Finishes(0, timers, d, r)
                       \/ \E taken, tapped : Asks(0, timers, d, r, taken, tapped)
    OBVIOUS
  <2>2. AtHand(0, d, r) /\ (0 = 1 => timers = <<>>)
    BY <2>1 DEF AtHand
  <2> QED
    BY <1>3, <1>4, <2>1, <2>2, Zenon DEF ReadServed
<1>6. <<>> \in Seq(ByteNames)
  OBVIOUS
<1>7. CASE read.kind # "until" /\ GoOnReading(id, <<>>, read.size, queue, readBuffer_)
  <2>1. \E taken, tapped : Asks(0, timers, <<>>, readBuffer_, taken, tapped)
    BY <1>2, <1>5, <1>6, <1>7
  <2>2. Splits(readBuffer_, <<>>, readBuffer_)
    BY <1>2, SplitEnds
  <2> QED
    BY <2>1, <2>2
<1>8. CASE read.kind = "until" /\ StartUntil(id, read.size, queue)
  <2>1. PICK stop \in 0..Len(readBuffer_) \cup {read.size} :
           \/ /\ stop <= Len(readBuffer_)
              /\ FinishRead(id, Upto(stop, readBuffer_), queue)
              /\ readBuffer_' = After(stop, readBuffer_)
              /\ buffer_' = buffer_
           \/ GoOnReading(id, readBuffer_, read.size, queue, <<>>)
    BY <1>8 DEF StartUntil
  <2>2. CASE /\ stop <= Len(readBuffer_)
             /\ FinishRead(id, Upto(stop, readBuffer_), queue)
             /\ readBuffer_' = After(stop, readBuffer_)
             /\ buffer_' = buffer_
    <3>1. stop \in 0..Len(readBuffer_)
      BY <1>2, <2>1, <2>2
    <3>2. Splits(readBuffer_, Upto(stop, readBuffer_), After(stop, readBuffer_))
      BY <1>2, <3>1, SplitEnds
    <3>3. Upto(stop, readBuffer_) \in Seq(ByteNames) /\ After(stop, readBuffer_) \in Seq(ByteNames)
      BY <1>2, <3>2, SplitParts
    <3> QED
      BY <1>5, <2>2, <3>2, <3>3
  <2>3. CASE GoOnReading(id, readBuffer_, read.size, queue, <<>>)
    <3>1. \E taken, tapped : Asks(0, timers, readBuffer_, <<>>, taken, tapped)
      BY <1>2, <1>5, <1>6, <2>3
    <3>2. Splits(readBuffer_, readBuffer_, <<>>)
      BY <1>2, SplitEnds
    <3> QED
      BY <3>1, <3>2
  <2> QED
    BY <2>1, <2>2, <2>3
<1> QED
  BY <1>1, <1>3, <1>7, <1>8

(* The worker takes a handler of the current read. *)
Takes1(what) ==
    /\ pc[Worker] = "loop" /\ ready # <<>>
    /\ Head(ready).what = what /\ Head(ready).id = readId_
    /\ UNCHANGED <<writing, dump, pc, reads, readTimer_, handed>>

LEMMA TakesCurrent ==
    ASSUME LoopInv, NEW what \in {"read_continue", "read_timeout"}, Takes1(what),
           \/ what = "read_continue" /\ RxDumpCallback(Head(ready))
           \/ what = "read_timeout" /\ rxDumped' = rxDumped
    PROVE  /\ Serves(1)
           /\ readId_ = Len(reads) /\ Len(reads) > 0 /\ Len(reads) \in Nat /\ reads' = reads
           /\ reads[readId_] \in Requests
           /\ Head(ready).bytes \in Seq(ByteNames)
           /\ dst_ \in Seq(ByteNames) /\ readBuffer_ \in Seq(ByteNames)
<1>1. /\ pc[Worker] = "loop" /\ ready # <<>> /\ Head(ready).what = what
      /\ Head(ready).id = readId_
      /\ UNCHANGED <<writing, dump, pc, reads, readTimer_, handed>>
  BY DEF Takes1
<1>2. /\ Head(ready) \in LoopKnown(Len(writes), Len(reads))
      /\ Len(writes) \in Nat /\ Len(reads) \in Nat /\ reads \in Seq(Requests)
  BY <1>1, HeadOf, LengthTypes
<1>3. Head(ready).id \in 1..Len(reads) /\ Head(ready).bytes \in Seq(ByteNames)
  BY <1>1, <1>2, LoopFields
<1>4. /\ readId_ \in {0, Len(reads)}
      /\ dst_ \in Seq(ByteNames) /\ readBuffer_ \in Seq(ByteNames)
  BY DEF LoopInv, LoopTypes, ReaderTypesOK
<1>5. readId_ = Len(reads) /\ Len(reads) > 0 /\ reads[readId_] \in Requests /\ readId_ # 0
  BY <1>1, <1>2, <1>3, <1>4
<1>6. Aside /\ UNCHANGED <<dumping, dumps, pc, handed, reads, readTimer_>>
  BY <1>1 DEF Aside, writing, dump, lifecycle
<1>7. RxTaps(1) /\ Accepts(1)
  BY <1>1, <1>5 DEF RxTaps, Accepts
<1>8. 1 = 1 => pc[Worker] = "loop"
  BY <1>1
<1>9. Serves(1)
  BY <1>6, <1>7, <1>8, Zenon DEF Serves
<1> QED
  BY <1>1, <1>2, <1>3, <1>4, <1>5, <1>9

(* What a handler of the current read brings about. *)
LEMMA HandlerServes ==
    ASSUME LoopInv, Serves(1), ready # <<>>, Len(reads) \in Nat, Len(reads) > 0, reads' = reads,
           readId_ = Len(reads),
           NEW d \in Seq(ByteNames), NEW r \in Seq(ByteNames), AtHand(1, d, r)
    PROVE  /\ FinishRead(readId_, d, Tail(ready)) /\ readBuffer_' = r /\ buffer_' = buffer_ =>
                ReadServed(1)
           /\ \A n \in Nat :
                 /\ GoOnReading(readId_, d, n, Tail(ready), r) /\ r = readBuffer_
                 /\ Head(ready).what = "read_continue"
                 => ReadServed(1)
<1>1. /\ Len(reads') \in Nat /\ Len(reads') > 0 /\ Len(reads) <= Len(reads')
      /\ readId_ = Len(reads')
      /\ Tail(ready) = IF 1 = 0 THEN ready \o <<>> ELSE Tail(ready)
      /\ 1 \in {0, 1} /\ <<>> \in {<<>>, readTimer_} /\ (1 = 1 => ready # <<>> /\ <<>> = <<>>)
  OBVIOUS
<1>2. Finishes(1, <<>>, d, r) \/ (\E taken, tapped : Asks(1, <<>>, d, r, taken, tapped)) =>
         ReadServed(1)
  BY <1>1, Zenon DEF ReadServed
<1>3. ASSUME FinishRead(readId_, d, Tail(ready)), readBuffer_' = r, buffer_' = buffer_
      PROVE  ReadServed(1)
  <2>1. Finishes(1, <<>>, d, r)
    BY <1>1, <1>3, EndsRead
  <2> QED
    BY <1>2, <2>1
<1>4. ASSUME NEW n \in Nat, GoOnReading(readId_, d, n, Tail(ready), r), r = readBuffer_,
             Head(ready).what = "read_continue"
      PROVE  ReadServed(1)
  <2>1. reads'[Len(reads')].kind = "until" /\ (1 = 0 \/ readBuffer_ = <<>>) => r = <<>>
    BY <1>4
  <2>2. \E taken, tapped : Asks(1, <<>>, d, r, taken, tapped)
    BY <1>1, <1>4, <2>1, AsksMore
  <2> QED
    BY <1>2, <2>2
<1> QED
  BY <1>3, <1>4

LEMMA ReadContinueServes ==
    ASSUME LoopInv, ReadContinue
    PROVE  ReadServed(1)
<1> DEFINE handler == Head(ready)
           bytes   == dst_ \o handler.bytes
           read    == reads[readId_]
<1>1. /\ Takes1("read_continue") /\ handler.what = "read_continue" /\ ready # <<>>
      /\ RxDumpCallback(handler)
      /\ \/ ContinueReadSome(handler, read)
         \/ ContinueReadAll(handler, read)
         \/ ContinueReadUntil(handler, read)
  BY Zenon DEF ReadContinue, NextHandler, Takes1
<1>2. /\ Serves(1)
      /\ readId_ = Len(reads) /\ Len(reads) > 0 /\ Len(reads) \in Nat /\ reads' = reads
      /\ read \in Requests
      /\ handler.bytes \in Seq(ByteNames)
      /\ dst_ \in Seq(ByteNames) /\ readBuffer_ \in Seq(ByteNames)
  BY <1>1, TakesCurrent
<1>3. bytes \in Seq(ByteNames) /\ Len(bytes) \in Nat /\ read.size \in Nat
  BY <1>2, RequestTypesOf
<1> HIDE DEF handler, bytes, read
<1>4. AtHand(1, handler.bytes, readBuffer_) /\ AtHand(1, bytes, readBuffer_)
  BY <1>1 DEF AtHand, handler, bytes
<1>5. /\ \A d \in Seq(ByteNames), r \in Seq(ByteNames) :
            /\ AtHand(1, d, r) /\ FinishRead(readId_, d, Tail(ready))
            /\ readBuffer_' = r /\ buffer_' = buffer_
            => ReadServed(1)
      /\ \A n \in Nat : GoOnReading(readId_, bytes, n, Tail(ready), readBuffer_) => ReadServed(1)
  BY <1>1, <1>2, <1>3, <1>4, HandlerServes DEF handler
<1>6. CASE ContinueReadSome(handler, read)
  <2>1. /\ FinishRead(readId_, handler.bytes, Tail(ready))
        /\ readBuffer_' = readBuffer_ /\ buffer_' = buffer_
    BY <1>6 DEF ContinueReadSome
  <2> QED
    BY <1>2, <1>4, <1>5, <2>1
<1>7. CASE ContinueReading(handler, read)
  <2>1. CASE /\ FinishRead(readId_, bytes, Tail(ready))
             /\ readBuffer_' = readBuffer_ /\ buffer_' = buffer_
    BY <1>2, <1>3, <1>4, <1>5, <2>1
  <2>2. CASE /\ Len(bytes) < read.size
             /\ GoOnReading(readId_, bytes, read.size - Len(bytes), Tail(ready), readBuffer_)
    <3>1. read.size - Len(bytes) \in Nat
      BY <1>3, <2>2
    <3> QED
      BY <1>5, <2>2, <3>1
  <2> QED
    BY <1>7, <2>1, <2>2 DEF ContinueReading, bytes
<1>8. CASE ContinueReadUntil(handler, read)
  <2>1. PICK found \in 0..Len(handler.bytes) :
           \/ /\ FinishRead(readId_, dst_ \o Upto(found, handler.bytes), Tail(ready))
              /\ readBuffer_' = readBuffer_ \o After(found, handler.bytes)
              /\ buffer_' = buffer_
           \/ ContinueReading(handler, read)
    BY <1>8 DEF ContinueReadUntil
  <2>2. CASE /\ FinishRead(readId_, dst_ \o Upto(found, handler.bytes), Tail(ready))
             /\ readBuffer_' = readBuffer_ \o After(found, handler.bytes)
             /\ buffer_' = buffer_
    <3> DEFINE taken == Upto(found, handler.bytes)
               left  == After(found, handler.bytes)
    <3>1. Splits(handler.bytes, taken, left)
      BY <1>2, SplitEnds
    <3>2. taken \in Seq(ByteNames) /\ left \in Seq(ByteNames)
      BY <1>2, <3>1, SplitParts
    <3>3. dst_ \o taken \in Seq(ByteNames) /\ readBuffer_ \o left \in Seq(ByteNames)
      BY <1>2, <3>2, ConcatType
    <3>4. reads[readId_].kind = "until"
      BY <1>8 DEF ContinueReadUntil, read
    <3> HIDE DEF taken, left
    <3>5. AtHand(1, dst_ \o taken, readBuffer_ \o left)
      BY <1>1, <3>1, <3>4 DEF AtHand, handler
    <3>6. /\ FinishRead(readId_, dst_ \o taken, Tail(ready))
          /\ readBuffer_' = readBuffer_ \o left /\ buffer_' = buffer_
      BY <2>2 DEF taken, left
    <3> QED
      BY <1>5, <3>3, <3>5, <3>6
  <2> QED
    BY <1>7, <2>1, <2>2
<1> QED
  BY <1>1, <1>6, <1>7, <1>8 DEF ContinueReadAll

LEMMA TimeoutServes ==
    ASSUME LoopInv, ReadTimeout, Head(ready).id = readId_
    PROVE  ReadServed(1)
<1>1. /\ Takes1("read_timeout") /\ Head(ready).what = "read_timeout" /\ ready # <<>>
      /\ FinishRead(readId_, dst_, Tail(ready))
      /\ UNCHANGED <<buffer_, readBuffer_, rxDumped>>
  BY Zenon DEF ReadTimeout, NextHandler, Takes1
<1>2. /\ Serves(1)
      /\ readId_ = Len(reads) /\ Len(reads) > 0 /\ Len(reads) \in Nat /\ reads' = reads
      /\ dst_ \in Seq(ByteNames) /\ readBuffer_ \in Seq(ByteNames)
  BY <1>1, TakesCurrent
<1>3. AtHand(1, dst_, readBuffer_)
  BY <1>1 DEF AtHand
<1> QED
  BY <1>1, <1>2, <1>3, HandlerServes

-----------------------------------------------------------------------------
(* The other steps of the reader, and the calls that control it: nothing is    *)
(* asked of do_read_some and no read ends.                                   *)
Calm(k, new) ==
    /\ Queue(k, new) /\ new \in {<<>>, readTimer_}
    /\ Aside /\ Moves(k)
    /\ k = 1 => /\ Head(ready).what \in {"read_continue", "read_callback", "read_timeout"}
                /\ Head(ready).what = "read_continue" => Head(ready).id # readId_
    /\ UNCHANGED <<reads, readId_, dst_>>
    /\ readTimer_' \in {readTimer_, <<>>}
    /\ readBuffer_' \in {readBuffer_, <<>>} /\ buffer_' \in {buffer_, <<>>}
    /\ handed' = IF k = 1 /\ Head(ready).what = "read_callback"
                 THEN handed \o Head(ready).bytes ELSE handed
    /\ \/ RxTaps(k) /\ UNCHANGED <<dumping, dumps>>
       \/ k = 0 /\ rxDumped' \in {rxDumped, <<>>} /\ dumping' \in BOOLEAN /\ dumps' = dumps + 1

LEMMA QueueCalls ==
    ASSUME LoopInv
    PROVE  /\ ready' = ready => Queue(0, <<>>)
           /\ ready' = ready \o readTimer_ => Queue(0, readTimer_)
           /\ ready # <<>> /\ ready' = Tail(ready) => Queue(1, <<>>)
<1>1. /\ ready \in Seq(LoopKnown(Len(writes), Len(reads)))
      /\ readTimer_ \in Seq(LoopKnown(Len(writes), Len(reads)))
  <2>1. readTimer_ \in Seq(ReadTimeouts(Len(reads)))
    BY DEF LoopInv, LoopTypes, ReaderTypesOK
  <2>2. ReadTimeouts(Len(reads)) \subseteq LoopKnown(Len(writes), Len(reads))
    BY DEF ReadTimeouts, LoopKnown
  <2> QED
    BY <2>1, <2>2, SeqGrowsIn DEF LoopInv, LoopTypes
<1>2. /\ Len(ready) \in Nat
      /\ ready \o <<>> = ready
      /\ ready # <<>> => Tail(ready) \o <<>> = Tail(ready) /\ Len(ready) >= 1
  BY <1>1
<1>3. ready' = ready => Queue(0, <<>>)
  BY <1>2 DEF Queue
<1>4. ready' = ready \o readTimer_ => Queue(0, readTimer_)
  BY <1>2 DEF Queue
<1>5. ready # <<>> /\ ready' = Tail(ready) => Queue(1, <<>>)
  BY <1>2 DEF Queue
<1> QED
  BY <1>3, <1>4, <1>5

LEMMA WorkerIsCalm ==
    ASSUME LoopInv,
           ReadDropped \/ (ReadTimeout /\ Head(ready).id # readId_) \/ ReadCallback
    PROVE  Calm(1, <<>>)
<1>1. /\ pc[Worker] = "loop" /\ ready # <<>> /\ ready' = Tail(ready)
      /\ \/ UNCHANGED pc
         \/ Goto(Worker, "callback")
      /\ UNCHANGED <<writing, buffer_, dump, reads, readId_, dst_, readTimer_, readBuffer_>>
      /\ \/ /\ Head(ready).what = "read_continue" /\ Head(ready).id # readId_
            /\ RxDumpCallback(Head(ready)) /\ handed' = handed
         \/ /\ Head(ready).what = "read_timeout"
            /\ UNCHANGED <<rxDumped, handed>>
         \/ /\ Head(ready).what = "read_callback" /\ handed' = handed \o Head(ready).bytes
            /\ UNCHANGED rxDumped
  <2>1. CASE ReadDropped
    BY <2>1, Zenon DEF ReadDropped, NextHandler
  <2>2. CASE ReadTimeout /\ Head(ready).id # readId_
    BY <2>2, Zenon DEF ReadTimeout, NextHandler
  <2>3. CASE ReadCallback
    BY <2>3, Zenon DEF ReadCallback, NextHandler
  <2> QED
    BY <2>1, <2>2, <2>3
<1>2. Queue(1, <<>>)
  BY <1>1, QueueCalls
<1>3. Aside /\ UNCHANGED <<dumping, dumps>>
  BY <1>1 DEF Aside, writing, dump, lifecycle
<1>4. Moves(1) /\ RxTaps(1)
  BY <1>1 DEF Moves, RxTaps
<1> QED
  BY <1>1, <1>2, <1>3, <1>4 DEF Calm

LEMMA OthersAreCalm ==
    ASSUME LoopInv,
           \/ ReadTimerExpires
           \/ \E t \in Threads : \/ StreamFlush(t) \/ StreamReset(t)
                                 \/ EnableIODump(t) \/ DisableIODump(t)
           \/ UNCHANGED loopVars
    PROVE  \E new : Calm(0, new)
<1>1. transport = "string" /\ dumps \in Nat
  BY DEF LoopInv, LoopTypes, WriterTypesOK
<1>2. Moves(0) <=> UNCHANGED pc
  BY DEF Moves
<1>3. CASE ReadTimerExpires
  <2>1. /\ ready' = ready \o readTimer_ /\ readTimer_' = <<>>
        /\ UNCHANGED <<writing, buffer_, dump, pc, reads, readId_, dst_, readBuffer_, rxDumped,
                       handed>>
    BY <1>3, Zenon DEF ReadTimerExpires
  <2>2. Queue(0, readTimer_)
    BY <2>1, QueueCalls
  <2>3. Aside /\ Moves(0) /\ RxTaps(0) /\ UNCHANGED <<dumping, dumps>>
    BY <2>1 DEF Aside, writing, dump, lifecycle, Moves, RxTaps
  <2>4. Calm(0, readTimer_)
    BY <2>1, <2>2, <2>3 DEF Calm
  <2> QED
    BY <2>4
<1>4. ASSUME UNCHANGED <<ready, transport, link, wire, request, processed_, timer_, posted, pc>>,
             UNCHANGED <<reads, readId_, dst_, readTimer_, handed>>,
             readBuffer_' \in {readBuffer_, <<>>}, buffer_' \in {buffer_, <<>>},
             \/ UNCHANGED <<rxDumped, dumping, dumps>>
             \/ rxDumped' \in {rxDumped, <<>>} /\ dumping' \in BOOLEAN /\ dumps' = dumps + 1
      PROVE  \E new : Calm(0, new)
  <2>1. Queue(0, <<>>)
    BY <1>4, QueueCalls
  <2>2. Aside /\ Moves(0)
    BY <1>4 DEF Aside, Moves
  <2>3. RxTaps(0) <=> rxDumped' = rxDumped
    BY DEF RxTaps
  <2>4. Calm(0, <<>>)
    BY <1>4, <2>1, <2>2, <2>3 DEF Calm
  <2> QED
    BY <2>4
<1>5. ASSUME NEW t \in Threads, StreamFlush(t) PROVE \E new : Calm(0, new)
  <2>1. /\ Flush(t) /\ readBuffer_' = <<>>
        /\ UNCHANGED <<reads, readId_, dst_, readTimer_, rxDumped, handed>>
    BY <1>5, Zenon DEF StreamFlush
  <2>2. /\ FlushDevice
        /\ UNCHANGED <<request, processed_, timer_, waiter, dump, pc, posted>>
    BY <2>1, Zenon DEF Flush
  <2>3. buffer_' = <<>> /\ UNCHANGED <<link, transport, wire, ready>>
    BY <1>1, <2>2 DEF FlushDevice, FlushSerial, FlushString
  <2> QED
    BY <1>4, <2>1, <2>2, <2>3 DEF dump
<1>6. ASSUME NEW t \in Threads, StreamReset(t) PROVE \E new : Calm(0, new)
  <2>1. Reset(t) /\ UNCHANGED reading
    BY <1>6, Zenon DEF StreamReset
  <2>2. /\ ResetDevice
        /\ UNCHANGED <<request, processed_, timer_, waiter, dump, pc, posted>>
    BY <2>1, Zenon DEF Reset
  <2>3. buffer_' = <<>> /\ UNCHANGED <<link, transport, wire, ready>>
    BY <1>1, <2>2 DEF ResetDevice, ResetTCP, ResetSerial, ResetString
  <2> QED
    BY <1>4, <2>1, <2>2, <2>3 DEF dump, reading
<1>7. ASSUME NEW t \in Threads, EnableIODump(t) PROVE \E new : Calm(0, new)
  <2>1. /\ EnableDump(t) /\ rxDumped' \in {rxDumped, <<>>}
        /\ UNCHANGED <<reads, readId_, dst_, readTimer_, readBuffer_, handed>>
    BY <1>7 DEF EnableIODump
  <2>2. /\ dumping' = TRUE /\ dumps' = dumps + 1
        /\ UNCHANGED <<device, ready, request, processed_, timer_, waiter, pc, posted>>
    BY <2>1, Zenon DEF EnableDump
  <2>3. UNCHANGED <<transport, link, buffer_, wire, ready>>
    BY <2>2 DEF device, lifecycle
  <2> QED
    BY <1>4, <2>1, <2>2, <2>3
<1>8. ASSUME NEW t \in Threads, DisableIODump(t) PROVE \E new : Calm(0, new)
  <2>1. DisableDump(t) /\ UNCHANGED reading
    BY <1>8, Zenon DEF DisableIODump
  <2>2. /\ dumping' = FALSE /\ dumps' = dumps + 1
        /\ UNCHANGED <<dumped, device, ready, request, processed_, timer_, waiter, pc, posted>>
    BY <2>1, Zenon DEF DisableDump
  <2>3. UNCHANGED <<transport, link, buffer_, wire, ready>>
    BY <2>2 DEF device, lifecycle
  <2> QED
    BY <1>4, <2>1, <2>2, <2>3 DEF reading
<1>9. CASE UNCHANGED loopVars
  <2>1. UNCHANGED <<vars, reading>>
    BY <1>9 DEF loopVars
  <2> QED
    BY <1>4, <2>1 DEF vars, device, lifecycle, dump, reading
<1> QED
  BY <1>3, <1>5, <1>6, <1>7, <1>8, <1>9, Zenon

LEMMA HeadBytes ==
    ASSUME LoopInv, ready # <<>>,
           Head(ready).what \in {"read_continue", "read_callback", "read_timeout"}
    PROVE  /\ Head(ready).bytes \in Seq(ByteNames) /\ Head(ready).dump \in BOOLEAN
           /\ Head(ready).id \in 1..Len(reads)
  BY HeadOf, LengthTypes, LoopFields

LEMMA TapsType ==
    ASSUME LoopInv, NEW k, k = 1 => ready # <<>>, RxTaps(k)
    PROVE  rxDumped' \in Seq(ByteNames)
<1>1. rxDumped \in Seq(ByteNames)
  BY DEF LoopInv, LoopTypes, ReaderTypesOK
<1>2. CASE k = 1 /\ Head(ready).what = "read_continue"
  <2>1. Head(ready).bytes \in Seq(ByteNames)
    BY <1>2, HeadBytes
  <2>2. rxDumped \o Head(ready).bytes \in Seq(ByteNames)
    BY <1>1, <2>1, ConcatType
  <2>3. rxDumped' \in {rxDumped \o Head(ready).bytes, rxDumped}
    BY <1>2, Zenon DEF RxTaps, RxDumpCallback
  <2> QED
    BY <1>1, <2>2, <2>3
<1>3. CASE ~(k = 1 /\ Head(ready).what = "read_continue")
  BY <1>1, <1>3 DEF RxTaps
<1> QED
  BY <1>2, <1>3

LEMMA NoneType == ASSUME NEW S, NEW s \in Seq(S)
                  PROVE  \A t \in {s, <<>>} : t \in Seq(S) /\ Len(t) <= Len(s) /\ Len(t) \in Nat
<1>1. /\ <<>> \in Seq(S) /\ Len(<<>>) <= Len(s) /\ Len(<<>>) \in Nat
      /\ s \in Seq(S) /\ Len(s) <= Len(s) /\ Len(s) \in Nat
  OBVIOUS
<1> QED
  BY <1>1, Zenon

LEMMA CalmKeeps == ASSUME LoopInv, NEW k, NEW new, Calm(k, new) PROVE LoopInv'
<1>1. /\ Queue(k, new) /\ new \in {<<>>, readTimer_}
      /\ Aside /\ Moves(k) /\ k \in {0, 1} /\ (k = 1 => ready # <<>>)
      /\ UNCHANGED <<reads, readId_, dst_>>
      /\ readTimer_' \in {readTimer_, <<>>}
      /\ readBuffer_' \in {readBuffer_, <<>>} /\ buffer_' \in {buffer_, <<>>}
  <2>1. ready # <<>> \/ Len(ready) = 0
    OBVIOUS
  <2> QED
    BY <2>1 DEF Calm, Queue
<1>2. /\ ReaderTypesOK
      /\ buffer_ \in Seq(ByteNames) /\ Len(buffer_) <= Capacity
      /\ dumping \in BOOLEAN /\ dumps \in Nat
  BY DEF LoopInv, LoopTypes, WriterTypesOK
<1>3. /\ Len(reads') \in Nat /\ Len(reads) <= Len(reads')
      /\ new \in Seq(ReadKnown(Len(reads')))
  <2>1. Len(reads) \in Nat /\ reads' = reads
    BY <1>1, LengthTypes
  <2>2. new \in Seq(ReadTimeouts(Len(reads')))
    <3>1. Len(reads') \in Nat /\ Len(reads) <= Len(reads')
      BY <2>1
    <3>2. \A timers \in {<<>>, readTimer_} : timers \in Seq(ReadTimeouts(Len(reads')))
      BY <3>1, TimersType
    <3> QED
      BY ONLY <1>1, <3>2
  <2>3. ReadTimeouts(Len(reads')) \subseteq ReadKnown(Len(reads'))
    BY DEF ReadTimeouts
  <2> QED
    BY <2>1, <2>2, <2>3, SeqGrowsIn
<1>4. handed' \in Seq(ByteNames)
  <2>1. CASE k = 1 /\ Head(ready).what = "read_callback"
    <3>1. handed' = handed \o Head(ready).bytes /\ Head(ready).bytes \in Seq(ByteNames)
      BY <1>1, <2>1, HeadBytes DEF Calm
    <3> QED
      BY <1>2, <3>1 DEF ReaderTypesOK
  <2>2. CASE ~(k = 1 /\ Head(ready).what = "read_callback")
    BY <1>2, <2>2 DEF Calm, ReaderTypesOK
  <2> QED
    BY <2>1, <2>2
<1>5. rxDumped' \in Seq(ByteNames) /\ dumping' \in BOOLEAN /\ dumps' \in Nat
  <2>1. CASE RxTaps(k) /\ UNCHANGED <<dumping, dumps>>
    BY <1>1, <1>2, <2>1, TapsType
  <2>2. CASE rxDumped' \in {rxDumped, <<>>} /\ dumping' \in BOOLEAN /\ dumps' = dumps + 1
    <3>1. rxDumped \in Seq(ByteNames)
      BY <1>2 DEF ReaderTypesOK
    <3>2. rxDumped' \in Seq(ByteNames)
      BY <2>2, <3>1, NoneType
    <3>3. dumps' \in Nat
      BY <1>2, <2>2
    <3> QED
      BY <2>2, <3>2, <3>3
  <2> QED
    BY <2>1, <2>2 DEF Calm
<1>6. readTimer_' \in Seq(ReadTimeouts(Len(reads'))) /\ Len(readTimer_') <= 1
  <2>1. readTimer_ \in Seq(ReadTimeouts(Len(reads'))) /\ Len(readTimer_) <= 1
    BY <1>1, <1>2 DEF ReaderTypesOK
  <2>2. readTimer_' \in Seq(ReadTimeouts(Len(reads'))) /\ Len(readTimer_') <= Len(readTimer_)
        /\ Len(readTimer_') \in Nat /\ Len(readTimer_) \in Nat
    BY <1>1, <2>1, NoneType
  <2> QED
    BY <2>1, <2>2
<1>7. ReaderTypesOK'
  <2>1. readBuffer_ \in Seq(ByteNames)
    BY <1>2 DEF ReaderTypesOK
  <2>2. readBuffer_' \in Seq(ByteNames)
    BY <1>1, <2>1, NoneType
  <2> QED
    BY <1>1, <1>2, <1>4, <1>5, <1>6, <2>2 DEF ReaderTypesOK
<1>8. buffer_' \in Seq(ByteNames) /\ Len(buffer_') <= Capacity
  <2>1. /\ buffer_' \in Seq(ByteNames) /\ Len(buffer_') <= Len(buffer_)
        /\ Len(buffer_') \in Nat /\ Len(buffer_) \in Nat
    BY <1>1, <1>2, NoneType
  <2> QED
    BY <1>2, <2>1, DevicesAssumption
<1> QED
  BY <1>1, <1>3, <1>5, <1>7, <1>8, ReaderKeeps

LEMMA AtHandTypes ==
    ASSUME LoopInv, NEW k, k = 1 => ready # <<>>, NEW d, NEW r, AtHand(k, d, r)
    PROVE  d \in Seq(ByteNames) /\ r \in Seq(ByteNames)
<1>1. dst_ \in Seq(ByteNames) /\ readBuffer_ \in Seq(ByteNames)
  BY DEF LoopInv, LoopTypes, ReaderTypesOK
<1>2. CASE k = 0 /\ Splits(readBuffer_, d, r)
  BY <1>1, <1>2, SplitParts
<1>3. CASE k = 1 /\ Head(ready).what = "read_continue"
  <2>1. Head(ready).bytes \in Seq(ByteNames)
    BY <1>3, HeadBytes
  <2>2. CASE d \in {Head(ready).bytes, dst_ \o Head(ready).bytes} /\ r = readBuffer_
    BY <1>1, <2>1, <2>2, ConcatType
  <2>3. ASSUME NEW taken, NEW left, Splits(Head(ready).bytes, taken, left),
               d = dst_ \o taken, r = readBuffer_ \o left
        PROVE  d \in Seq(ByteNames) /\ r \in Seq(ByteNames)
    <3>1. taken \in Seq(ByteNames) /\ left \in Seq(ByteNames)
      BY <2>1, <2>3, SplitParts
    <3> QED
      BY <1>1, <2>3, <3>1, ConcatType
  <2> QED
    BY <1>3, <2>2, <2>3 DEF AtHand
<1>4. CASE d = dst_ /\ r = readBuffer_
  BY <1>1, <1>4
<1> QED
  BY <1>2, <1>3, <1>4 DEF AtHand

(* What a served read looks like. *)
LEMMA ServesFacts ==
    ASSUME LoopInv, NEW k \in {0, 1}, Serves(k)
    PROVE  /\ k = 1 => ready # <<>>
           /\ Len(reads) \in Nat /\ Len(reads') \in Nat /\ Len(reads') > 0
           /\ Len(reads) <= Len(reads') /\ reads' \in Seq(Requests) /\ Len(reads') <= MaxReads
           /\ \A i \in 1..Len(reads) : reads'[i] = reads[i]
           /\ k = 0 => Len(reads') = Len(reads) + 1 /\ readId_ = 0
           /\ k = 1 => reads' = reads /\ readId_ = Len(reads) /\ Head(ready).id = readId_
           /\ readTimer_' \in Seq(ReadTimeouts(Len(reads'))) /\ Len(readTimer_') <= 1
           /\ rxDumped' \in Seq(ByteNames) /\ handed' \in Seq(ByteNames)
<1>1. /\ Len(reads) \in Nat /\ reads \in Seq(Requests) /\ Len(reads) <= MaxReads /\ MaxReads \in Nat
      /\ readId_ \in {0, Len(reads)}
      /\ readTimer_ \in Seq(ReadTimeouts(Len(reads))) /\ Len(readTimer_) <= 1
      /\ handed \in Seq(ByteNames)
  BY LengthTypes, LoopAssumption DEF LoopInv, LoopTypes, ReaderTypesOK
<1>2. /\ k = 1 => ready # <<>>
      /\ Len(reads') \in Nat /\ Len(reads') > 0
      /\ Len(reads) <= Len(reads') /\ reads' \in Seq(Requests) /\ Len(reads') <= MaxReads
      /\ \A i \in 1..Len(reads) : reads'[i] = reads[i]
      /\ k = 0 => Len(reads') = Len(reads) + 1 /\ readId_ = 0
      /\ k = 1 => reads' = reads /\ readId_ = Len(reads) /\ Head(ready).id = readId_
  <2>1. CASE k = 0 /\ readId_ = 0
    <3>1. PICK read \in Requests : reads' = Append(reads, read) /\ Len(reads) < MaxReads
      BY <2>1 DEF Serves, Accepts
    <3>2. /\ reads' \in Seq(Requests) /\ Len(reads') = Len(reads) + 1
          /\ \A i \in 1..Len(reads) : reads'[i] = reads[i]
      BY <1>1, <3>1
    <3> QED
      BY <1>1, <2>1, <3>1, <3>2
  <2>2. CASE k = 1
    <3>1. ready # <<>> /\ Head(ready).id = readId_ /\ readId_ # 0 /\ reads' = reads
      BY <2>2 DEF Serves, Accepts
    <3>2. readId_ = Len(reads) /\ Len(reads) > 0
      BY <1>1, <3>1
    <3> QED
      BY <1>1, <2>2, <3>1, <3>2
  <2> QED
    BY <2>1, <2>2 DEF Serves, Accepts
<1>3. rxDumped' \in Seq(ByteNames) /\ handed' = handed
  BY <1>2, TapsType DEF Serves
<1>4. readTimer_' \in Seq(ReadTimeouts(Len(reads'))) /\ Len(readTimer_') <= 1
  <2>1. CASE readTimer_' = readTimer_
    <3>1. readTimer_ \in Seq(ReadTimeouts(Len(reads')))
      BY <1>2, TimersType
    <3> QED
      BY <1>1, <2>1, <3>1
  <2>2. CASE readTimer_' = <<ReadHandler("read_timeout", Len(reads'), <<>>, FALSE)>>
    <3>1. <<>> \in Seq(ByteNames)
      OBVIOUS
    <3>2. ReadHandler("read_timeout", Len(reads'), <<>>, FALSE) \in ReadTimeouts(Len(reads'))
      <4>1. /\ ReadHandler("read_timeout", Len(reads'), <<>>, FALSE) \in ReadKnown(Len(reads'))
            /\ ReadHandler("read_timeout", Len(reads'), <<>>, FALSE).what = "read_timeout"
        <5>1. Len(reads') \in Nat /\ Len(reads') > 0
          BY <1>2
        <5> QED
          BY ONLY <3>1, <5>1 DEF ReadHandler, ReadKnown, ReadHandlers
      <4> QED
        BY <4>1 DEF ReadTimeouts
    <3>3. \A S : \A e \in S : <<e>> \in Seq(S) /\ Len(<<e>>) = 1
      OBVIOUS
    <3>4. /\ readTimer_' \in Seq(ReadTimeouts(Len(reads')))
          /\ Len(readTimer_') = 1
      BY <2>2, <3>2, <3>3
    <3> QED
      BY <3>4
  <2> QED
    BY <2>1, <2>2 DEF Serves
<1> QED
  BY <1>1, <1>2, <1>3, <1>4

LEMMA ServedKeeps == ASSUME LoopInv, NEW k \in {0, 1}, ReadServed(k) PROVE LoopInv'
<1>1. PICK timers, d, r :
         /\ timers \in {<<>>, readTimer_} /\ (k = 1 => timers = <<>>)
         /\ AtHand(k, d, r)
         /\ \/ Finishes(k, timers, d, r)
            \/ \E taken, tapped : Asks(k, timers, d, r, taken, tapped)
  BY Zenon DEF ReadServed
<1>2. Serves(k)
  BY DEF ReadServed
<1>3. /\ k = 1 => ready # <<>>
      /\ Len(reads) \in Nat /\ Len(reads') \in Nat /\ Len(reads') > 0
      /\ Len(reads) <= Len(reads') /\ reads' \in Seq(Requests) /\ Len(reads') <= MaxReads
      /\ readTimer_' \in Seq(ReadTimeouts(Len(reads'))) /\ Len(readTimer_') <= 1
      /\ rxDumped' \in Seq(ByteNames) /\ handed' \in Seq(ByteNames)
  BY <1>2, ServesFacts
<1>4. d \in Seq(ByteNames) /\ r \in Seq(ByteNames)
  BY <1>1, <1>3, AtHandTypes
<1>5. \A e \in ReadKnown(Len(reads')) : timers \o <<e>> \in Seq(ReadKnown(Len(reads')))
  <2>1. timers \in Seq(ReadTimeouts(Len(reads')))
    BY <1>1, <1>3, TimersType
  <2>2. ReadTimeouts(Len(reads')) \subseteq ReadKnown(Len(reads'))
    BY DEF ReadTimeouts
  <2>3. timers \in Seq(ReadKnown(Len(reads')))
    BY <2>1, <2>2, SeqGrowsIn
  <2> QED
    BY <2>3
<1>6. /\ buffer_ \in Seq(ByteNames) /\ Len(buffer_) <= Capacity
      /\ dumping \in BOOLEAN /\ dumps \in Nat
  BY DEF LoopInv, LoopTypes, WriterTypesOK
<1>7. \E e \in ReadKnown(Len(reads')) :
         /\ Queue(k, timers \o <<e>>)
         /\ readId_' \in {0, Len(reads')} /\ dst_' \in Seq(ByteNames)
         /\ readBuffer_' \in Seq(ByteNames)
         /\ buffer_' \in Seq(ByteNames) /\ Len(buffer_') <= Capacity
  <2>1. CASE Finishes(k, timers, d, r)
    <3>1. ReadHandler("read_callback", Len(reads'), d, FALSE) \in ReadKnown(Len(reads'))
      BY <1>3, <1>4, ReadHandlerType
    <3>2. /\ Queue(k, timers \o <<ReadHandler("read_callback", Len(reads'), d, FALSE)>>)
          /\ readId_' = 0 /\ dst_' = <<>> /\ readBuffer_' = r /\ buffer_' = buffer_
      BY <2>1, Zenon DEF Finishes
    <3>3. <<>> \in Seq(ByteNames)
      OBVIOUS
    <3> QED
      BY <1>4, <1>6, <3>1, <3>2, <3>3
  <2>2. ASSUME NEW taken, NEW tapped, Asks(k, timers, d, r, taken, tapped) PROVE <1>7
    <3>1. /\ Queue(k, timers \o <<ReadHandler("read_continue", Len(reads'), taken, tapped)>>)
          /\ readId_' = Len(reads') /\ dst_' = d
          /\ Given(r, taken, tapped)
      BY <2>2 DEF Asks
    <3>2. /\ taken \in Seq(ByteNames) /\ tapped \in BOOLEAN
          /\ readBuffer_' \in Seq(ByteNames)
          /\ buffer_' \in Seq(ByteNames) /\ Len(buffer_') <= Capacity
      BY <1>4, <3>1, GivenTypes
    <3>3. ReadHandler("read_continue", Len(reads'), taken, tapped) \in ReadKnown(Len(reads'))
      BY <1>3, <3>2, ReadHandlerType
    <3> QED
      BY <1>4, <3>1, <3>2, <3>3
  <2> QED
    BY <1>1, <2>1, <2>2
<1>8. ReaderTypesOK'
  BY <1>3, <1>7 DEF ReaderTypesOK
<1>9. Aside /\ Moves(k) /\ UNCHANGED <<dumping, dumps>>
  BY <1>2 DEF Serves, Moves
<1> QED
  BY <1>3, <1>5, <1>6, <1>7, <1>8, <1>9, ReaderKeeps

(* Every step of the Stream feeds the reader, is calm or serves a read, and    *)
(* the types and what is known of the writer are kept.                       *)
ReadStep ==
    \/ \E t \in Threads : NewRead(t)
    \/ ReadContinue
    \/ ReadTimeout /\ Head(ready).id = readId_

LEMMA LoopKinds ==
    ASSUME NoWrap, ~SlowCaller, LoopInv, [LoopNext]_loopVars
    PROVE  \/ LoopInv' /\ Feeds
           \/ \E k, new : Calm(k, new)
           \/ ReadStep
<1>1. CASE WriterSteps
  BY <1>1, WriterStep
<1>2. CASE ReadDropped \/ ReadCallback \/ ReadTimeout
  <2>1. CASE ReadTimeout /\ Head(ready).id = readId_
    BY <2>1 DEF ReadStep
  <2>2. CASE ReadDropped \/ (ReadTimeout /\ Head(ready).id # readId_) \/ ReadCallback
    BY <2>2, WorkerIsCalm
  <2> QED
    BY <1>2, <2>1, <2>2
<1>3. CASE \/ ReadTimerExpires
           \/ \E t \in Threads : \/ StreamFlush(t) \/ StreamReset(t)
                                 \/ EnableIODump(t) \/ DisableIODump(t)
           \/ UNCHANGED loopVars
  BY <1>3, OthersAreCalm
<1>4. CASE ReadContinue \/ \E t \in Threads : NewRead(t)
  BY <1>4 DEF ReadStep
<1> QED
  BY <1>1, <1>2, <1>3, <1>4, Zenon DEF LoopNext, ReaderSteps

LEMMA ReadStepServes == ASSUME LoopInv, ReadStep PROVE \E k \in {0, 1} : ReadServed(k)
<1>1. \A t \in Threads : NewRead(t) => ReadServed(0)
  BY NewReadServes
<1> QED
  BY <1>1, ReadContinueServes, TimeoutServes DEF ReadStep

LEMMA LoopStep ==
    ASSUME NoWrap, ~SlowCaller, LoopInv, [LoopNext]_loopVars
    PROVE  /\ LoopInv'
           /\ \/ Feeds
              \/ \E k, new : Calm(k, new)
              \/ \E k \in {0, 1} : ReadServed(k)
<1>1. ASSUME NEW k, NEW new, Calm(k, new)
      PROVE  LoopInv' /\ \E l, other : Calm(l, other)
  BY <1>1, CalmKeeps
<1>2. ASSUME NEW k \in {0, 1}, ReadServed(k)
      PROVE  LoopInv' /\ \E l \in {0, 1} : ReadServed(l)
  BY <1>2, ServedKeeps
<1> QED
  BY <1>1, <1>2, LoopKinds, ReadStepServes

-----------------------------------------------------------------------------
(* The bytes stay in order on their way *)

NoBytes == Content(<<>>) = {} /\ Ascending(<<>>) /\ <<>> \in Seq(ByteNames)

LEMMA NoBytesAtAll == NoBytes
  BY DEF NoBytes, Content, Ascending

(* The answers to a read: none but the new one, or those that there were. *)
LEMMA NewAnswer ==
    ASSUME NEW T, ready \in Seq(T), NEW k, NEW new \in Seq(T), Queue(k, new), NEW id, NEW c,
           \A i \in AnswersTo(ready, id) : i <= k,
           \A i \in AnswersTo(new, id) : i = Len(new) /\ new[i].bytes = c
    PROVE  OneAnswer(ready', id, c)
<1>1. /\ Len(ready) \in Nat /\ Len(new) \in Nat /\ k \in {0, 1} /\ Len(ready') \in Nat
      /\ \A i \in 1..Len(ready') :
            \/ i + k \in 1..Len(ready) /\ ready'[i] = ready[i + k]
            \/ /\ i + k - Len(ready) \in 1..Len(new)
               /\ ready'[i] = new[i + k - Len(ready)]
  <2>1. /\ Len(ready') = Len(ready) - k + Len(new)
        /\ Len(ready) \in Nat /\ Len(new) \in Nat /\ k \in {0, 1} /\ k <= Len(ready)
        /\ \A i \in 1..Len(ready') :
              \/ i + k \in 1..Len(ready) /\ ready'[i] = ready[i + k]
              \/ /\ i + k - Len(ready) \in 1..Len(new)
                 /\ ready'[i] = new[i + k - Len(ready)]
    BY QueueParts
  <2> QED
    BY <2>1
<1>2. ASSUME NEW i \in AnswersTo(ready', id)
      PROVE  i = Len(ready) - k + Len(new) /\ ready'[i].bytes = c
  <2>1. i \in 1..Len(ready') /\ ready'[i].what = "read_continue" /\ ready'[i].id = id
    BY DEF AnswersTo
  <2>2. CASE i + k \in 1..Len(ready) /\ ready'[i] = ready[i + k]
    <3>1. i + k \in AnswersTo(ready, id)
      BY <2>1, <2>2 DEF AnswersTo
    <3>2. i + k <= k /\ i \in Nat /\ i > 0
      BY <1>1, <2>1, <3>1
    <3> QED
      BY <1>1, <3>2
  <2>3. CASE /\ i + k - Len(ready) \in 1..Len(new)
             /\ ready'[i] = new[i + k - Len(ready)]
    <3>1. i + k - Len(ready) \in AnswersTo(new, id)
      BY <2>1, <2>3 DEF AnswersTo
    <3>2. i + k - Len(ready) = Len(new) /\ new[i + k - Len(ready)].bytes = c
      BY ONLY <3>1, \A j \in AnswersTo(new, id) : j = Len(new) /\ new[j].bytes = c
    <3>3. i \in Nat
      BY ONLY <1>1, <2>1
    <3>4. i = Len(ready) - k + Len(new)
      <4>1. Len(ready) \in Nat /\ Len(new) \in Nat /\ k \in {0, 1}
        BY ONLY <1>1
      <4> QED
        BY ONLY <3>2, <3>3, <4>1
    <3> QED
      BY ONLY <2>3, <3>2, <3>4
  <2> QED
    BY <1>1, <2>1, <2>2, <2>3
<1> QED
  BY <1>2 DEF OneAnswer

LEMMA SameAnswer ==
    ASSUME NEW T, ready \in Seq(T), NEW k, NEW new \in Seq(T), Queue(k, new), NEW id, NEW a,
           OneAnswer(ready, id, a), AnswersTo(new, id) = {}
    PROVE  OneAnswer(ready', id, a)
<1>1. /\ Len(ready) \in Nat /\ Len(new) \in Nat /\ k \in {0, 1}
      /\ \A i \in 1..Len(ready') :
            \/ i + k \in 1..Len(ready) /\ ready'[i] = ready[i + k]
            \/ /\ i + k - Len(ready) \in 1..Len(new)
               /\ ready'[i] = new[i + k - Len(ready)]
  BY QueueParts
<1>2. ASSUME NEW i \in AnswersTo(ready', id)
      PROVE  i + k \in AnswersTo(ready, id) /\ ready'[i] = ready[i + k] /\ i \in Nat
  <2>1. i \in 1..Len(ready') /\ ready'[i].what = "read_continue" /\ ready'[i].id = id
    BY DEF AnswersTo
  <2>2. CASE i + k \in 1..Len(ready) /\ ready'[i] = ready[i + k]
    BY <2>1, <2>2 DEF AnswersTo
  <2>3. CASE /\ i + k - Len(ready) \in 1..Len(new)
             /\ ready'[i] = new[i + k - Len(ready)]
    <3>1. i + k - Len(ready) \in AnswersTo(new, id)
      BY <2>1, <2>3 DEF AnswersTo
    <3> QED
      BY <3>1
  <2> QED
    BY <1>1, <2>1, <2>2, <2>3
<1>3. \A i, j \in AnswersTo(ready', id) : i + k = j + k
  BY <1>2 DEF OneAnswer
<1> QED
  BY <1>1, <1>2, <1>3 DEF OneAnswer

(* The handlers of a kind that brings bytes, in a queue that has moved. *)
LEMMA SelectedMove ==
    ASSUME NEW T, ready \in Seq(T), NEW k, NEW new \in Seq(T), Queue(k, new)
    PROVE  /\ Shifted(k, Len(ready), ready, ready', new,
                      CallbacksOf(ready), CallbacksOf(new), CallbacksOf(ready'))
           /\ Shifted(k, Len(ready), ready, ready', new,
                      TappedOf(ready), TappedOf(new), TappedOf(ready'))
<1>1. /\ k \in {0, 1} /\ Len(ready) \in Nat
      /\ \A i \in 1..Len(ready') :
            \/ i + k \in 1..Len(ready) /\ ready'[i] = ready[i + k]
            \/ /\ i + k - Len(ready) \in 1..Len(new)
               /\ ready'[i] = new[i + k - Len(ready)]
  BY QueueParts
<1>2. \A i \in CallbacksOf(ready') :
         \/ i + k \in CallbacksOf(ready) /\ ready'[i] = ready[i + k]
         \/ /\ i + k - Len(ready) \in CallbacksOf(new)
            /\ ready'[i] = new[i + k - Len(ready)]
  BY <1>1 DEF CallbacksOf
<1>3. \A i \in TappedOf(ready') :
         \/ i + k \in TappedOf(ready) /\ ready'[i] = ready[i + k]
         \/ /\ i + k - Len(ready) \in TappedOf(new)
            /\ ready'[i] = new[i + k - Len(ready)]
  BY <1>1 DEF TappedOf
<1>4. /\ CallbacksOf(ready) \subseteq 1..Len(ready) /\ TappedOf(ready) \subseteq 1..Len(ready)
      /\ \A i \in CallbacksOf(new) \cup CallbacksOf(ready') : i \in Nat /\ i > 0
      /\ \A i \in TappedOf(new) \cup TappedOf(ready') : i \in Nat /\ i > 0
  BY DEF CallbacksOf, TappedOf
<1> QED
  BY <1>1, <1>2, <1>3, <1>4 DEF Shifted

LEMMA FlowMoves ==
    ASSUME LoopInv, LoopInv', NEW a, FlowWith(a), NEW c, NEW k,
           NEW new \in Seq(LoopKnown(Len(writes'), Len(reads'))),
           ready \in Seq(LoopKnown(Len(writes'), Len(reads'))), Queue(k, new), wire' = wire,
           OneAnswer(ready', readId_', c),
           Order(dst_', c, readBuffer_', buffer_'),
           Brings(new, CallbacksOf(new), Behind(dst_, a, readBuffer_, buffer_),
                  Behind(dst_', c, readBuffer_', buffer_')),
           handed' = IF k = 1 /\ Head(ready).what = "read_callback"
                     THEN handed \o Head(ready).bytes ELSE handed
    PROVE  FlowWith(c)'
<1> DEFINE X == Behind(dst_, a, readBuffer_, buffer_)
           Y == Behind(dst_', c, readBuffer_', buffer_')
<1>1. k \in {0, 1} /\ Len(ready) \in Nat /\ k <= Len(ready)
  BY LengthTypes DEF Queue
<1>2. /\ Line(handed, ready, CallbacksOf(ready), X)
      /\ Inside(handed, ready, CallbacksOf(ready), X, Content(wire))
  BY DEF FlowWith, Flow
<1>3. HandsOver(k, ready, CallbacksOf(ready), handed, handed')
  <2>1. CASE k = 1 /\ Head(ready).what = "read_callback"
    <3>1. ready # <<>>
      BY <1>1, <2>1
    <3>2. Head(ready) = ready[1] /\ 1 \in 1..Len(ready)
      BY <3>1, HeadOf
    <3>3. Head(ready).bytes \in Seq(ByteNames)
      BY <2>1, <3>1, HeadBytes
    <3> QED
      BY <2>1, <3>2, <3>3 DEF HandsOver, CallbacksOf, LoopInv, LoopTypes, ReaderTypesOK
  <2>2. CASE ~(k = 1 /\ Head(ready).what = "read_callback")
    BY <2>2 DEF HandsOver
  <2> QED
    BY <2>1, <2>2
<1>4. Shifted(k, Len(ready), ready, ready', new,
              CallbacksOf(ready), CallbacksOf(new), CallbacksOf(ready'))
  BY SelectedMove
<1>5. Line(handed', ready', CallbacksOf(ready'), Y)
      /\ Inside(handed', ready', CallbacksOf(ready'), Y, Content(wire))
  BY <1>2, <1>3, <1>4, LineMoves
<1>6. Content(wire') = Content(wire)
  OBVIOUS
<1> QED
  BY <1>5, <1>6 DEF FlowWith, Flow

(* The bytes at hand, still in order and none of them new. *)
LEMMA HandOrder ==
    ASSUME LoopInv, UntilInv, NEW a \in Seq(ByteNames), FlowWith(a), NEW k \in {0, 1}, Serves(k),
           NEW d, NEW r, AtHand(k, d, r)
    PROVE  /\ Order(d, <<>>, r, buffer_)
           /\ Behind(d, <<>>, r, buffer_) \subseteq Behind(dst_, a, readBuffer_, buffer_)
<1>1. /\ OneAnswer(ready, readId_, a)
      /\ Ascending(dst_) /\ Ascending(a) /\ Ascending(readBuffer_) /\ Ascending(buffer_)
      /\ Follow(Content(dst_), Content(a) \cup Content(readBuffer_) \cup Content(buffer_))
      /\ Follow(Content(a), Content(readBuffer_) \cup Content(buffer_))
      /\ Follow(Content(readBuffer_), Content(buffer_))
  BY DEF FlowWith, Flow, Order
<1>2. dst_ \in Seq(ByteNames) /\ readBuffer_ \in Seq(ByteNames)
  BY DEF LoopInv, LoopTypes, ReaderTypesOK
<1>3. Content(<<>>) = {} /\ Ascending(<<>>)
  BY NoBytesAtAll DEF NoBytes
<1>4. ASSUME Ascending(d), Ascending(r),
             Follow(Content(d), Content(r) \cup Content(buffer_)),
             Follow(Content(r), Content(buffer_)),
             Content(d) \cup Content(r) \subseteq
                Content(dst_) \cup Content(a) \cup Content(readBuffer_)
      PROVE  /\ Order(d, <<>>, r, buffer_)
             /\ Behind(d, <<>>, r, buffer_) \subseteq Behind(dst_, a, readBuffer_, buffer_)
  <2>1. Order(d, <<>>, r, buffer_)
    BY <1>1, <1>3, <1>4 DEF Order, Follow
  <2>2. Behind(d, <<>>, r, buffer_) \subseteq Behind(dst_, a, readBuffer_, buffer_)
    BY <1>3, <1>4 DEF Behind
  <2> QED
    BY <2>1, <2>2
<1>5. CASE k = 0 /\ Splits(readBuffer_, d, r)
  <2>1. /\ Content(d) \subseteq Content(readBuffer_) /\ Content(r) \subseteq Content(readBuffer_)
        /\ Ascending(d) /\ Ascending(r) /\ Follow(Content(d), Content(r))
    BY <1>1, <1>2, <1>5, SplitParts
  <2>2. /\ Follow(Content(d), Content(r) \cup Content(buffer_))
        /\ Follow(Content(r), Content(buffer_))
    BY <1>1, <2>1 DEF Follow
  <2> QED
    BY <1>4, <2>1, <2>2
<1>6. CASE k = 1 /\ Head(ready).what = "read_continue"
  <2>1. Head(ready).bytes = a
    <3>1. ready # <<>> /\ Head(ready).id = readId_
      BY <1>6, ServesFacts
    <3>2. 1 \in AnswersTo(ready, readId_) /\ Head(ready) = ready[1]
      BY <1>6, <3>1, HeadOf DEF AnswersTo
    <3> QED
      BY <1>1, <3>2 DEF OneAnswer
  <2>2. CASE d = a /\ r = readBuffer_
    BY <1>1, <1>4, <2>2
  <2>3. CASE d = dst_ \o a /\ r = readBuffer_
    <3>1. Content(d) = Content(dst_) \cup Content(a)
      BY <1>2, <2>3, ContentConcat
    <3>2. Follow(Content(dst_), Content(a))
      BY <1>1 DEF Follow
    <3>3. Ascending(d)
      BY <1>1, <1>2, <2>3, <3>2, AscendingConcat
    <3>4. Follow(Content(d), Content(r) \cup Content(buffer_))
      BY <1>1, <2>3, <3>1 DEF Follow
    <3> QED
      BY <1>1, <1>4, <2>3, <3>1, <3>3, <3>4
  <2>4. ASSUME reads[readId_].kind = "until", NEW taken, NEW left, Splits(a, taken, left),
               d = dst_ \o taken, r = readBuffer_ \o left
        PROVE  /\ Order(d, <<>>, r, buffer_)
               /\ Behind(d, <<>>, r, buffer_) \subseteq Behind(dst_, a, readBuffer_, buffer_)
    <3>1. /\ Content(taken) \subseteq Content(a) /\ Content(left) \subseteq Content(a)
          /\ Ascending(taken) /\ Ascending(left) /\ Follow(Content(taken), Content(left))
          /\ taken \in Seq(ByteNames) /\ left \in Seq(ByteNames)
      BY <1>1, <2>4, SplitParts
    <3>2. readBuffer_ = <<>> /\ r = left
      <4>1. readId_ # 0
        BY <1>6, ServesFacts
      <4>2. readBuffer_ = <<>>
        BY <2>4, <4>1 DEF UntilInv, UntilRead
      <4> QED
        BY <2>4, <3>1, <4>2
    <3>3. Content(d) = Content(dst_) \cup Content(taken)
      BY <1>2, <2>4, <3>1, ContentConcat
    <3>4. Follow(Content(dst_), Content(taken))
      BY <1>1, <3>1 DEF Follow
    <3>5. Ascending(d)
      BY <1>1, <1>2, <2>4, <3>1, <3>4, AscendingConcat
    <3>6. /\ Follow(Content(d), Content(r) \cup Content(buffer_))
          /\ Follow(Content(r), Content(buffer_))
      BY <1>1, <3>1, <3>2, <3>3 DEF Follow
    <3> QED
      BY <1>4, <3>1, <3>2, <3>3, <3>5, <3>6
  <2>5. \/ d = a /\ r = readBuffer_
        \/ d = dst_ \o a /\ r = readBuffer_
        \/ /\ reads[readId_].kind = "until"
           /\ \E taken, left : /\ Splits(a, taken, left)
                              /\ d = dst_ \o taken /\ r = readBuffer_ \o left
    <3>1. \/ d \in {Head(ready).bytes, dst_ \o Head(ready).bytes} /\ r = readBuffer_
          \/ /\ reads[readId_].kind = "until"
             /\ \E taken, left : /\ Splits(Head(ready).bytes, taken, left)
                                /\ d = dst_ \o taken /\ r = readBuffer_ \o left
      <4>1. k # 0 /\ Head(ready).what # "read_timeout"
        BY <1>6
      <4> QED
        BY <4>1, Zenon DEF AtHand
    <3> QED
      BY <2>1, <3>1, Zenon
  <2> QED
    BY ONLY <2>2, <2>3, <2>4, <2>5
<1>7. CASE d = dst_ /\ r = readBuffer_
  <2>1. Follow(Content(d), Content(r) \cup Content(buffer_))
    BY <1>1, <1>7 DEF Follow
  <2> QED
    BY <1>1, <1>4, <1>7, <2>1
<1> QED
  BY <1>5, <1>6, <1>7 DEF AtHand

(* do_read_some moves bytes along the way. *)
LEMMA GivenOrder ==
    ASSUME LoopInv, NEW d, NEW r \in Seq(ByteNames), Order(d, <<>>, r, buffer_),
           NEW taken, NEW tapped, Given(r, taken, tapped)
    PROVE  /\ Order(d, taken, readBuffer_', buffer_')
           /\ Behind(d, taken, readBuffer_', buffer_') \subseteq Behind(d, <<>>, r, buffer_)
<1>1. /\ Ascending(d) /\ Ascending(r) /\ Ascending(buffer_)
      /\ Follow(Content(d), Content(r) \cup Content(buffer_))
      /\ Follow(Content(r), Content(buffer_))
  BY DEF Order, Follow
<1>2. buffer_ \in Seq(ByteNames) /\ Content(<<>>) = {} /\ Ascending(<<>>)
  BY NoBytesAtAll DEF NoBytes, LoopInv, LoopTypes, WriterTypesOK
<1>3. CASE Splits(r, taken, readBuffer_') /\ buffer_' = buffer_
  <2>1. /\ Content(taken) \subseteq Content(r) /\ Content(readBuffer_') \subseteq Content(r)
        /\ Ascending(taken) /\ Ascending(readBuffer_')
        /\ Follow(Content(taken), Content(readBuffer_'))
    BY <1>1, <1>3, SplitParts
  <2>2. Order(d, taken, readBuffer_', buffer_')
    BY <1>1, <1>3, <2>1 DEF Order, Follow
  <2>3. Behind(d, taken, readBuffer_', buffer_') \subseteq Behind(d, <<>>, r, buffer_)
    BY <1>3, <2>1 DEF Behind
  <2> QED
    BY <2>2, <2>3
<1>4. CASE Splits(buffer_, taken, buffer_') /\ readBuffer_' = <<>>
  <2>1. /\ Content(taken) \subseteq Content(buffer_) /\ Content(buffer_') \subseteq Content(buffer_)
        /\ Ascending(taken) /\ Ascending(buffer_')
        /\ Follow(Content(taken), Content(buffer_'))
    BY <1>1, <1>2, <1>4, SplitParts
  <2>2. Order(d, taken, readBuffer_', buffer_')
    BY <1>1, <1>2, <1>4, <2>1 DEF Order, Follow
  <2>3. Behind(d, taken, readBuffer_', buffer_') \subseteq Behind(d, <<>>, r, buffer_)
    BY <1>2, <1>4, <2>1 DEF Behind
  <2> QED
    BY <2>2, <2>3
<1> QED
  BY <1>3, <1>4 DEF Given

(* The handlers that a served read appends. *)
LEMMA JoinedHandlers ==
    ASSUME LoopInv, Len(reads') \in Nat, Len(reads) <= Len(reads'),
           NEW timers \in {<<>>, readTimer_}, NEW e \in ReadKnown(Len(reads'))
    PROVE  /\ timers \o <<e>> \in Seq(LoopKnown(Len(writes), Len(reads')))
           /\ Len(timers \o <<e>>) \in 1..Len(timers \o <<e>>)
           /\ (timers \o <<e>>)[Len(timers \o <<e>>)] = e
           /\ \A i \in 1..Len(timers \o <<e>>) :
                 \/ i = Len(timers \o <<e>>)
                 \/ (timers \o <<e>>)[i] \in ReadTimeouts(Len(reads'))
<1>1. timers \in Seq(ReadTimeouts(Len(reads')))
  BY TimersType
<1>2. ReadTimeouts(Len(reads')) \subseteq ReadKnown(Len(reads'))
  BY DEF ReadTimeouts
<1>3. timers \in Seq(ReadKnown(Len(reads')))
  BY <1>1, <1>2, SeqGrowsIn
<1>4. ReadKnown(Len(reads')) \subseteq LoopKnown(Len(writes), Len(reads'))
  BY TimersType
<1>5. /\ timers \o <<e>> \in Seq(ReadKnown(Len(reads')))
      /\ Len(timers) \in Nat /\ Len(timers \o <<e>>) = Len(timers) + 1
      /\ (timers \o <<e>>)[Len(timers) + 1] = e
      /\ \A i \in 1..Len(timers) : (timers \o <<e>>)[i] = timers[i]
  BY <1>3
<1>6. timers \o <<e>> \in Seq(LoopKnown(Len(writes), Len(reads')))
  BY <1>4, <1>5, SeqGrowsIn
<1>7. \A i \in 1..Len(timers) : timers[i] \in ReadTimeouts(Len(reads'))
  BY <1>1
<1> QED
  BY <1>5, <1>6, <1>7

(* The other handlers of the queue when a read is served. *)
LEMMA OthersAnswer ==
    ASSUME LoopInv, LoopInv', NEW a, OneAnswer(ready, readId_, a), NEW k \in {0, 1}, Serves(k),
           k = 1 => Head(ready).what = "read_continue"
    PROVE  \A i \in AnswersTo(ready, Len(reads')) : i <= k
<1>1. /\ Len(reads) \in Nat /\ Len(reads') \in Nat /\ Len(writes) \in Nat /\ Len(ready) \in Nat
      /\ k = 1 => ready # <<>>
      /\ k = 0 => Len(reads') = Len(reads) + 1 /\ readId_ = 0
      /\ k = 1 => reads' = reads /\ readId_ = Len(reads) /\ Head(ready).id = readId_
  BY ServesFacts, LengthTypes
<1> SUFFICES ASSUME NEW i \in AnswersTo(ready, Len(reads')) PROVE i <= k
  OBVIOUS
<1>2. i \in 1..Len(ready) /\ ready[i].what = "read_continue" /\ ready[i].id = Len(reads')
  BY DEF AnswersTo
<1>3. CASE k = 0
  <2>1. ready[i] \in LoopKnown(Len(writes), Len(reads))
    BY <1>2 DEF LoopInv, LoopTypes
  <2>2. ready[i].id \in 1..Len(reads)
    BY <1>1, <1>2, <2>1, LoopFields
  <2> QED
    BY <1>1, <1>2, <1>3, <2>2
<1>4. CASE k = 1
  <2>1. Head(ready) = ready[1] /\ 1 \in 1..Len(ready)
    BY <1>1, <1>4, HeadOf
  <2>2. 1 \in AnswersTo(ready, readId_) /\ i \in AnswersTo(ready, readId_)
    BY <1>1, <1>2, <1>4, <2>1 DEF AnswersTo
  <2>3. i = 1
    BY <2>2 DEF OneAnswer
  <2> QED
    BY <1>4, <2>3
<1> QED
  BY <1>3, <1>4

(* No handler has the number 0, which says that there is no read. *)
LEMMA NoneToZero ==
    ASSUME NEW n \in Nat, NEW m \in Nat, NEW q \in Seq(LoopKnown(n, m)), NEW a
    PROVE  OneAnswer(q, 0, a)
<1>1. \A i \in 1..Len(q) : q[i].what = "read_continue" => q[i].id \in 1..m
  <2> SUFFICES ASSUME NEW i \in 1..Len(q), q[i].what = "read_continue"
               PROVE  q[i].id \in 1..m
    OBVIOUS
  <2>1. q[i] \in LoopKnown(n, m)
    OBVIOUS
  <2> QED
    BY <2>1, LoopFields
<1>2. AnswersTo(q, 0) = {}
  BY <1>1 DEF AnswersTo
<1> QED
  BY <1>2 DEF OneAnswer

LEMMA FlowAsks ==
    ASSUME LoopInv, LoopInv', UntilInv, NEW a \in Seq(ByteNames), FlowWith(a),
           NEW k \in {0, 1}, Serves(k), NEW timers \in {<<>>, readTimer_}, NEW d, NEW r,
           AtHand(k, d, r), NEW taken, NEW tapped, Asks(k, timers, d, r, taken, tapped)
    PROVE  FlowInv' /\ UntilInv'
<1> DEFINE e   == ReadHandler("read_continue", Len(reads'), taken, tapped)
           new == timers \o <<e>>
           X   == Behind(dst_, a, readBuffer_, buffer_)
           Y   == Behind(dst_', taken, readBuffer_', buffer_')
<1>1. /\ Len(reads) \in Nat /\ Len(reads') \in Nat /\ Len(reads') > 0 /\ Len(reads) <= Len(reads')
      /\ k = 1 => ready # <<>>
      /\ wire' = wire /\ handed' = handed /\ writes' = writes
  BY ServesFacts DEF Serves, Aside, request
<1>2. /\ Queue(k, new) /\ readId_' = Len(reads') /\ dst_' = d
      /\ Given(r, taken, tapped)
      /\ reads'[Len(reads')].kind = "until" /\ (k = 0 \/ readBuffer_ = <<>>) => r = <<>>
      /\ k = 1 => Head(ready).what = "read_continue"
  BY Zenon DEF Asks
<1>3. d \in Seq(ByteNames) /\ r \in Seq(ByteNames)
  BY <1>1, AtHandTypes
<1>4. taken \in Seq(ByteNames) /\ tapped \in BOOLEAN /\ (r = <<>> => readBuffer_' = <<>>)
  BY <1>2, <1>3, GivenTypes
<1>5. e \in ReadKnown(Len(reads')) /\ e.what = "read_continue" /\ e.bytes = taken
  BY <1>1, <1>4, ReadHandlerType
<1> HIDE DEF e
<1>6. /\ new \in Seq(LoopKnown(Len(writes), Len(reads'))) /\ Len(new) \in 1..Len(new)
      /\ new[Len(new)] = e
      /\ \A i \in 1..Len(new) : i = Len(new) \/ new[i].what = "read_timeout"
  <2>1. \A h \in ReadTimeouts(Len(reads')) : h.what = "read_timeout"
    BY DEF ReadTimeouts
  <2> QED
    BY <1>1, <1>5, <2>1, JoinedHandlers
<1> HIDE DEF new
<1>7. ready \in Seq(LoopKnown(Len(writes), Len(reads')))
  BY <1>1, TimersType
<1>8. OneAnswer(ready, readId_, a)
  BY DEF FlowWith, Flow
<1>9. OneAnswer(ready', readId_', taken)
  <2>1. \A i \in AnswersTo(ready, readId_') : i <= k
    BY <1>2, <1>8, OthersAnswer
  <2>2. \A i \in AnswersTo(new, readId_') : i = Len(new) /\ new[i].bytes = taken
    BY <1>5, <1>6 DEF AnswersTo
  <2> QED
    BY <1>2, <1>6, <1>7, <2>1, <2>2, NewAnswer
<1>10. Order(dst_', taken, readBuffer_', buffer_') /\ Y \subseteq X
  <2>1. /\ Order(d, <<>>, r, buffer_)
        /\ Behind(d, <<>>, r, buffer_) \subseteq Behind(dst_, a, readBuffer_, buffer_)
    BY HandOrder
  <2>2. /\ Order(d, taken, readBuffer_', buffer_')
        /\ Behind(d, taken, readBuffer_', buffer_') \subseteq Behind(d, <<>>, r, buffer_)
    BY <1>2, <1>3, <2>1, GivenOrder
  <2> QED
    BY <1>2, <2>1, <2>2
<1>11. Brings(new, CallbacksOf(new), X, Y)
  <2>1. CallbacksOf(new) = {}
    BY <1>5, <1>6 DEF CallbacksOf
  <2> QED
    BY <1>10, <2>1 DEF Brings
<1>12. handed' = IF k = 1 /\ Head(ready).what = "read_callback"
                 THEN handed \o Head(ready).bytes ELSE handed
  BY <1>1, <1>2
<1>13. FlowWith(taken)'
  BY <1>1, <1>2, <1>6, <1>7, <1>9, <1>10, <1>11, <1>12, FlowMoves
<1>14. UntilInv'
  <2> SUFFICES ASSUME reads'[Len(reads')].kind = "until" PROVE readBuffer_' = <<>>
    BY <1>2 DEF UntilInv, UntilRead
  <2>1. k = 0 \/ readBuffer_ = <<>>
    <3>1. CASE k = 1
      <4>1. readId_ # 0 /\ reads[readId_].kind = "until"
        BY <1>1, <3>1, ServesFacts
      <4> QED
        BY <4>1 DEF UntilInv, UntilRead
    <3> QED
      BY <3>1
  <2> QED
    BY <1>2, <1>4, <2>1
<1> QED
  BY <1>4, <1>13, <1>14 DEF FlowInv

LEMMA FlowFinishes ==
    ASSUME LoopInv, LoopInv', UntilInv, NEW a \in Seq(ByteNames), FlowWith(a),
           NEW k \in {0, 1}, Serves(k), NEW timers \in {<<>>, readTimer_}, NEW d, NEW r,
           AtHand(k, d, r), Finishes(k, timers, d, r)
    PROVE  FlowInv' /\ UntilInv'
<1> DEFINE e   == ReadHandler("read_callback", Len(reads'), d, FALSE)
           new == timers \o <<e>>
           X   == Behind(dst_, a, readBuffer_, buffer_)
           Y   == Behind(dst_', <<>>, readBuffer_', buffer_')
<1>1. /\ Len(reads) \in Nat /\ Len(reads') \in Nat /\ Len(reads') > 0 /\ Len(reads) <= Len(reads')
      /\ k = 1 => ready # <<>>
      /\ wire' = wire /\ handed' = handed /\ writes' = writes
  BY ServesFacts DEF Serves, Aside, request
<1>2. /\ Queue(k, new) /\ readId_' = 0 /\ dst_' = <<>>
      /\ readBuffer_' = r /\ buffer_' = buffer_
  BY Zenon DEF Finishes
<1>3. d \in Seq(ByteNames) /\ r \in Seq(ByteNames) /\ <<>> \in Seq(ByteNames)
  BY <1>1, AtHandTypes
<1>4. e \in ReadKnown(Len(reads')) /\ e.what = "read_callback" /\ e.bytes = d
  <2>1. e \in ReadKnown(Len(reads'))
    BY <1>1, <1>3, ReadHandlerType
  <2>2. e.what = "read_callback" /\ e.bytes = d
    BY DEF ReadHandler
  <2> QED
    BY <2>1, <2>2
<1> HIDE DEF e
<1>5. /\ new \in Seq(LoopKnown(Len(writes), Len(reads'))) /\ Len(new) \in 1..Len(new)
      /\ new[Len(new)] = e
      /\ \A i \in 1..Len(new) : i = Len(new) \/ new[i].what = "read_timeout"
  <2>1. \A h \in ReadTimeouts(Len(reads')) : h.what = "read_timeout"
    BY DEF ReadTimeouts
  <2> QED
    BY <1>1, <1>4, <2>1, JoinedHandlers
<1> HIDE DEF new
<1>6. ready \in Seq(LoopKnown(Len(writes), Len(reads')))
  BY <1>1, TimersType
<1>7. OneAnswer(ready', readId_', <<>>)
  <2>1. ready' \in Seq(LoopKnown(Len(writes'), Len(reads'))) /\ Len(writes') \in Nat
    BY <1>1, LengthTypes DEF LoopInv, LoopTypes
  <2> QED
    BY <1>1, <1>2, <2>1, NoneToZero
<1>8. /\ Order(d, <<>>, r, buffer_)
      /\ Behind(d, <<>>, r, buffer_) \subseteq X
  BY HandOrder
<1>9. /\ Ascending(d) /\ Ascending(r) /\ Ascending(buffer_)
      /\ Follow(Content(d), Content(r) \cup Content(buffer_))
      /\ Follow(Content(r), Content(buffer_))
      /\ Content(d) \cup Content(r) \cup Content(buffer_) \subseteq X
      /\ Content(<<>>) = {} /\ Ascending(<<>>)
  BY <1>8, NoBytesAtAll DEF NoBytes, Order, Behind, Follow
<1>10. Order(dst_', <<>>, readBuffer_', buffer_')
  BY <1>2, <1>9 DEF Order, Follow
<1>11. Y = Content(r) \cup Content(buffer_)
  BY <1>2, <1>9 DEF Behind
<1>12. Brings(new, CallbacksOf(new), X, Y)
  <2>1. \A i \in CallbacksOf(new) : i = Len(new) /\ new[i].bytes = d
    BY <1>4, <1>5 DEF CallbacksOf
  <2> HIDE DEF X, Y
  <2> QED
    BY <1>9, <1>11, <2>1 DEF Brings
<1>13. handed' = IF k = 1 /\ Head(ready).what = "read_callback"
                 THEN handed \o Head(ready).bytes ELSE handed
  <2>1. k = 1 => Head(ready).what # "read_callback"
    BY DEF AtHand
  <2> QED
    BY <1>1, <2>1
<1>14. FlowWith(<<>>)'
  BY <1>1, <1>2, <1>3, <1>5, <1>6, <1>7, <1>10, <1>12, <1>13, FlowMoves
<1>15. UntilInv'
  BY <1>2 DEF UntilInv, UntilRead
<1> QED
  BY <1>3, <1>14, <1>15 DEF FlowInv

(* A calm step adds timeouts only; bytes may be dropped where they wait. *)
LEMMA CalmMoves ==
    ASSUME LoopInv, NEW k, NEW new, Calm(k, new)
    PROVE  /\ k \in {0, 1} /\ (k = 1 => ready # <<>>) /\ Queue(k, new)
           /\ UNCHANGED <<wire, writes, reads, readId_, dst_>>
           /\ new \in Seq(LoopKnown(Len(writes'), Len(reads')))
           /\ ready \in Seq(LoopKnown(Len(writes'), Len(reads')))
           /\ \A i \in 1..Len(new) : new[i].what = "read_timeout" /\ new[i] \in ReadTimeouts(Len(reads))
           /\ CallbacksOf(new) = {} /\ TappedOf(new) = {} /\ \A id : AnswersTo(new, id) = {}
           /\ \/ buffer_' = buffer_
              \/ buffer_' = <<>>
           /\ \/ readBuffer_' = readBuffer_
              \/ readBuffer_' = <<>>
<1>1. /\ Queue(k, new) /\ new \in {<<>>, readTimer_} /\ Aside
      /\ UNCHANGED <<reads, readId_, dst_>>
      /\ readBuffer_' \in {readBuffer_, <<>>} /\ buffer_' \in {buffer_, <<>>}
  BY Zenon DEF Calm
<1>2. k \in {0, 1} /\ (k = 1 => ready # <<>>)
  <2>1. ready # <<>> \/ Len(ready) = 0
    OBVIOUS
  <2> QED
    BY <1>1, <2>1 DEF Queue
<1>3. wire' = wire /\ writes' = writes
  BY <1>1 DEF Aside, request
<1>4. Len(reads') \in Nat /\ Len(reads) <= Len(reads')
  BY <1>1, LengthTypes
<1>5. /\ \A timers \in {<<>>, readTimer_} :
            /\ timers \in Seq(ReadTimeouts(Len(reads')))
            /\ timers \in Seq(LoopKnown(Len(writes), Len(reads')))
      /\ ready \in Seq(LoopKnown(Len(writes), Len(reads')))
  BY <1>4, TimersType
<1>6. new \in Seq(ReadTimeouts(Len(reads))) /\ new \in Seq(LoopKnown(Len(writes), Len(reads)))
  BY <1>1, <1>5
<1>7. \A i \in 1..Len(new) : new[i].what = "read_timeout" /\ new[i] \in ReadTimeouts(Len(reads))
  <2>1. \A i \in 1..Len(new) : new[i] \in ReadTimeouts(Len(reads))
    BY <1>6
  <2>2. \A h \in ReadTimeouts(Len(reads)) : h.what = "read_timeout"
    BY DEF ReadTimeouts
  <2> QED
    BY <2>1, <2>2
<1>8. CallbacksOf(new) = {} /\ TappedOf(new) = {} /\ \A id : AnswersTo(new, id) = {}
  BY <1>7 DEF CallbacksOf, TappedOf, AnswersTo
<1> QED
  BY <1>1, <1>2, <1>3, <1>5, <1>6, <1>7, <1>8

LEMMA FlowCalm ==
    ASSUME LoopInv, LoopInv', UntilInv, NEW a \in Seq(ByteNames), FlowWith(a), NEW k, NEW new,
           Calm(k, new)
    PROVE  FlowInv' /\ UntilInv'
<1> DEFINE X == Behind(dst_, a, readBuffer_, buffer_)
           Y == Behind(dst_', a, readBuffer_', buffer_')
<1>1. /\ Queue(k, new)
      /\ UNCHANGED <<wire, writes, reads, readId_, dst_>>
      /\ new \in Seq(LoopKnown(Len(writes'), Len(reads')))
      /\ ready \in Seq(LoopKnown(Len(writes'), Len(reads')))
      /\ CallbacksOf(new) = {} /\ AnswersTo(new, readId_) = {}
      /\ buffer_' = buffer_ \/ buffer_' = <<>>
      /\ readBuffer_' = readBuffer_ \/ readBuffer_' = <<>>
  BY CalmMoves
<1>2. handed' = IF k = 1 /\ Head(ready).what = "read_callback"
                THEN handed \o Head(ready).bytes ELSE handed
  BY Zenon DEF Calm
<1>3. OneAnswer(ready', readId_', a)
  <2>1. OneAnswer(ready, readId_, a)
    BY DEF FlowWith, Flow
  <2> QED
    BY <1>1, <2>1, SameAnswer
<1>4. /\ Ascending(dst_) /\ Ascending(a) /\ Ascending(readBuffer_) /\ Ascending(buffer_)
      /\ Follow(Content(dst_), Content(a) \cup Content(readBuffer_) \cup Content(buffer_))
      /\ Follow(Content(a), Content(readBuffer_) \cup Content(buffer_))
      /\ Follow(Content(readBuffer_), Content(buffer_))
      /\ Content(<<>>) = {} /\ Ascending(<<>>)
  BY NoBytesAtAll DEF NoBytes, FlowWith, Flow, Order
<1>5. /\ Ascending(readBuffer_') /\ Ascending(buffer_')
      /\ Content(readBuffer_') \subseteq Content(readBuffer_)
      /\ Content(buffer_') \subseteq Content(buffer_)
  BY <1>1, <1>4
<1>6. Order(dst_', a, readBuffer_', buffer_')
  BY <1>1, <1>4, <1>5 DEF Order, Follow
<1>7. Y \subseteq X
  BY <1>1, <1>5 DEF Behind
<1>8. Brings(new, CallbacksOf(new), X, Y)
  BY <1>1, <1>7 DEF Brings
<1>9. FlowWith(a)'
  BY <1>1, <1>2, <1>3, <1>6, <1>8, FlowMoves
<1>10. UntilInv'
  BY <1>1 DEF UntilInv, UntilRead
<1> QED
  BY <1>9, <1>10 DEF FlowInv

(* A step of the writer adds handlers of its own, and bytes after all others. *)
LEMMA FeedMoves ==
    ASSUME LoopInv, LoopInv', Feeds
    PROVE  /\ \E k, new :
                 /\ k \in {0, 1} /\ Queue(k, new)
                 /\ k = 1 => Head(ready).what \in {"continue", "timeout", "callback"}
                 /\ new \in Seq(LoopKnown(Len(writes'), Len(reads')))
                 /\ ready \in Seq(LoopKnown(Len(writes'), Len(reads')))
                 /\ \A i \in 1..Len(new) : new[i].what \in {"continue", "timeout", "callback"}
                 /\ CallbacksOf(new) = {} /\ TappedOf(new) = {}
                 /\ \A id : AnswersTo(new, id) = {}
           /\ UNCHANGED <<reads, readId_, dst_, readTimer_, readBuffer_, rxDumped, handed, dumping,
                          dumps>>
           /\ \E w \in Seq(ByteNames) :
                 /\ Content(wire') = Content(wire) \cup Content(w)
                 /\ Content(buffer_') = Content(buffer_) \cup Content(w)
                 /\ Follow(Content(wire), Content(w))
                 /\ Ascending(buffer_) /\ Content(buffer_) \subseteq Content(wire) =>
                       Ascending(buffer_')
<1>1. PICK k \in {0, 1}, new \in Seq(Known(Len(writes'))) :
         /\ Queue(k, new)
         /\ k = 1 => Head(ready).what \in {"continue", "timeout", "callback"}
  BY DEF Feeds
<1>2. PICK w : Grows(w)
  BY DEF Feeds
<1>3. UNCHANGED <<dumping, dumps, reading>>
  BY DEF Feeds
<1>4. UNCHANGED <<reads, readId_, dst_, readTimer_, readBuffer_, rxDumped, handed, dumping, dumps>>
  BY <1>3 DEF reading
<1>5. /\ Len(writes) \in Nat /\ Len(writes') \in Nat /\ Len(writes) <= Len(writes')
      /\ Len(reads) \in Nat /\ reads' = reads
      /\ ready \in Seq(LoopKnown(Len(writes), Len(reads)))
  BY <1>4, LengthTypes DEF Feeds, LoopInv, LoopTypes
<1>6. ready \in Seq(LoopKnown(Len(writes'), Len(reads')))
  <2>1. LoopKnown(Len(writes), Len(reads)) \subseteq LoopKnown(Len(writes'), Len(reads'))
    BY <1>5, LoopKnownGrows
  <2> QED
    BY <1>5, <2>1, SeqGrowsIn
<1>7. new \in Seq(LoopKnown(Len(writes'), Len(reads')))
  <2>1. Known(Len(writes')) \subseteq LoopKnown(Len(writes'), Len(reads'))
    BY DEF LoopKnown
  <2> QED
    BY <2>1, SeqGrowsIn
<1>8. \A i \in 1..Len(new) : new[i].what \in {"continue", "timeout", "callback"}
  <2>1. \A i \in 1..Len(new) : new[i] \in Known(Len(writes'))
    OBVIOUS
  <2>2. \A h \in Known(Len(writes')) : h.what \in {"continue", "timeout", "callback"}
    BY DEF Known, Handlers
  <2> QED
    BY <2>1, <2>2
<1>9. CallbacksOf(new) = {} /\ TappedOf(new) = {} /\ \A id : AnswersTo(new, id) = {}
  BY <1>8 DEF CallbacksOf, TappedOf, AnswersTo
<1>10. /\ w \in Seq(ByteNames) /\ buffer_' = buffer_ \o w /\ wire' = wire \o w
       /\ Ascending(w) /\ Follow(Content(wire), Content(w))
       /\ buffer_ \in Seq(ByteNames) /\ wire \in Seq(ByteNames)
  BY <1>2 DEF Grows, LoopInv, LoopTypes, WriterTypesOK
<1>11. /\ Content(wire') = Content(wire) \cup Content(w)
       /\ Content(buffer_') = Content(buffer_) \cup Content(w)
  BY <1>10, ContentConcat
<1>12. ASSUME Ascending(buffer_), Content(buffer_) \subseteq Content(wire)
       PROVE  Ascending(buffer_')
  <2>1. Follow(Content(buffer_), Content(w))
    BY <1>10, <1>12 DEF Follow
  <2> QED
    BY <1>10, <1>12, <2>1, AscendingConcat
<1>13. \E l, more :
          /\ l \in {0, 1} /\ Queue(l, more)
          /\ l = 1 => Head(ready).what \in {"continue", "timeout", "callback"}
          /\ more \in Seq(LoopKnown(Len(writes'), Len(reads')))
          /\ ready \in Seq(LoopKnown(Len(writes'), Len(reads')))
          /\ \A i \in 1..Len(more) : more[i].what \in {"continue", "timeout", "callback"}
          /\ CallbacksOf(more) = {} /\ TappedOf(more) = {}
          /\ \A id : AnswersTo(more, id) = {}
  <2>1. k \in {0, 1}
    OBVIOUS
  <2> QED
    BY ONLY <1>1, <1>6, <1>7, <1>8, <1>9, <2>1, Zenon
<1> QED
  BY <1>4, <1>10, <1>11, <1>12, <1>13, Zenon

LEMMA FlowFeeds ==
    ASSUME LoopInv, LoopInv', UntilInv, NEW a \in Seq(ByteNames), FlowWith(a), Feeds
    PROVE  FlowInv' /\ UntilInv'
<1> DEFINE X == Behind(dst_, a, readBuffer_, buffer_)
<1>1. PICK k, new :
         /\ k \in {0, 1} /\ Queue(k, new)
         /\ new \in Seq(LoopKnown(Len(writes'), Len(reads')))
         /\ ready \in Seq(LoopKnown(Len(writes'), Len(reads')))
         /\ CallbacksOf(new) = {}
         /\ \A id : AnswersTo(new, id) = {}
  BY FeedMoves
<1>2. UNCHANGED <<reads, readId_, dst_, readBuffer_, handed>>
  BY FeedMoves
<1>3. PICK w \in Seq(ByteNames) :
         /\ Content(wire') = Content(wire) \cup Content(w)
         /\ Content(buffer_') = Content(buffer_) \cup Content(w)
         /\ Follow(Content(wire), Content(w))
         /\ Ascending(buffer_) /\ Content(buffer_) \subseteq Content(wire) => Ascending(buffer_')
  BY FeedMoves
<1>4. /\ OneAnswer(ready, readId_, a) /\ Order(dst_, a, readBuffer_, buffer_)
      /\ Line(handed, ready, CallbacksOf(ready), X)
      /\ Inside(handed, ready, CallbacksOf(ready), X, Content(wire))
  BY DEF FlowWith, Flow
<1>5. OneAnswer(ready', readId_', a)
  BY <1>1, <1>2, <1>4, SameAnswer
<1>6. X \subseteq Content(wire)
  BY <1>4 DEF Inside
<1>7. Order(dst_', a, readBuffer_', buffer_')
  <2>1. /\ Ascending(dst_) /\ Ascending(a) /\ Ascending(readBuffer_) /\ Ascending(buffer_)
        /\ Follow(Content(dst_), Content(a) \cup Content(readBuffer_) \cup Content(buffer_))
        /\ Follow(Content(a), Content(readBuffer_) \cup Content(buffer_))
        /\ Follow(Content(readBuffer_), Content(buffer_))
    BY <1>4 DEF Order
  <2>2. /\ Content(dst_) \cup Content(a) \cup Content(readBuffer_) \cup Content(buffer_)
              \subseteq Content(wire)
    BY <1>6 DEF Behind
  <2>3. Ascending(buffer_')
    BY <1>3, <2>1, <2>2
  <2>4. /\ Follow(Content(dst_), Content(a) \cup Content(readBuffer_) \cup Content(buffer_'))
        /\ Follow(Content(a), Content(readBuffer_) \cup Content(buffer_'))
        /\ Follow(Content(readBuffer_), Content(buffer_'))
    BY <1>3, <2>1, <2>2 DEF Follow
  <2> QED
    BY <1>2, <2>1, <2>3, <2>4 DEF Order
<1> HIDE DEF X
<1>8. /\ Line(handed, ready', CallbacksOf(ready'), X)
      /\ Inside(handed, ready', CallbacksOf(ready'), X, Content(wire))
  <2>1. Shifted(k, Len(ready), ready, ready', new,
                CallbacksOf(ready), CallbacksOf(new), CallbacksOf(ready'))
    BY <1>1, SelectedMove
  <2>2. Brings(new, CallbacksOf(new), X, X)
    BY <1>1 DEF Brings
  <2>3. HandsOver(k, ready, CallbacksOf(ready), handed, handed)
    BY DEF HandsOver
  <2> QED
    BY <1>4, <2>1, <2>2, <2>3, LineMoves
<1>9. /\ Line(handed, ready', CallbacksOf(ready'), X \cup Content(w))
      /\ Inside(handed, ready', CallbacksOf(ready'), X \cup Content(w),
                Content(wire) \cup Content(w))
  BY <1>3, <1>8, LineGains
<1>10. Behind(dst_', a, readBuffer_', buffer_') = X \cup Content(w)
  BY <1>2, <1>3 DEF Behind, X
<1>11. FlowWith(a)'
  BY <1>2, <1>3, <1>5, <1>7, <1>9, <1>10 DEF FlowWith, Flow
<1>12. UntilInv'
  BY <1>2 DEF UntilInv, UntilRead
<1> QED
  BY <1>11, <1>12 DEF FlowInv

(* Every step keeps the bytes in order. *)
LEMMA FlowStep ==
    ASSUME NoWrap, ~SlowCaller, LoopInv, UntilInv, FlowInv, [LoopNext]_loopVars
    PROVE  FlowInv' /\ UntilInv'
<1>1. /\ LoopInv'
      /\ \/ Feeds
         \/ \E k, new : Calm(k, new)
         \/ \E k \in {0, 1} : ReadServed(k)
  BY LoopStep
<1>2. PICK a \in Seq(ByteNames) : FlowWith(a)
  BY DEF FlowInv
<1>3. CASE Feeds
  BY <1>1, <1>2, <1>3, FlowFeeds
<1>4. ASSUME NEW k, NEW new, Calm(k, new) PROVE FlowInv' /\ UntilInv'
  BY <1>1, <1>2, <1>4, FlowCalm
<1>5. ASSUME NEW k \in {0, 1}, ReadServed(k) PROVE FlowInv' /\ UntilInv'
  <2>1. PICK timers, d, r :
           /\ timers \in {<<>>, readTimer_} /\ (k = 1 => timers = <<>>)
           /\ AtHand(k, d, r)
           /\ \/ Finishes(k, timers, d, r)
              \/ \E taken, tapped : Asks(k, timers, d, r, taken, tapped)
    BY <1>5 DEF ReadServed
  <2>2. Serves(k)
    BY <1>5 DEF ReadServed
  <2>3. CASE Finishes(k, timers, d, r)
    BY <1>1, <1>2, <2>1, <2>2, <2>3, FlowFinishes
  <2>4. ASSUME NEW taken, NEW tapped, Asks(k, timers, d, r, taken, tapped)
        PROVE  FlowInv' /\ UntilInv'
    BY <1>1, <1>2, <2>1, <2>2, <2>4, FlowAsks
  <2> QED
    BY <2>1, <2>3, <2>4
<1> QED
  BY <1>1, <1>3, <1>4, <1>5

-----------------------------------------------------------------------------
(* What the user is told *)

LEMMA FlowImpliesOrder == ASSUME LoopInv, FlowInv PROVE PipelineInOrder
<1>1. PICK a \in Seq(ByteNames) : FlowWith(a)
  BY DEF FlowInv
<1>2. /\ OneAnswer(ready, readId_, a) /\ Order(dst_, a, readBuffer_, buffer_)
      /\ Line(handed, ready, CallbacksOf(ready), Behind(dst_, a, readBuffer_, buffer_))
  BY <1>1 DEF FlowWith, Flow
<1>3. Callbacks = CallbacksOf(ready) /\ Answers = AnswersTo(ready, readId_)
  BY DEF Callbacks, CallbacksOf, Answers, AnswersTo
<1>4. /\ Ascending(dst_) /\ Ascending(a) /\ Ascending(readBuffer_) /\ Ascending(buffer_)
      /\ Follow(Content(dst_), Content(a) \cup Content(readBuffer_) \cup Content(buffer_))
      /\ Follow(Content(a), Content(readBuffer_) \cup Content(buffer_))
      /\ Follow(Content(readBuffer_), Content(buffer_))
  BY <1>2 DEF Order
<1>5. /\ Ascending(handed)
      /\ \A i \in Callbacks :
            /\ Ascending(ready[i].bytes)
            /\ Follow(Content(handed), Content(ready[i].bytes))
            /\ Follow(Content(ready[i].bytes), Behind(dst_, a, readBuffer_, buffer_))
      /\ \A i, j \in Callbacks :
            i < j => Follow(Content(ready[i].bytes), Content(ready[j].bytes))
      /\ Follow(Content(handed), Behind(dst_, a, readBuffer_, buffer_))
  BY <1>2, <1>3 DEF Line
<1>6. \A i, j \in Answers : i = j
  BY <1>2, <1>3 DEF OneAnswer
<1>7. \A i \in Answers : ready[i].bytes = a
  BY <1>2, <1>3 DEF OneAnswer
<1>8. \A bytes \in {handed, dst_, readBuffer_, buffer_} : Ascending(bytes)
  BY <1>4, <1>5
<1>9. \A i \in Callbacks \cup Answers : Ascending(ready[i].bytes)
  BY <1>4, <1>5, <1>7
<1>10. /\ Brought(Answers) \subseteq Content(a)
       /\ \A x \in Brought(Callbacks) : \E i \in Callbacks : x \in Content(ready[i].bytes)
  BY <1>7 DEF Brought
<1>11. /\ Follow(Content(handed), Brought(Callbacks))
       /\ Follow(Brought(Callbacks), Behind(dst_, a, readBuffer_, buffer_))
  BY <1>5, <1>10 DEF Follow
<1>12. /\ Follow(Content(handed), Content(dst_)) /\ Follow(Content(handed), Brought(Answers))
       /\ Follow(Content(handed), Content(readBuffer_)) /\ Follow(Content(handed), Content(buffer_))
       /\ Follow(Brought(Callbacks), Content(dst_)) /\ Follow(Brought(Callbacks), Brought(Answers))
       /\ Follow(Brought(Callbacks), Content(readBuffer_))
       /\ Follow(Brought(Callbacks), Content(buffer_))
  BY <1>5, <1>10, <1>11 DEF Follow, Behind
<1>13. /\ Follow(Content(dst_), Brought(Answers)) /\ Follow(Content(dst_), Content(readBuffer_))
       /\ Follow(Content(dst_), Content(buffer_))
       /\ Follow(Brought(Answers), Content(readBuffer_)) /\ Follow(Brought(Answers), Content(buffer_))
       /\ Follow(Content(readBuffer_), Content(buffer_))
  BY <1>4, <1>10 DEF Follow
<1>14. \A k, l \in 1..Len(Stages) : k < l => Follow(Stages[k], Stages[l])
  <2>1. /\ Len(Stages) = 6
        /\ Stages[1] = Content(handed) /\ Stages[2] = Brought(Callbacks)
        /\ Stages[3] = Content(dst_) /\ Stages[4] = Brought(Answers)
        /\ Stages[5] = Content(readBuffer_) /\ Stages[6] = Content(buffer_)
    BY DEF Stages
  <2> SUFFICES ASSUME NEW k \in 1..6, NEW l \in 1..6, k < l PROVE Follow(Stages[k], Stages[l])
    BY <2>1
  <2>2. /\ k \in {1, 2, 3, 4, 5}
        /\ k = 1 => l \in {2, 3, 4, 5, 6}
        /\ k = 2 => l \in {3, 4, 5, 6}
        /\ k = 3 => l \in {4, 5, 6}
        /\ k = 4 => l \in {5, 6}
        /\ k = 5 => l = 6
    OBVIOUS
  <2>3. k = 1 => Follow(Stages[k], Stages[l])
    BY <1>11, <1>12, <2>1, <2>2
  <2>4. k = 2 => Follow(Stages[k], Stages[l])
    BY <1>12, <2>1, <2>2
  <2>5. k \in {3, 4, 5} => Follow(Stages[k], Stages[l])
    BY <1>13, <2>1, <2>2
  <2> QED
    BY <2>2, <2>3, <2>4, <2>5
<1> QED
  BY <1>5, <1>6, <1>8, <1>9, <1>14 DEF PipelineInOrder

-----------------------------------------------------------------------------
(* The beginning *)

LEMMA LoopInitInv == ASSUME LoopInit PROVE LoopInv /\ FlowInv /\ UntilInv /\ DumpInv
<1>1. /\ Init /\ reads = <<>> /\ readId_ = 0 /\ dst_ = <<>> /\ readTimer_ = <<>>
      /\ readBuffer_ = <<>> /\ rxDumped = <<>> /\ handed = <<>>
  BY Zenon DEF LoopInit
<1>2. /\ transport = "string" /\ link = "open" /\ buffer_ = <<>> /\ wire = <<>> /\ ready = <<>>
      /\ writeId_ = 0 /\ requestedSize_ = 0 /\ processed_ = 0 /\ timer_ = <<>>
      /\ dumping \in BOOLEAN /\ dumps = 0 /\ writes = <<>>
      /\ mine = [t \in Threads |-> 0]
      /\ pc = [t \in Threads |-> IF t = Worker THEN "loop" ELSE "idle"]
  BY <1>1, LoopAssumption, WriterAssumption DEF Init, DevicesInit
<1>3. /\ \A S : <<>> \in Seq(S)
      /\ Len(<<>>) = 0 /\ 1..Len(<<>>) = {} /\ 0 \in Nat
      /\ Capacity \in Nat /\ MaxReads \in Nat /\ Content(<<>>) = {} /\ Ascending(<<>>)
  BY DevicesAssumption, LoopAssumption, NoBytesAtAll DEF NoBytes
<1>4. WriterTypesOK
  <2>1. /\ mine \in [Threads -> Nat]
        /\ pc \in [Threads -> CallerStates \cup WorkerStates]
    BY <1>2 DEF CallerStates, WorkerStates
  <2> QED
    BY <1>2, <1>3, <2>1 DEF WriterTypesOK
<1>5. ReaderTypesOK
  BY <1>1, <1>3 DEF ReaderTypesOK
<1>6. WriterInv
  <2>1. OutcomeInv
    BY <1>1, WriterAssumption DEF Init, OutcomeInv, Numbered, OneOutcome, Busy
  <2>2. /\ \A t \in Threads : pc[t] # "issue"
        /\ Worker \in Threads => pc[Worker] = "loop"
    BY <1>2
  <2>3. ~InHandler
    BY <2>2 DEF InHandler, Threads
  <2>4. ToIssue /\ Executing /\ Progress /\ Written
    BY <1>2, <1>3, <2>2, <2>3 DEF ToIssue, Executing, Progress, Written, Busy
  <2> QED
    BY <2>1, <2>4 DEF WriterInv
<1>7. LoopInv
  BY <1>2, <1>3, <1>4, <1>5, <1>6 DEF LoopInv, LoopTypes
<1>8. \A S : Line(<<>>, ready, {}, {}) /\ Inside(<<>>, ready, {}, {}, S)
  BY <1>3 DEF Line, Inside, Follow
<1>9. CallbacksOf(ready) = {} /\ TappedOf(ready) = {} /\ AnswersTo(ready, readId_) = {}
  BY <1>2, <1>3 DEF CallbacksOf, TappedOf, AnswersTo
<1>10. FlowWith(<<>>)
  <2>1. Order(dst_, <<>>, readBuffer_, buffer_)
    BY <1>1, <1>2, <1>3 DEF Order, Follow
  <2>2. Behind(dst_, <<>>, readBuffer_, buffer_) = {}
    BY <1>1, <1>2, <1>3 DEF Behind
  <2>3. OneAnswer(ready, readId_, <<>>)
    BY <1>9 DEF OneAnswer
  <2> QED
    BY <1>1, <1>8, <1>9, <2>1, <2>2, <2>3 DEF FlowWith, Flow
<1>11. FlowInv /\ UntilInv
  BY <1>1, <1>3, <1>10 DEF FlowInv, UntilInv
<1>12. DumpLine
  BY <1>1, <1>2, <1>3, <1>8, <1>9 DEF DumpLine
<1>13. DumpCovers
  BY <1>1, <1>2, <1>3 DEF DumpCovers, Covers
<1> QED
  BY <1>7, <1>11, <1>12, <1>13 DEF DumpInv

-----------------------------------------------------------------------------
(* The dump file of the reader *)

LEMMA TapsHandOver ==
    ASSUME LoopInv, NEW k \in {0, 1}, k = 1 => ready # <<>>, RxTaps(k)
    PROVE  HandsOver(k, ready, TappedOf(ready), rxDumped, rxDumped')
<1>1. CASE rxDumped' = rxDumped
  BY <1>1 DEF HandsOver
<1>2. CASE /\ k = 1 /\ Head(ready).what = "read_continue" /\ Head(ready).dump
           /\ rxDumped' = rxDumped \o Head(ready).bytes
  <2>1. /\ ready # <<>> /\ Head(ready) = ready[1] /\ 1 \in 1..Len(ready)
        /\ Head(ready).bytes \in Seq(ByteNames)
    BY <1>2, HeadOf, HeadBytes
  <2>2. 1 \in TappedOf(ready)
    BY <1>2, <2>1 DEF TappedOf
  <2>3. rxDumped \in Seq(ByteNames)
    BY DEF LoopInv, LoopTypes, ReaderTypesOK
  <2> QED
    BY <1>2, <2>1, <2>2, <2>3 DEF HandsOver
<1> QED
  BY <1>1, <1>2 DEF RxTaps, RxDumpCallback

(* The line into the dump file in a step that leaves the memory's past alone. *)
LEMMA DumpMoves ==
    ASSUME LoopInv, LoopInv', DumpLine, NEW k,
           NEW new \in Seq(LoopKnown(Len(writes'), Len(reads'))),
           ready \in Seq(LoopKnown(Len(writes'), Len(reads'))), Queue(k, new), wire' = wire,
           Brings(new, TappedOf(new), Content(buffer_), Content(buffer_')),
           \/ HandsOver(k, ready, TappedOf(ready), rxDumped, rxDumped')
           \/ rxDumped' = <<>>
    PROVE  DumpLine'
<1>1. Shifted(k, Len(ready), ready, ready', new,
              TappedOf(ready), TappedOf(new), TappedOf(ready'))
  BY SelectedMove
<1>2. /\ Line(rxDumped, ready, TappedOf(ready), Content(buffer_))
      /\ Inside(rxDumped, ready, TappedOf(ready), Content(buffer_), Content(wire))
  BY DEF DumpLine
<1>3. Content(wire') = Content(wire)
  OBVIOUS
<1>4. CASE HandsOver(k, ready, TappedOf(ready), rxDumped, rxDumped')
  <2>1. /\ Line(rxDumped', ready', TappedOf(ready'), Content(buffer_'))
        /\ Inside(rxDumped', ready', TappedOf(ready'), Content(buffer_'), Content(wire))
    BY <1>1, <1>2, <1>4, LineMoves
  <2> QED
    BY <1>3, <2>1 DEF DumpLine
<1>5. CASE rxDumped' = <<>>
  <2>1. /\ Line(<<>>, ready, TappedOf(ready), Content(buffer_))
        /\ Inside(<<>>, ready, TappedOf(ready), Content(buffer_), Content(wire))
    BY <1>2, NoBytesAtAll DEF NoBytes, Line, Inside, Follow
  <2>2. HandsOver(k, ready, TappedOf(ready), <<>>, <<>>)
    BY DEF HandsOver
  <2>3. /\ Line(<<>>, ready', TappedOf(ready'), Content(buffer_'))
        /\ Inside(<<>>, ready', TappedOf(ready'), Content(buffer_'), Content(wire))
    BY <1>1, <2>1, <2>2, LineMoves
  <2> QED
    BY <1>3, <1>5, <2>3 DEF DumpLine
<1> QED
  BY <1>4, <1>5

(* What the queue covers stays covered while the file grows. *)
LEMMA CoversMore ==
    ASSUME NEW T, ready \in Seq(T), NEW k, NEW new \in Seq(T), Queue(k, new), NEW D, NEW E,
           D \subseteq E, Covers(ready, D), Covers(new, E)
    PROVE  Covers(ready', E)
<1>1. \A i \in 1..Len(ready') :
         \/ i + k \in 1..Len(ready) /\ ready'[i] = ready[i + k]
         \/ /\ i + k - Len(ready) \in 1..Len(new)
            /\ ready'[i] = new[i + k - Len(ready)]
  BY QueueParts
<1> QED
  BY <1>1 DEF Covers

LEMMA TapsCover ==
    ASSUME LoopInv, NEW k \in {0, 1}, k = 1 => ready # <<>>, RxTaps(k)
    PROVE  /\ Content(rxDumped) \subseteq Content(rxDumped')
           /\ k = 1 /\ Head(ready).what = "read_continue" /\ Covers(ready, Content(rxDumped))
              /\ dumping
              => Content(Head(ready).bytes) \subseteq Content(rxDumped')
<1>1. rxDumped \in Seq(ByteNames)
  BY DEF LoopInv, LoopTypes, ReaderTypesOK
<1>2. CASE rxDumped' = rxDumped /\ ~(k = 1 /\ Head(ready).what = "read_continue" /\ Head(ready).dump
                                     /\ dumping)
  <2>1. CASE k = 1 /\ Head(ready).what = "read_continue" /\ Covers(ready, Content(rxDumped))
             /\ dumping
    <3>1. ready # <<>> /\ Head(ready) = ready[1] /\ 1 \in 1..Len(ready) /\ ~Head(ready).dump
      BY <1>2, <2>1, HeadOf
    <3> QED
      BY <1>2, <2>1, <3>1 DEF Covers
  <2> QED
    BY <1>2, <2>1
<1>3. CASE /\ k = 1 /\ Head(ready).what = "read_continue"
           /\ rxDumped' = rxDumped \o Head(ready).bytes
  <2>1. Head(ready).bytes \in Seq(ByteNames)
    BY <1>3, HeadBytes
  <2> QED
    BY <1>1, <1>3, <2>1, ContentConcat
<1> QED
  BY <1>2, <1>3 DEF RxTaps, RxDumpCallback

LEMMA DumpCalm ==
    ASSUME LoopInv, LoopInv', DumpInv, NEW k, NEW new, Calm(k, new)
    PROVE  DumpInv'
<1>1. /\ k \in {0, 1} /\ (k = 1 => ready # <<>>) /\ Queue(k, new)
      /\ UNCHANGED <<wire, writes, reads, readId_, dst_>>
      /\ new \in Seq(LoopKnown(Len(writes'), Len(reads')))
      /\ ready \in Seq(LoopKnown(Len(writes'), Len(reads')))
      /\ \A i \in 1..Len(new) : new[i].what = "read_timeout"
      /\ TappedOf(new) = {}
      /\ buffer_' = buffer_ \/ buffer_' = <<>>
      /\ readBuffer_' = readBuffer_ \/ readBuffer_' = <<>>
  BY CalmMoves
<1>2. /\ handed' = IF k = 1 /\ Head(ready).what = "read_callback"
                   THEN handed \o Head(ready).bytes ELSE handed
      /\ \/ RxTaps(k) /\ UNCHANGED <<dumping, dumps>>
         \/ rxDumped' \in {rxDumped, <<>>} /\ dumps' = dumps + 1
  BY Zenon DEF Calm
<1>3. /\ Content(<<>>) = {} /\ dumps \in Nat /\ handed \in Seq(ByteNames)
  BY NoBytesAtAll DEF NoBytes, LoopInv, LoopTypes, WriterTypesOK, ReaderTypesOK
<1>4. DumpLine'
  <2>1. Brings(new, TappedOf(new), Content(buffer_), Content(buffer_'))
    BY <1>1, <1>3 DEF Brings
  <2>2. \/ HandsOver(k, ready, TappedOf(ready), rxDumped, rxDumped')
        \/ rxDumped' = <<>>
    BY <1>1, <1>2, TapsHandOver DEF HandsOver
  <2> QED
    BY <1>1, <2>1, <2>2, DumpMoves DEF DumpInv
<1>5. DumpCovers'
  <2> SUFFICES ASSUME dumping', dumps' = 0
               PROVE  /\ Content(handed') \cup Content(dst_') \cup Content(readBuffer_')
                            \subseteq Content(rxDumped')
                      /\ Covers(ready', Content(rxDumped'))
    BY DEF DumpCovers
  <2>1. RxTaps(k) /\ dumping' = dumping /\ dumps' = dumps
    <3>1. dumps' # dumps + 1
      BY ONLY <1>3, dumps' = 0
    <3> QED
      BY <1>2, <3>1, Zenon
  <2>2. /\ Content(handed) \cup Content(dst_) \cup Content(readBuffer_) \subseteq Content(rxDumped)
        /\ Covers(ready, Content(rxDumped))
    BY <2>1 DEF DumpInv, DumpCovers
  <2>3. Content(rxDumped) \subseteq Content(rxDumped')
    BY <1>1, <2>1, TapsCover
  <2>4. Content(handed') \subseteq Content(rxDumped)
    <3>1. CASE k = 1 /\ Head(ready).what = "read_callback"
      <4>1. Head(ready) = ready[1] /\ 1 \in 1..Len(ready) /\ Head(ready).bytes \in Seq(ByteNames)
        BY <1>1, <3>1, HeadOf, HeadBytes
      <4>2. Content(Head(ready).bytes) \subseteq Content(rxDumped)
        BY <2>2, <3>1, <4>1 DEF Covers
      <4>3. Content(handed') = Content(handed) \cup Content(Head(ready).bytes)
        BY <1>2, <1>3, <3>1, <4>1, ContentConcat
      <4> QED
        BY <2>2, <4>2, <4>3
    <3>2. CASE ~(k = 1 /\ Head(ready).what = "read_callback")
      BY <1>2, <2>2, <3>2
    <3> QED
      BY <3>1, <3>2
  <2>5. Covers(new, Content(rxDumped'))
    BY <1>1 DEF Covers
  <2>6. Covers(ready', Content(rxDumped'))
    BY <1>1, <2>2, <2>3, <2>5, CoversMore
  <2> QED
    BY <1>1, <1>3, <2>2, <2>3, <2>4, <2>6
<1> QED
  BY <1>4, <1>5 DEF DumpInv

(* The bytes at hand were in the buffer of the read, in readBuffer_ or in the  *)
(* answer.                                                                   *)
LEMMA HandContent ==
    ASSUME LoopInv, NEW k \in {0, 1}, k = 1 => ready # <<>>, NEW d, NEW r, AtHand(k, d, r), NEW D,
           Content(dst_) \cup Content(readBuffer_) \subseteq D,
           k = 1 /\ Head(ready).what = "read_continue" => Content(Head(ready).bytes) \subseteq D
    PROVE  Content(d) \cup Content(r) \subseteq D
<1>1. dst_ \in Seq(ByteNames) /\ readBuffer_ \in Seq(ByteNames)
  BY DEF LoopInv, LoopTypes, ReaderTypesOK
<1>2. CASE k = 0 /\ Splits(readBuffer_, d, r)
  BY <1>1, <1>2, SplitParts
<1>3. CASE k = 1 /\ Head(ready).what = "read_continue"
  <2>1. Head(ready).bytes \in Seq(ByteNames)
    BY <1>3, HeadBytes
  <2>2. CASE d \in {Head(ready).bytes, dst_ \o Head(ready).bytes} /\ r = readBuffer_
    <3>1. Content(dst_ \o Head(ready).bytes) = Content(dst_) \cup Content(Head(ready).bytes)
      BY <1>1, <2>1, ContentConcat
    <3> QED
      BY <1>3, <2>2, <3>1
  <2>3. ASSUME NEW taken, NEW left, Splits(Head(ready).bytes, taken, left),
               d = dst_ \o taken, r = readBuffer_ \o left
        PROVE  Content(d) \cup Content(r) \subseteq D
    <3>1. /\ taken \in Seq(ByteNames) /\ left \in Seq(ByteNames)
          /\ Content(taken) \subseteq Content(Head(ready).bytes)
          /\ Content(left) \subseteq Content(Head(ready).bytes)
      BY <2>1, <2>3, SplitParts
    <3>2. Content(d) = Content(dst_) \cup Content(taken) /\ Content(r) = Content(readBuffer_) \cup Content(left)
      BY <1>1, <2>3, <3>1, ContentConcat
    <3> QED
      BY <1>3, <3>1, <3>2
  <2> QED
    <3>1. \/ d \in {Head(ready).bytes, dst_ \o Head(ready).bytes} /\ r = readBuffer_
          \/ \E taken, left : /\ Splits(Head(ready).bytes, taken, left)
                             /\ d = dst_ \o taken /\ r = readBuffer_ \o left
      <4>1. k # 0 /\ Head(ready).what # "read_timeout"
        BY <1>3
      <4> QED
        BY <4>1, Zenon DEF AtHand
    <3> QED
      BY <2>2, <2>3, <3>1, Zenon
<1>4. CASE d = dst_ /\ r = readBuffer_
  BY <1>4
<1> QED
  BY <1>2, <1>3, <1>4 DEF AtHand

(* A served read adds at most one answer of the device to the line, and what   *)
(* it does not take from the device was covered.                             *)
LEMMA DumpServed ==
    ASSUME LoopInv, LoopInv', FlowInv, DumpInv, NEW k \in {0, 1}, ReadServed(k)
    PROVE  DumpInv'
<1>1. PICK timers, d, r :
         /\ timers \in {<<>>, readTimer_} /\ (k = 1 => timers = <<>>)
         /\ AtHand(k, d, r)
         /\ \/ Finishes(k, timers, d, r)
            \/ \E taken, tapped : Asks(k, timers, d, r, taken, tapped)
  BY DEF ReadServed
<1>2. Serves(k)
  BY DEF ReadServed
<1>3. /\ Len(reads) \in Nat /\ Len(reads') \in Nat /\ Len(reads') > 0 /\ Len(reads) <= Len(reads')
      /\ k = 1 => ready # <<>>
      /\ wire' = wire /\ handed' = handed /\ writes' = writes
      /\ UNCHANGED <<dumping, dumps>> /\ RxTaps(k)
  BY <1>2, ServesFacts DEF Serves, Aside, request
<1>4. d \in Seq(ByteNames) /\ r \in Seq(ByteNames)
  BY <1>1, <1>3, AtHandTypes
<1>5. ready \in Seq(LoopKnown(Len(writes'), Len(reads')))
  BY <1>3, TimersType
<1>6. Ascending(buffer_) /\ buffer_ \in Seq(ByteNames) /\ Content(<<>>) = {} /\ dumping \in BOOLEAN
  BY NoBytesAtAll DEF NoBytes, FlowInv, FlowWith, Flow, Order, LoopInv, LoopTypes, WriterTypesOK
<1>7. \A h \in ReadTimeouts(Len(reads')) : h.what = "read_timeout"
  BY DEF ReadTimeouts
<1>8. ASSUME dumping, dumps = 0
      PROVE  /\ Covers(ready, Content(rxDumped))
             /\ Content(rxDumped) \subseteq Content(rxDumped')
             /\ Content(handed) \cup Content(d) \cup Content(r) \subseteq Content(rxDumped')
  <2>1. /\ Content(handed) \cup Content(dst_) \cup Content(readBuffer_) \subseteq Content(rxDumped)
        /\ Covers(ready, Content(rxDumped))
    BY <1>8 DEF DumpInv, DumpCovers
  <2>2. /\ Content(rxDumped) \subseteq Content(rxDumped')
        /\ k = 1 /\ Head(ready).what = "read_continue" =>
              Content(Head(ready).bytes) \subseteq Content(rxDumped')
    BY <1>3, <1>8, <2>1, TapsCover
  <2>3. Content(dst_) \cup Content(readBuffer_) \subseteq Content(rxDumped')
    BY <2>1, <2>2
  <2>4. Content(d) \cup Content(r) \subseteq Content(rxDumped')
    BY <1>1, <1>3, <2>2, <2>3, HandContent
  <2> QED
    BY <2>1, <2>2, <2>4
<1>9. ASSUME NEW e \in ReadKnown(Len(reads')), Queue(k, timers \o <<e>>),
             e.what \in {"read_continue", "read_callback"},
             IF e.what = "read_continue" /\ e.dump
             THEN Splits(buffer_, e.bytes, buffer_')
             ELSE /\ Content(buffer_') \subseteq Content(buffer_)
                  /\ dumping => Content(e.bytes) \subseteq Content(d) \cup Content(r),
             Content(dst_') \cup Content(readBuffer_') \subseteq Content(d) \cup Content(r)
      PROVE  DumpInv'
  <2> DEFINE new == timers \o <<e>>
  <2>1. /\ new \in Seq(LoopKnown(Len(writes), Len(reads'))) /\ Len(new) \in 1..Len(new)
        /\ new[Len(new)] = e
        /\ \A i \in 1..Len(new) : i = Len(new) \/ new[i].what = "read_timeout"
    BY <1>1, <1>3, <1>7, JoinedHandlers
  <2>2. Queue(k, new)
    BY <1>9
  <2> HIDE DEF new
  <2>3. Brings(new, TappedOf(new), Content(buffer_), Content(buffer_'))
    <3>1. \A i \in TappedOf(new) :
             i = Len(new) /\ new[i] = e /\ e.what = "read_continue" /\ e.dump
      BY <2>1 DEF TappedOf
    <3>2. CASE e.what = "read_continue" /\ e.dump
      <4>1. /\ Content(buffer_') \subseteq Content(buffer_)
            /\ Ascending(e.bytes) /\ Content(e.bytes) \subseteq Content(buffer_)
            /\ Follow(Content(e.bytes), Content(buffer_'))
        BY <1>6, <1>9, <3>2, SplitParts
      <4> QED
        BY <3>1, <4>1 DEF Brings
    <3>3. CASE ~(e.what = "read_continue" /\ e.dump)
      <4>1. TappedOf(new) = {}
        BY <3>1, <3>3
      <4> QED
        BY <1>9, <3>3, <4>1 DEF Brings
    <3> QED
      BY <3>2, <3>3
  <2>4. HandsOver(k, ready, TappedOf(ready), rxDumped, rxDumped')
    BY <1>3, TapsHandOver
  <2>5. DumpLine'
    BY <1>3, <1>5, <2>1, <2>2, <2>3, <2>4, DumpMoves DEF DumpInv
  <2>6. DumpCovers'
    <3> SUFFICES ASSUME dumping', dumps' = 0
                 PROVE  /\ Content(handed') \cup Content(dst_') \cup Content(readBuffer_')
                              \subseteq Content(rxDumped')
                        /\ Covers(ready', Content(rxDumped'))
      BY DEF DumpCovers
    <3>1. /\ Covers(ready, Content(rxDumped))
          /\ Content(rxDumped) \subseteq Content(rxDumped')
          /\ Content(handed) \cup Content(d) \cup Content(r) \subseteq Content(rxDumped')
      BY <1>3, <1>8
    <3>2. Covers(new, Content(rxDumped'))
      <4>1. ~(e.what = "read_continue" /\ e.dump) => Content(e.bytes) \subseteq Content(rxDumped')
        BY <1>3, <1>9, <3>1
      <4>2. \A i \in 1..Len(new) :
               \/ new[i] = e
               \/ new[i].what = "read_timeout"
        BY <2>1
      <4> QED
        BY <1>9, <4>1, <4>2 DEF Covers
    <3>3. Covers(ready', Content(rxDumped'))
      BY <1>3, <1>5, <2>1, <2>2, <3>1, <3>2, CoversMore
    <3> QED
      BY <1>3, <1>9, <3>1, <3>3
  <2> QED
    BY <2>5, <2>6 DEF DumpInv
<1>10. CASE Finishes(k, timers, d, r)
  <2> DEFINE e == ReadHandler("read_callback", Len(reads'), d, FALSE)
  <2>1. Queue(k, timers \o <<e>>) /\ dst_' = <<>> /\ readBuffer_' = r /\ buffer_' = buffer_
    BY <1>10, Zenon DEF Finishes
  <2>2. e \in ReadKnown(Len(reads'))
    BY <1>3, <1>4, ReadHandlerType
  <2>3. e.what = "read_callback" /\ e.bytes = d
    BY DEF ReadHandler
  <2> HIDE DEF e
  <2> QED
    BY <1>6, <1>9, <2>1, <2>2, <2>3
<1>11. ASSUME NEW taken, NEW tapped, Asks(k, timers, d, r, taken, tapped) PROVE DumpInv'
  <2> DEFINE e == ReadHandler("read_continue", Len(reads'), taken, tapped)
  <2>1. Queue(k, timers \o <<e>>) /\ dst_' = d /\ Given(r, taken, tapped)
    BY <1>11, Zenon DEF Asks
  <2>2. taken \in Seq(ByteNames) /\ tapped \in BOOLEAN
    BY <1>4, <2>1, GivenTypes
  <2>3. e \in ReadKnown(Len(reads'))
    BY <1>3, <2>2, ReadHandlerType
  <2>4. e.what = "read_continue" /\ e.bytes = taken /\ e.dump = tapped
    BY DEF ReadHandler
  <2> HIDE DEF e
  <2>5. CASE Splits(r, taken, readBuffer_') /\ tapped = FALSE /\ buffer_' = buffer_
    <3>1. Content(taken) \subseteq Content(r) /\ Content(readBuffer_') \subseteq Content(r)
      BY <1>4, <2>5, SplitParts
    <3> QED
      BY <1>9, <2>1, <2>3, <2>4, <2>5, <3>1
  <2>6. CASE Splits(buffer_, taken, buffer_') /\ tapped = dumping /\ readBuffer_' = <<>>
    <3>1. CASE tapped
      BY <1>6, <1>9, <2>1, <2>3, <2>4, <2>6, <3>1
    <3>2. CASE ~tapped
      <4>1. Content(buffer_') \subseteq Content(buffer_)
        BY <1>6, <2>6, SplitParts
      <4> QED
        BY <1>6, <1>9, <2>1, <2>3, <2>4, <2>6, <3>2, <4>1
    <3> QED
      BY <3>1, <3>2
  <2> QED
    BY <2>1, <2>5, <2>6 DEF Given
<1> QED
  BY <1>1, <1>10, <1>11

LEMMA DumpFeeds == ASSUME LoopInv, LoopInv', DumpInv, FlowInv, Feeds PROVE DumpInv'
<1>1. PICK k, new :
         /\ k \in {0, 1} /\ Queue(k, new)
         /\ new \in Seq(LoopKnown(Len(writes'), Len(reads')))
         /\ ready \in Seq(LoopKnown(Len(writes'), Len(reads')))
         /\ \A i \in 1..Len(new) : new[i].what \in {"continue", "timeout", "callback"}
         /\ TappedOf(new) = {}
  BY FeedMoves
<1>2. UNCHANGED <<dst_, readBuffer_, rxDumped, handed, dumping, dumps>>
  BY FeedMoves
<1>3. PICK w \in Seq(ByteNames) :
         /\ Content(wire') = Content(wire) \cup Content(w)
         /\ Content(buffer_') = Content(buffer_) \cup Content(w)
         /\ Follow(Content(wire), Content(w))
  BY FeedMoves
<1>4. /\ Line(rxDumped, ready, TappedOf(ready), Content(buffer_))
      /\ Inside(rxDumped, ready, TappedOf(ready), Content(buffer_), Content(wire))
  BY DEF DumpInv, DumpLine
<1>5. /\ Line(rxDumped, ready', TappedOf(ready'), Content(buffer_))
      /\ Inside(rxDumped, ready', TappedOf(ready'), Content(buffer_), Content(wire))
  <2>1. Shifted(k, Len(ready), ready, ready', new,
                TappedOf(ready), TappedOf(new), TappedOf(ready'))
    BY <1>1, SelectedMove
  <2>2. Brings(new, TappedOf(new), Content(buffer_), Content(buffer_))
    BY <1>1 DEF Brings
  <2>3. HandsOver(k, ready, TappedOf(ready), rxDumped, rxDumped)
    BY DEF HandsOver
  <2> QED
    BY <1>4, <2>1, <2>2, <2>3, LineMoves
<1>6. DumpLine'
  <2>1. /\ Line(rxDumped, ready', TappedOf(ready'), Content(buffer_) \cup Content(w))
        /\ Inside(rxDumped, ready', TappedOf(ready'), Content(buffer_) \cup Content(w),
                  Content(wire) \cup Content(w))
    BY <1>3, <1>5, LineGains
  <2> QED
    BY <1>2, <1>3, <2>1 DEF DumpLine
<1>7. DumpCovers'
  <2> SUFFICES ASSUME dumping', dumps' = 0
               PROVE  /\ Content(handed') \cup Content(dst_') \cup Content(readBuffer_')
                            \subseteq Content(rxDumped')
                      /\ Covers(ready', Content(rxDumped'))
    BY DEF DumpCovers
  <2>1. /\ Content(handed) \cup Content(dst_) \cup Content(readBuffer_) \subseteq Content(rxDumped)
        /\ Covers(ready, Content(rxDumped))
    BY <1>2 DEF DumpInv, DumpCovers
  <2>2. Covers(new, Content(rxDumped))
    BY <1>1 DEF Covers
  <2>3. Covers(ready', Content(rxDumped))
    BY <1>1, <2>1, <2>2, CoversMore
  <2> QED
    BY <1>2, <2>1, <2>3
<1> QED
  BY <1>6, <1>7 DEF DumpInv

LEMMA DumpStep ==
    ASSUME NoWrap, ~SlowCaller, LoopInv, FlowInv, DumpInv, [LoopNext]_loopVars
    PROVE  DumpInv'
<1>1. /\ LoopInv'
      /\ \/ Feeds
         \/ \E k, new : Calm(k, new)
         \/ \E k \in {0, 1} : ReadServed(k)
  BY LoopStep
<1> QED
  BY <1>1, DumpFeeds, DumpCalm, DumpServed

-----------------------------------------------------------------------------
(* Reads up to a delimiter *)

LEMMA MarksDelimit ==
    /\ \A b : IsDelimiter(b) <=> Marks(writes, b)
    /\ \A s : /\ Delimiters(s) = {} <=> NoMark(writes, s)
              /\ \A i \in Delimiters(s) : i \in 1..Len(s) /\ Marks(writes, s[i])
              /\ \A i \in 1..Len(s) : Marks(writes, s[i]) => i \in Delimiters(s)
  BY DEF IsDelimiter, Marks, Delimiters, NoMark

(* What async_read_until takes from readBuffer_. *)
LEMMA CutIsExact ==
    ASSUME NEW S, NEW s \in Seq(S), NEW size \in Nat, size > 0, NEW found \in 0..Len(s),
           First(found, Delimiters(s)), NEW stop,
           stop = IF found # 0 /\ found <= size THEN found ELSE size
    PROVE  /\ stop <= Len(s) => Exact(writes, Upto(stop, s), size)
           /\ stop > Len(s) => NoMark(writes, s)
<1>1. /\ Len(s) \in Nat /\ found \in Nat /\ stop \in Nat /\ stop > 0
      /\ stop <= size /\ (found # 0 => stop <= found)
      /\ stop # size => found # 0 /\ stop = found
  OBVIOUS
<1>2. /\ found = 0 => NoMark(writes, s)
      /\ found # 0 => /\ Marks(writes, s[found])
                      /\ \A i \in 1..Len(s) : i < found => ~Marks(writes, s[i])
  <2>1. CASE Delimiters(s) = {}
    <3>1. found = 0 /\ NoMark(writes, s)
      BY <2>1, MarksDelimit DEF First
    <3> QED
      BY <3>1
  <2>2. CASE Delimiters(s) # {}
    <3>1. found \in Delimiters(s) /\ \A i \in Delimiters(s) : found <= i
      BY <2>2 DEF First
    <3>2. found \in 1..Len(s) /\ Marks(writes, s[found])
      BY <3>1, MarksDelimit
    <3>3. ASSUME NEW i \in 1..Len(s), i < found, Marks(writes, s[i]) PROVE FALSE
      <4>1. found <= i
        BY <3>1, <3>3, MarksDelimit
      <4> QED
        BY <1>1, <3>3, <4>1
    <3> QED
      BY <3>2, <3>3
  <2> QED
    BY <2>1, <2>2
<1>3. ASSUME stop <= Len(s) PROVE Exact(writes, Upto(stop, s), size)
  <2>1. /\ Len(Upto(stop, s)) = stop
        /\ \A i \in 1..stop : i \in 1..Len(s) /\ Upto(stop, s)[i] = s[i]
    BY <1>1, <1>3 DEF Upto
  <2>2. stop < size => Marks(writes, s[stop])
    BY <1>1, <1>2
  <2>3. \A i \in 1..(stop - 1) : ~Marks(writes, s[i])
    <3> SUFFICES ASSUME NEW i \in 1..(stop - 1) PROVE ~Marks(writes, s[i])
      OBVIOUS
    <3>1. i \in 1..Len(s) /\ (found # 0 => i < found)
      BY <1>1, <1>3
    <3> QED
      BY <1>2, <3>1 DEF NoMark
  <2> QED
    BY <1>1, <2>1, <2>2, <2>3 DEF Exact
<1>4. ASSUME stop > Len(s) PROVE NoMark(writes, s)
  <2>1. found = 0
    BY <1>1, <1>4
  <2> QED
    BY <1>2, <2>1
<1> QED
  BY <1>3, <1>4

(* What a continuation of it adds to the bytes of the read. *)
LEMMA JoinIsExact ==
    ASSUME NEW S, NEW s \in Seq(S), NEW t \in Seq(S), NEW ws, NoMark(ws, s), NEW size
    PROVE  /\ NoMark(ws, t) => NoMark(ws, s \o t)
           /\ \A n \in 1..Len(t) :
                 Marks(ws, t[n]) /\ (\A i \in 1..(n - 1) : ~Marks(ws, t[i])) =>
                    Exact(ws, s \o Upto(n, t), size)
<1>1. \A u \in Seq(S) :
         /\ Len(s) \in Nat /\ Len(u) \in Nat /\ Len(s \o u) = Len(s) + Len(u)
         /\ \A i \in 1..(Len(s) + Len(u)) :
               (s \o u)[i] = IF i <= Len(s) THEN s[i] ELSE u[i - Len(s)]
  OBVIOUS
<1>2. ASSUME NoMark(ws, t) PROVE NoMark(ws, s \o t)
  <2> SUFFICES ASSUME NEW i \in 1..(Len(s) + Len(t)) PROVE ~Marks(ws, (s \o t)[i])
    BY <1>1 DEF NoMark
  <2>1. CASE i <= Len(s)
    BY <1>1, <2>1 DEF NoMark
  <2>2. CASE i > Len(s)
    <3>1. i - Len(s) \in 1..Len(t) /\ (s \o t)[i] = t[i - Len(s)]
      BY <1>1, <2>2
    <3> QED
      BY <1>2, <3>1 DEF NoMark
  <2> QED
    BY <1>1, <2>1, <2>2
<1>3. ASSUME NEW n \in 1..Len(t), Marks(ws, t[n]), \A i \in 1..(n - 1) : ~Marks(ws, t[i])
      PROVE  Exact(ws, s \o Upto(n, t), size)
  <2> DEFINE u == Upto(n, t)
  <2>1. u \in Seq(S) /\ Len(u) = n /\ \A i \in 1..n : u[i] = t[i]
    BY DEF Upto
  <2> HIDE DEF u
  <2>2. /\ Len(s \o u) = Len(s) + n /\ Len(s) \in Nat /\ n \in Nat /\ n > 0
        /\ \A i \in 1..(Len(s) + n) : (s \o u)[i] = IF i <= Len(s) THEN s[i] ELSE t[i - Len(s)]
    <3>1. /\ Len(s) \in Nat /\ n \in Nat /\ n > 0 /\ Len(s \o u) = Len(s) + n
          /\ \A i \in 1..(Len(s) + n) : (s \o u)[i] = IF i <= Len(s) THEN s[i] ELSE u[i - Len(s)]
      <4>1. n \in Nat /\ n > 0
        BY <1>1
      <4> QED
        BY ONLY <1>1, <2>1, <4>1
    <3>2. \A i \in 1..(Len(s) + n) : i > Len(s) => u[i - Len(s)] = t[i - Len(s)]
      BY <2>1, <3>1
    <3> QED
      BY <3>1, <3>2
  <2>3. (s \o u)[Len(s) + n] = t[n]
    BY <2>2
  <2>4. ASSUME NEW i \in 1..(Len(s) + n - 1) PROVE ~Marks(ws, (s \o u)[i])
    <3>1. CASE i <= Len(s)
      BY <2>2, <3>1 DEF NoMark
    <3>2. CASE i > Len(s)
      <4>1. i - Len(s) \in 1..(n - 1) /\ (s \o u)[i] = t[i - Len(s)]
        BY <2>2, <3>2
      <4> QED
        BY <1>3, <4>1
    <3> QED
      BY <2>2, <3>1, <3>2
  <2>5. Exact(ws, s \o u, size)
    BY <1>3, <2>2, <2>3, <2>4 DEF Exact
  <2> QED
    BY <2>5 DEF u
<1> QED
  BY <1>2, <1>3

(* What a step that serves a read up to a delimiter leaves behind. *)
ServedExact ==
    reads'[Len(reads')].kind = "until" =>
        /\ readId_' = Len(reads') => NoMark(writes, dst_')
        /\ readId_' = 0 /\ ~reads'[Len(reads')].timed =>
              Exact(writes, ready'[Len(ready')].bytes, reads'[Len(reads')].size)

LEMMA LastOf ==
    ASSUME LoopInv, Len(reads') \in Nat, Len(reads') > 0, Len(reads) <= Len(reads'),
           NEW queue,
           queue \in {ready, ready \o readTimer_} \/ (ready # <<>> /\ queue = Tail(ready)),
           NEW bytes \in Seq(ByteNames), FinishRead(Len(reads'), bytes, queue)
    PROVE  ready'[Len(ready')].bytes = bytes /\ readId_' = 0
<1> DEFINE T == LoopKnown(Len(writes), Len(reads'))
           e == ReadHandler("read_callback", Len(reads'), bytes, FALSE)
<1>1. readTimer_ \in Seq(T) /\ ready \in Seq(T) /\ ReadKnown(Len(reads')) \subseteq T
  BY TimersType
<1>2. e \in T /\ e.bytes = bytes
  <2>1. e \in ReadKnown(Len(reads'))
    BY ReadHandlerType
  <2>2. e.bytes = bytes
    BY DEF ReadHandler
  <2> QED
    BY <1>1, <2>1, <2>2
<1>3. ready' = Append(queue, e) /\ readId_' = 0
  BY DEF FinishRead
<1> HIDE DEF T, e
<1>4. queue \in Seq(T)
  <2>1. ready # <<>> => Tail(ready) \in Seq(T)
    BY <1>1
  <2>2. ready \o readTimer_ \in Seq(T)
    BY <1>1, ConcatType
  <2> QED
    BY <1>1, <2>1, <2>2
<1>5. Append(queue, e)[Len(Append(queue, e))] = e
  BY <1>2, <1>4
<1> QED
  BY <1>2, <1>3, <1>5

LEMMA NewReadExact == ASSUME LoopInv, NEW t \in Threads, NewRead(t) PROVE ServedExact
<1> DEFINE id == Len(reads) + 1
<1>1. PICK read \in Requests :
         /\ reads' = Append(reads, read)
         /\ LET queue == IF read.timed THEN ready \o readTimer_ ELSE ready
            IN  \/ read.kind # "until" /\ GoOnReading(id, <<>>, read.size, queue, readBuffer_)
                \/ read.kind = "until" /\ StartUntil(id, read.size, queue)
  BY Zenon DEF NewRead
<1> DEFINE queue == IF read.timed THEN ready \o readTimer_ ELSE ready
<1>2. /\ Len(reads) \in Nat /\ Len(reads') = id /\ reads'[Len(reads')] = read
      /\ Len(reads') \in Nat /\ Len(reads') > 0 /\ Len(reads) <= Len(reads')
      /\ readBuffer_ \in Seq(ByteNames)
      /\ read.size \in Nat /\ read.size > 0 /\ read.kind \in {"some", "all", "until"}
  BY <1>1, LengthTypes, RequestTypesOf DEF LoopInv, LoopTypes, ReaderTypesOK
<1> SUFFICES ASSUME read.kind = "until"
             PROVE  /\ readId_' = id => NoMark(writes, dst_')
                    /\ readId_' = 0 => Exact(writes, ready'[Len(ready')].bytes, read.size)
  BY <1>2 DEF ServedExact
<1>3. PICK found \in 0..Len(readBuffer_) :
         LET stop == IF found # 0 /\ found <= read.size THEN found ELSE read.size
         IN  /\ First(found, Delimiters(readBuffer_))
             /\ \/ /\ stop <= Len(readBuffer_)
                   /\ FinishRead(id, Upto(stop, readBuffer_), queue)
                \/ /\ stop > Len(readBuffer_)
                   /\ GoOnReading(id, readBuffer_, read.size, queue, <<>>)
  BY <1>1 DEF StartUntil
<1> DEFINE stop == IF found # 0 /\ found <= read.size THEN found ELSE read.size
<1>4. /\ First(found, Delimiters(readBuffer_))
      /\ \/ /\ stop <= Len(readBuffer_)
            /\ FinishRead(id, Upto(stop, readBuffer_), queue)
         \/ /\ stop > Len(readBuffer_)
            /\ GoOnReading(id, readBuffer_, read.size, queue, <<>>)
  BY <1>3
<1>5. stop = IF found # 0 /\ found <= read.size THEN found ELSE read.size
  OBVIOUS
<1>6. stop \in Nat
  BY <1>2
<1> HIDE DEF stop
<1>7. /\ stop <= Len(readBuffer_) => Exact(writes, Upto(stop, readBuffer_), read.size)
      /\ stop > Len(readBuffer_) => NoMark(writes, readBuffer_)
  BY <1>2, <1>4, <1>5, CutIsExact
<1>8. CASE stop <= Len(readBuffer_) /\ FinishRead(id, Upto(stop, readBuffer_), queue)
  <2>1. Upto(stop, readBuffer_) \in Seq(ByteNames)
    BY <1>2, <1>6, <1>8 DEF Upto
  <2>2. queue \in {ready, ready \o readTimer_}
    OBVIOUS
  <2> HIDE DEF queue
  <2>3. ready'[Len(ready')].bytes = Upto(stop, readBuffer_) /\ readId_' = 0
    BY <1>2, <1>8, <2>1, <2>2, LastOf
  <2> QED
    BY <1>2, <1>7, <1>8, <2>3
<1>9. CASE stop > Len(readBuffer_) /\ GoOnReading(id, readBuffer_, read.size, queue, <<>>)
  <2>1. readId_' = id /\ dst_' = readBuffer_
    BY <1>9 DEF GoOnReading
  <2> QED
    BY <1>2, <1>7, <1>9, <2>1
<1> QED
  BY <1>4, <1>8, <1>9

LEMMA ReadContinueExact ==
    ASSUME ~WideDelimiter, LoopInv, UntilRead => NoMark(writes, dst_), ReadContinue
    PROVE  ServedExact
<1> DEFINE handler == Head(ready)
           bytes   == dst_ \o handler.bytes
           read    == reads[readId_]
<1>1. /\ Takes1("read_continue") /\ handler.what = "read_continue" /\ ready # <<>>
      /\ RxDumpCallback(handler)
      /\ \/ ContinueReadSome(handler, read)
         \/ ContinueReadAll(handler, read)
         \/ ContinueReadUntil(handler, read)
  BY Zenon DEF ReadContinue, NextHandler, Takes1
<1>2. /\ readId_ = Len(reads) /\ Len(reads) > 0 /\ Len(reads) \in Nat /\ reads' = reads
      /\ read \in Requests
      /\ handler.bytes \in Seq(ByteNames)
      /\ dst_ \in Seq(ByteNames)
  BY <1>1, TakesCurrent
<1>3. /\ bytes \in Seq(ByteNames) /\ Len(bytes) \in Nat /\ read.size \in Nat
      /\ Len(reads') = readId_ /\ Len(reads') \in Nat /\ Len(reads') > 0 /\ Len(reads) <= Len(reads')
      /\ reads'[Len(reads')] = read
  BY <1>2, RequestTypesOf
<1> SUFFICES ASSUME read.kind = "until"
             PROVE  /\ readId_' = readId_ => NoMark(writes, dst_')
                    /\ readId_' = 0 => Exact(writes, ready'[Len(ready')].bytes, read.size)
  BY <1>3 DEF ServedExact
<1>4. NoMark(writes, dst_)
  BY <1>2 DEF UntilRead
<1> HIDE DEF handler, bytes, read
<1>5. PICK found \in 0..Len(handler.bytes) :
         /\ First(found, Delimiters(handler.bytes))
         /\ \/ /\ found # 0
               /\ FinishRead(readId_, dst_ \o Upto(found, handler.bytes), Tail(ready))
            \/ /\ found = 0
               /\ ContinueReading(handler, read)
  <2>1. ContinueReadUntil(handler, read)
    BY <1>1 DEF ContinueReadSome, ContinueReadAll
  <2>2. DelimitersInAnswer(handler.bytes) = Delimiters(handler.bytes)
    BY DEF DelimitersInAnswer
  <2> QED
    BY <2>1, <2>2 DEF ContinueReadUntil
<1>6. ASSUME NEW d \in Seq(ByteNames), FinishRead(readId_, d, Tail(ready))
      PROVE  ready'[Len(ready')].bytes = d /\ readId_' = 0
  BY <1>1, <1>3, <1>6, LastOf
<1>7. CASE found # 0 /\ FinishRead(readId_, dst_ \o Upto(found, handler.bytes), Tail(ready))
  <2>1. /\ found \in 1..Len(handler.bytes) /\ Marks(writes, handler.bytes[found])
        /\ \A i \in 1..(found - 1) : ~Marks(writes, handler.bytes[i])
    <3>1. found \in Delimiters(handler.bytes) /\ \A i \in Delimiters(handler.bytes) : found <= i
      BY <1>5, <1>7 DEF First
    <3>2. found \in 1..Len(handler.bytes) /\ Marks(writes, handler.bytes[found])
      BY <3>1, MarksDelimit
    <3>3. ASSUME NEW i \in 1..(found - 1), Marks(writes, handler.bytes[i]) PROVE FALSE
      <4>1. i \in 1..Len(handler.bytes) /\ i < found
        BY <3>2
      <4>2. found <= i
        BY <3>1, <3>3, <4>1, MarksDelimit
      <4> QED
        BY <3>2, <4>1, <4>2
    <3> QED
      BY <3>2, <3>3
  <2>2. Exact(writes, dst_ \o Upto(found, handler.bytes), read.size)
    BY <1>2, <1>4, <2>1, JoinIsExact
  <2>3. dst_ \o Upto(found, handler.bytes) \in Seq(ByteNames)
    <3>1. Upto(found, handler.bytes) \in Seq(ByteNames)
      BY <1>2, <2>1 DEF Upto
    <3> QED
      BY <1>2, <3>1, ConcatType
  <2>4. ready'[Len(ready')].bytes = dst_ \o Upto(found, handler.bytes) /\ readId_' = 0
    BY <1>6, <1>7, <2>3
  <2> QED
    BY <1>3, <2>2, <2>4
<1>8. CASE found = 0 /\ ContinueReading(handler, read)
  <2>1. NoMark(writes, handler.bytes)
    <3>1. \A i \in Delimiters(handler.bytes) : i # 0
      BY MarksDelimit
    <3>2. Delimiters(handler.bytes) = {}
      BY <1>5, <1>8, <3>1 DEF First
    <3> QED
      BY <3>2, MarksDelimit
  <2>2. NoMark(writes, bytes)
    BY <1>2, <1>4, <2>1, JoinIsExact DEF bytes
  <2>3. CASE Len(bytes) >= read.size /\ FinishRead(readId_, bytes, Tail(ready))
    <3>1. Exact(writes, bytes, read.size)
      BY <1>3, <2>2, <2>3 DEF Exact, NoMark
    <3> QED
      BY <1>3, <1>6, <2>3, <3>1
  <2>4. CASE GoOnReading(readId_, bytes, read.size - Len(bytes), Tail(ready), readBuffer_)
    <3>1. readId_' = readId_ /\ dst_' = bytes
      BY <2>4 DEF GoOnReading
    <3> QED
      BY <1>3, <2>2, <3>1
  <2> QED
    BY <1>8, <2>3, <2>4 DEF ContinueReading, bytes
<1> QED
  BY <1>5, <1>7, <1>8

LEMMA ReadStepExact ==
    ASSUME ~WideDelimiter, LoopInv, ExactInv, ReadStep
    PROVE  ServedExact
<1>1. ASSUME NEW t \in Threads, NewRead(t) PROVE ServedExact
  BY <1>1, NewReadExact
<1>2. CASE ReadContinue
  BY <1>2, ReadContinueExact DEF ExactInv
<1>3. CASE ReadTimeout /\ Head(ready).id = readId_
  <2>1. /\ Takes1("read_timeout") /\ Head(ready).what = "read_timeout" /\ ready # <<>>
        /\ rxDumped' = rxDumped /\ readId_' = 0
    BY <1>3, Zenon DEF ReadTimeout, NextHandler, Takes1, FinishRead
  <2>2. readId_ = Len(reads) /\ Len(reads) > 0 /\ Len(reads) \in Nat /\ reads' = reads
    BY <2>1, TakesCurrent
  <2>3. reads[readId_].timed
    <3>1. Head(ready) = ready[1] /\ 1 \in 1..Len(ready)
      BY <2>1, HeadOf
    <3> QED
      BY <1>3, <2>1, <3>1 DEF ExactInv, ExactHandler
  <2> QED
    BY <2>1, <2>2, <2>3 DEF ServedExact
<1> QED
  BY <1>1, <1>2, <1>3 DEF ReadStep

LEMMA ExactMoves ==
    ASSUME NEW T, ready \in Seq(T), NEW k, NEW new \in Seq(T), Queue(k, new), NEW rs, NEW ws,
           \A i \in 1..Len(ready) : ExactHandler(ready[i], rs, ws),
           \A i \in 1..Len(new) : ExactHandler(new[i], rs, ws)
    PROVE  \A i \in 1..Len(ready') : ExactHandler(ready'[i], rs, ws)
<1>1. \A i \in 1..Len(ready') :
         \/ i + k \in 1..Len(ready) /\ ready'[i] = ready[i + k]
         \/ /\ i + k - Len(ready) \in 1..Len(new)
            /\ ready'[i] = new[i + k - Len(ready)]
  BY QueueParts
<1> QED
  BY <1>1

LEMMA ExactCalm == ASSUME LoopInv, ExactInv, NEW k, NEW new, Calm(k, new) PROVE ExactInv'
<1>1. /\ Queue(k, new)
      /\ UNCHANGED <<writes, reads, readId_, dst_>>
      /\ new \in Seq(LoopKnown(Len(writes'), Len(reads')))
      /\ ready \in Seq(LoopKnown(Len(writes'), Len(reads')))
  BY CalmMoves
<1>2. new \in {<<>>, readTimer_} /\ readTimer_' \in {readTimer_, <<>>}
  BY Zenon DEF Calm
<1>3. /\ UntilRead => NoMark(writes, dst_)
      /\ \A i \in 1..Len(readTimer_) : ExactHandler(readTimer_[i], reads, writes)
      /\ \A i \in 1..Len(ready) : ExactHandler(ready[i], reads, writes)
  BY DEF ExactInv
<1>4. /\ \A i \in 1..Len(new) : ExactHandler(new[i], reads, writes)
      /\ \A i \in 1..Len(readTimer_') : ExactHandler(readTimer_'[i], reads, writes)
  BY <1>2, <1>3
<1>5. \A i \in 1..Len(ready') : ExactHandler(ready'[i], reads, writes)
  BY <1>1, <1>3, <1>4, ExactMoves
<1>6. UntilRead' => UntilRead
  BY <1>1 DEF UntilRead
<1> QED
  BY <1>1, <1>3, <1>4, <1>5, <1>6 DEF ExactInv

(* The handlers of the first reads do not depend on the later ones. *)
LEMMA ExactForever ==
    ASSUME NEW n \in Nat, NEW m \in Nat, NEW h \in LoopKnown(n, m), NEW rs, NEW qs, NEW ws,
           \A i \in 1..m : qs[i] = rs[i], ExactHandler(h, rs, ws)
    PROVE  ExactHandler(h, qs, ws)
<1>1. h.what \in {"read_callback", "read_timeout"} => h.id \in 1..m
  BY LoopFields
<1> QED
  BY <1>1 DEF ExactHandler

LEMMA ExactServed ==
    ASSUME LoopInv, ExactInv, NEW k \in {0, 1}, ReadServed(k), ServedExact
    PROVE  ExactInv'
<1>1. PICK timers, d, r :
         /\ timers \in {<<>>, readTimer_} /\ (k = 1 => timers = <<>>)
         /\ AtHand(k, d, r)
         /\ \/ Finishes(k, timers, d, r)
            \/ \E taken, tapped : Asks(k, timers, d, r, taken, tapped)
  BY DEF ReadServed
<1>2. Serves(k)
  BY DEF ReadServed
<1>3. /\ Len(reads) \in Nat /\ Len(reads') \in Nat /\ Len(reads') > 0 /\ Len(reads) <= Len(reads')
      /\ k = 1 => ready # <<>>
      /\ writes' = writes /\ Len(writes) \in Nat
      /\ \A i \in 1..Len(reads) : reads'[i] = reads[i]
  BY <1>2, ServesFacts, LengthTypes DEF Serves, Aside, request
<1>4. d \in Seq(ByteNames) /\ r \in Seq(ByteNames)
  BY <1>1, <1>3, AtHandTypes
<1>5. /\ ready \in Seq(LoopKnown(Len(writes), Len(reads')))
      /\ ready \in Seq(LoopKnown(Len(writes), Len(reads)))
      /\ readTimer_ \in Seq(ReadTimeouts(Len(reads)))
  BY <1>3, TimersType DEF LoopInv, LoopTypes, ReaderTypesOK
<1>6. /\ \A i \in 1..Len(ready) : ExactHandler(ready[i], reads', writes)
      /\ \A i \in 1..Len(readTimer_) : ExactHandler(readTimer_[i], reads', writes)
  <2>1. \A i \in 1..Len(ready) : ready[i] \in LoopKnown(Len(writes), Len(reads))
    BY <1>5
  <2>2. \A i \in 1..Len(readTimer_) : readTimer_[i] \in LoopKnown(Len(writes), Len(reads))
    <3>1. ReadTimeouts(Len(reads)) \subseteq LoopKnown(Len(writes), Len(reads))
      BY DEF ReadTimeouts, LoopKnown
    <3> QED
      BY <1>5, <3>1
  <2> QED
    BY <1>3, <2>1, <2>2, ExactForever DEF ExactInv
<1>7. \A i \in 1..Len(readTimer_') : ExactHandler(readTimer_'[i], reads', writes)
  <2>1. CASE readTimer_' = readTimer_
    BY <1>6, <2>1
  <2>2. CASE /\ readTimer_' = <<ReadHandler("read_timeout", Len(reads'), <<>>, FALSE)>>
             /\ reads'[Len(reads')].timed
    BY <2>2 DEF ExactHandler, ReadHandler
  <2> QED
    BY <1>2, <2>1, <2>2 DEF Serves
<1>8. ASSUME NEW e \in ReadKnown(Len(reads')), Queue(k, timers \o <<e>>),
             ExactHandler(e, reads', writes)
      PROVE  \A i \in 1..Len(ready') : ExactHandler(ready'[i], reads', writes)
  <2> DEFINE new == timers \o <<e>>
  <2>1. /\ new \in Seq(LoopKnown(Len(writes), Len(reads')))
        /\ \A i \in 1..Len(new) : new[i] = e \/ \E j \in 1..Len(timers) : new[i] = timers[j]
    <3>1. new \in Seq(LoopKnown(Len(writes), Len(reads')))
      BY <1>1, <1>3, JoinedHandlers
    <3>2. timers \in Seq(ReadTimeouts(Len(reads')))
      BY <1>1, <1>3, TimersType
    <3>3. /\ Len(timers) \in Nat /\ Len(new) = Len(timers) + 1
          /\ \A i \in 1..(Len(timers) + 1) : new[i] = IF i <= Len(timers) THEN timers[i] ELSE e
      BY <3>2
    <3> QED
      BY <3>1, <3>3
  <2>2. \A j \in 1..Len(timers) : ExactHandler(timers[j], reads', writes)
    BY <1>1, <1>6
  <2>3. Queue(k, new)
    BY <1>8
  <2> HIDE DEF new
  <2>4. \A i \in 1..Len(new) : ExactHandler(new[i], reads', writes)
    BY <1>8, <2>1, <2>2
  <2> QED
    BY <1>5, <1>6, <2>1, <2>3, <2>4, ExactMoves
<1>9. CASE Finishes(k, timers, d, r)
  <2> DEFINE e == ReadHandler("read_callback", Len(reads'), d, FALSE)
             new == timers \o <<e>>
  <2>1. Queue(k, new) /\ readId_' = 0
    BY <1>9, Zenon DEF Finishes
  <2>2. e \in ReadKnown(Len(reads'))
    BY <1>3, <1>4, ReadHandlerType
  <2>3. e.what = "read_callback" /\ e.bytes = d /\ e.id = Len(reads')
    BY DEF ReadHandler
  <2> HIDE DEF e
  <2>4. /\ new \in Seq(LoopKnown(Len(writes), Len(reads'))) /\ Len(new) \in 1..Len(new)
        /\ new[Len(new)] = e
    BY <1>1, <1>3, <2>2, JoinedHandlers
  <2> HIDE DEF new
  <2>5. ready'[Len(ready')] = e
    <3>1. /\ Len(ready') = Len(ready) - k + Len(new)
          /\ Len(ready) \in Nat /\ Len(new) \in Nat /\ k <= Len(ready)
          /\ \A i \in 1..Len(ready') :
                \/ i + k \in 1..Len(ready) /\ ready'[i] = ready[i + k]
                \/ /\ i + k - Len(ready) \in 1..Len(new)
                   /\ ready'[i] = new[i + k - Len(ready)]
      <4> DEFINE T == LoopKnown(Len(writes), Len(reads'))
      <4>1. /\ ready \in Seq(T) /\ new \in Seq(T)
            /\ Queue(k, new)
        BY <1>5, <2>1, <2>4
      <4> HIDE DEF T
      <4> QED
        BY ONLY <4>1, QueueParts
    <3>2. /\ Len(ready') \in 1..Len(ready')
          /\ ~(Len(ready') + k \in 1..Len(ready))
          /\ Len(ready') + k - Len(ready) = Len(new)
      BY ONLY <2>4, <3>1, k \in {0, 1}
    <3> QED
      BY <2>4, <3>1, <3>2
  <2>6. ExactHandler(e, reads', writes)
    BY <2>1, <2>3, <2>5 DEF ServedExact, ExactHandler
  <2>7. \A i \in 1..Len(ready') : ExactHandler(ready'[i], reads', writes)
    BY <1>8, <2>1, <2>2, <2>6 DEF new
  <2> QED
    BY <1>3, <1>7, <2>1, <2>7 DEF ExactInv, UntilRead
<1>10. ASSUME NEW taken, NEW tapped, Asks(k, timers, d, r, taken, tapped) PROVE ExactInv'
  <2> DEFINE e == ReadHandler("read_continue", Len(reads'), taken, tapped)
  <2>1. Queue(k, timers \o <<e>>) /\ readId_' = Len(reads') /\ Given(r, taken, tapped)
    BY <1>10, Zenon DEF Asks
  <2>2. taken \in Seq(ByteNames) /\ tapped \in BOOLEAN
    BY <1>4, <2>1, GivenTypes
  <2>3. e \in ReadKnown(Len(reads'))
    BY <1>3, <2>2, ReadHandlerType
  <2>4. ExactHandler(e, reads', writes)
    BY DEF ReadHandler, ExactHandler
  <2> HIDE DEF e
  <2>5. \A i \in 1..Len(ready') : ExactHandler(ready'[i], reads', writes)
    BY <1>8, <2>1, <2>3, <2>4
  <2>6. UntilRead' => NoMark(writes, dst_')
    BY <2>1 DEF UntilRead, ServedExact
  <2> QED
    BY <1>3, <1>7, <2>5, <2>6 DEF ExactInv
<1> QED
  BY <1>1, <1>9, <1>10

LEMMA ExactFeeds ==
    ASSUME LoopInv, LoopInv', FlowInv, ExactInv, Feeds
    PROVE  ExactInv'
<1>1. PICK k, new :
         /\ Queue(k, new)
         /\ new \in Seq(LoopKnown(Len(writes'), Len(reads')))
         /\ ready \in Seq(LoopKnown(Len(writes'), Len(reads')))
         /\ \A i \in 1..Len(new) : new[i].what \in {"continue", "timeout", "callback"}
  BY FeedMoves
<1>2. UNCHANGED <<reads, readId_, dst_, readTimer_>>
  BY FeedMoves
<1>3. ASSUME NEW s, Content(s) \subseteq Content(wire)
      PROVE  /\ \A i \in 1..Len(s) : Marks(writes', s[i]) <=> Marks(writes, s[i])
             /\ NoMark(writes, s) => NoMark(writes', s)
  <2>1. ASSUME NEW i \in 1..Len(s) PROVE Marks(writes', s[i]) <=> Marks(writes, s[i])
    <3>1. s[i] \in Content(wire)
      BY <1>3 DEF Content
    <3>2. s[i][1] \in 1..Len(writes)
      BY <3>1 DEF LoopInv, WriterInv, Written
    <3>3. writes'[s[i][1]] = writes[s[i][1]]
      BY <3>2 DEF Feeds
    <3> QED
      BY <3>3 DEF Marks
  <2> QED
    BY <2>1 DEF NoMark
<1>4. PICK a \in Seq(ByteNames) :
         /\ Content(dst_) \subseteq Content(wire)
         /\ \A i \in CallbacksOf(ready) : Content(ready[i].bytes) \subseteq Content(wire)
  BY DEF FlowInv, FlowWith, Inside, Behind
<1>5. UntilRead' => NoMark(writes', dst_')
  BY <1>2, <1>3, <1>4 DEF ExactInv, UntilRead
<1>6. \A i \in 1..Len(readTimer_) : ExactHandler(readTimer_[i], reads, writes')
  <2>1. \A i \in 1..Len(readTimer_) : readTimer_[i] \in ReadTimeouts(Len(reads))
    BY DEF LoopInv, LoopTypes, ReaderTypesOK
  <2>2. \A i \in 1..Len(readTimer_) : readTimer_[i].what = "read_timeout"
    BY <2>1 DEF ReadTimeouts
  <2> QED
    BY <2>2 DEF ExactInv, ExactHandler
<1>7. ASSUME NEW i \in 1..Len(ready) PROVE ExactHandler(ready[i], reads, writes')
  <2>1. ExactHandler(ready[i], reads, writes)
    BY DEF ExactInv
  <2>2. CASE ready[i].what = "read_callback"
    <3>1. Content(ready[i].bytes) \subseteq Content(wire)
      BY <1>4, <2>2 DEF CallbacksOf
    <3>2. \A j \in 1..Len(ready[i].bytes) :
             Marks(writes', ready[i].bytes[j]) <=> Marks(writes, ready[i].bytes[j])
      BY <1>3, <3>1
    <3>3. ready[i].bytes \in Seq(ByteNames)
      <4>1. ready[i] \in LoopKnown(Len(writes'), Len(reads'))
        BY <1>1
      <4>2. Len(writes') \in Nat /\ Len(reads') \in Nat
        BY <1>2, LengthTypes DEF Feeds
      <4> QED
        BY <2>2, <4>1, <4>2, LoopFields
    <3>4. \A size : Exact(writes, ready[i].bytes, size) => Exact(writes', ready[i].bytes, size)
      <4>1. Len(ready[i].bytes) \in Nat
        BY <3>3
      <4>2. /\ Len(ready[i].bytes) > 0 => Len(ready[i].bytes) \in 1..Len(ready[i].bytes)
            /\ \A j \in 1..(Len(ready[i].bytes) - 1) : j \in 1..Len(ready[i].bytes)
        BY <4>1
      <4> QED
        BY <3>2, <4>2 DEF Exact
    <3> QED
      BY <2>1, <3>4 DEF ExactHandler
  <2>3. CASE ready[i].what # "read_callback"
    BY <2>1, <2>3 DEF ExactHandler
  <2> QED
    BY <2>2, <2>3
<1>8. \A i \in 1..Len(new) : ExactHandler(new[i], reads, writes')
  BY <1>1 DEF ExactHandler
<1>9. \A i \in 1..Len(ready') : ExactHandler(ready'[i], reads, writes')
  BY <1>1, <1>7, <1>8, ExactMoves
<1> QED
  BY <1>2, <1>5, <1>6, <1>9 DEF ExactInv

-----------------------------------------------------------------------------
(* The theorems *)

(* What holds of a Stream over a StringStream in every state. *)
WayInv == LoopInv /\ FlowInv /\ UntilInv /\ DumpInv

LEMMA WayInvariance == ASSUME NoWrap, ~SlowCaller PROVE LoopSpec => []WayInv
<1>1. LoopInit => WayInv
  BY LoopInitInv DEF WayInv
<1>2. WayInv /\ [LoopNext]_loopVars => WayInv'
  BY LoopStep, FlowStep, DumpStep DEF WayInv
<1> QED
  BY <1>1, <1>2, PTL DEF LoopSpec

(* The bytes of a queued answer and of a callback were written before: the way  *)
(* of FlowInv and the dump of DumpInv lie inside the bytes on the wire.      *)
LEMMA WayIsWritten == ASSUME FlowInv, DumpInv PROVE NothingMadeUp
<1>1. PICK a \in Seq(ByteNames) : FlowWith(a)
  BY DEF FlowInv
<1>2. /\ OneAnswer(ready, readId_, a)
      /\ Inside(handed, ready, CallbacksOf(ready), Behind(dst_, a, readBuffer_, buffer_),
                Content(wire))
  BY <1>1 DEF FlowWith, Flow
<1>3. Callbacks = CallbacksOf(ready) /\ Answers = AnswersTo(ready, readId_)
  BY DEF Callbacks, CallbacksOf, Answers, AnswersTo
<1>4. \A i \in Answers : Content(ready[i].bytes) \subseteq Content(wire)
  BY <1>2, <1>3 DEF OneAnswer, Inside, Behind
<1>5. \A i \in Callbacks : Content(ready[i].bytes) \subseteq Content(wire)
  BY <1>2, <1>3 DEF Inside
<1>6. Brought(Callbacks) \subseteq Content(wire) /\ Brought(Answers) \subseteq Content(wire)
  BY <1>4, <1>5 DEF Brought
<1>7. \A k \in 1..Len(Stages) : Stages[k] \subseteq Content(wire)
  <2>1. /\ Len(Stages) = 6
        /\ Stages[1] = Content(handed) /\ Stages[2] = Brought(Callbacks)
        /\ Stages[3] = Content(dst_) /\ Stages[4] = Brought(Answers)
        /\ Stages[5] = Content(readBuffer_) /\ Stages[6] = Content(buffer_)
    BY DEF Stages
  <2>2. /\ Content(handed) \subseteq Content(wire) /\ Content(dst_) \subseteq Content(wire)
        /\ Content(readBuffer_) \subseteq Content(wire)
        /\ Content(buffer_) \subseteq Content(wire)
    BY <1>2 DEF Inside, Behind
  <2> SUFFICES ASSUME NEW k \in 1..6 PROVE Stages[k] \subseteq Content(wire)
    BY <2>1
  <2>3. k \in {1, 2, 3, 4, 5, 6}
    OBVIOUS
  <2> QED
    BY <1>6, <2>1, <2>2, <2>3
<1>8. \A S \in Content(Stages) : S \subseteq Content(wire)
  BY <1>7 DEF Content
<1>9. Pipeline \subseteq Content(wire)
  BY <1>8 DEF Pipeline
<1>10. Content(rxDumped) \subseteq Content(wire)
  BY DEF DumpInv, DumpLine, Inside
<1> QED
  BY <1>9, <1>10 DEF NothingMadeUp

(* No read gives the user a byte that was not written to the stream, whatever   *)
(* it found in readBuffer_ and wherever it was cut, and none gets into the   *)
(* dump file.                                                                *)
THEOREM NothingIsMadeUp == ASSUME NoWrap, ~SlowCaller PROVE LoopSpec => []NothingMadeUp
<1>1. WayInv => NothingMadeUp
  BY WayIsWritten DEF WayInv
<1> QED
  BY <1>1, WayInvariance, PTL

(* async_write, the StringStream and the reads of Stream bring the bytes to     *)
(* the user in the order of the writes, none twice, whichever reads take them. *)
THEOREM BytesComeInOrder == ASSUME NoWrap, ~SlowCaller PROVE LoopSpec => []PipelineInOrder
<1>1. WayInv => PipelineInOrder
  BY FlowImpliesOrder DEF WayInv
<1> QED
  BY <1>1, WayInvariance, PTL

(* dump_callback writes each byte once and in order, and no byte reaches the    *)
(* user of an open dump without having been written to it.                   *)
THEOREM BytesAreDumpedOnce == ASSUME NoWrap, ~SlowCaller PROVE LoopSpec => []DumpedOnce
<1>1. WayInv => DumpedOnce
  BY DEF WayInv, DumpInv, DumpLine, DumpCovers, Line, DumpedOnce
<1> QED
  BY <1>1, WayInvariance, PTL

(* An async_read_until that did not time out hands over bytes with a delimiter  *)
(* at their end only, or none if they fill the buffer, whatever other reads    *)
(* left in readBuffer_.  A char must compare as a uint8_t for that.           *)
THEOREM ReadsUntilDelimiter ==
    ASSUME NoWrap, ~SlowCaller, ~WideDelimiter
    PROVE  LoopSpec => []UntilExact
<1>1. LoopInit => ExactInv
  <2> SUFFICES ASSUME LoopInit PROVE ExactInv
    OBVIOUS
  <2>1. readId_ = 0 /\ readTimer_ = <<>> /\ ready = <<>>
    BY DEF LoopInit, Init, DevicesInit
  <2> QED
    BY <2>1 DEF ExactInv, UntilRead
<1>2. WayInv /\ ExactInv /\ [LoopNext]_loopVars => ExactInv'
  <2> SUFFICES ASSUME WayInv, ExactInv, [LoopNext]_loopVars PROVE ExactInv'
    OBVIOUS
  <2>1. LoopInv /\ FlowInv
    BY DEF WayInv
  <2>2. CASE LoopInv' /\ Feeds
    BY <2>1, <2>2, ExactFeeds
  <2>3. ASSUME NEW k, NEW new, Calm(k, new) PROVE ExactInv'
    BY <2>1, <2>3, ExactCalm
  <2>4. CASE ReadStep
    <3>1. ServedExact
      BY <2>1, <2>4, ReadStepExact
    <3>2. PICK k \in {0, 1} : ReadServed(k)
      BY <2>1, <2>4, ReadStepServes
    <3> QED
      BY <2>1, <3>1, <3>2, ExactServed
  <2> QED
    BY <2>1, <2>2, <2>3, <2>4, LoopKinds
<1>3. ExactInv => UntilExact
  <2>1. \A b : IsDelimiter(b) <=> Marks(writes, b)
    BY MarksDelimit
  <2> QED
    BY <2>1 DEF ExactInv, ExactHandler, Exact, UntilExact
<1> QED
  BY <1>1, <1>2, <1>3, WayInvariance, PTL DEF LoopSpec

-----------------------------------------------------------------------------
(* Where bytes are lost *)

CallbackBytes(q)   == UNION {Content(q[i].bytes) : i \in CallbacksOf(q)}
AnswerBytes(q, id) == UNION {Content(q[i].bytes) : i \in AnswersTo(q, id)}

Way(q, id, h, d, r, m) ==
    Content(h) \cup CallbackBytes(q) \cup Content(d) \cup AnswerBytes(q, id)
        \cup Content(r) \cup Content(m)

LEMMA SixInAll ==
    \A s1, s2, s3, s4, s5, s6 :
       UNION Content(<<s1, s2, s3, s4, s5, s6>>) = s1 \cup s2 \cup s3 \cup s4 \cup s5 \cup s6
<1> TAKE s1, s2, s3, s4, s5, s6
<1> DEFINE s == <<s1, s2, s3, s4, s5, s6>>
<1>1. /\ Len(s) = 6 /\ 1..6 = {1, 2, 3, 4, 5, 6}
      /\ s[1] = s1 /\ s[2] = s2 /\ s[3] = s3 /\ s[4] = s4 /\ s[5] = s5 /\ s[6] = s6
  OBVIOUS
<1> HIDE DEF s
<1>2. Content(s) = {s1, s2, s3, s4, s5, s6}
  BY <1>1 DEF Content
<1> QED
  BY <1>2 DEF s

LEMMA PipelineIsWay ==
    /\ Pipeline = Way(ready, readId_, handed, dst_, readBuffer_, buffer_)
    /\ Pipeline' = Way(ready', readId_', handed', dst_', readBuffer_', buffer_')
<1>1. /\ Brought(Callbacks) = CallbackBytes(ready)
      /\ Brought(Callbacks)' = CallbackBytes(ready')
      /\ Brought(Answers) = AnswerBytes(ready, readId_)
      /\ Brought(Answers)' = AnswerBytes(ready', readId_')
  BY DEF Brought, Callbacks, Answers, CallbackBytes, AnswerBytes, CallbacksOf, AnswersTo
<1>2. /\ Pipeline = UNION Content(<<Content(handed), CallbackBytes(ready), Content(dst_),
                                    AnswerBytes(ready, readId_), Content(readBuffer_),
                                    Content(buffer_)>>)
      /\ Pipeline' = UNION Content(<<Content(handed'), CallbackBytes(ready'), Content(dst_'),
                                     AnswerBytes(ready', readId_'), Content(readBuffer_'),
                                     Content(buffer_')>>)
  BY <1>1 DEF Pipeline, Stages, Content
<1> QED
  BY <1>2, SixInAll DEF Way

(* What remains in a queue, and what is new there. *)
LEMMA QueueHolds ==
    ASSUME NEW T, ready \in Seq(T), NEW k, NEW new \in Seq(T), Queue(k, new)
    PROVE  /\ \A i \in 1..Len(ready) :
                 i > k => i - k \in 1..Len(ready') /\ ready'[i - k] = ready[i]
           /\ \A j \in 1..Len(new) : /\ Len(ready) - k + j \in 1..Len(ready')
                                     /\ ready'[Len(ready) - k + j] = new[j]
<1> DEFINE rest == IF k = 0 THEN ready ELSE Tail(ready)
<1>1. k \in {0, 1} /\ k <= Len(ready) /\ ready' = rest \o new
  BY DEF Queue
<1>2. /\ rest \in Seq(T) /\ Len(rest) = Len(ready) - k
      /\ \A i \in 1..Len(rest) : rest[i] = ready[i + k]
  <2>1. CASE k = 0
    BY <2>1
  <2>2. CASE k = 1
    <3>1. Tail(ready) \in Seq(T) /\ Len(Tail(ready)) = Len(ready) - 1
      BY <1>1, <2>2
    <3>2. \A i \in 1..(Len(ready) - 1) : Tail(ready)[i] = ready[i + 1]
      BY <1>1, <2>2
    <3> QED
      BY <2>2, <3>1, <3>2
  <2> QED
    BY <1>1, <2>1, <2>2
<1> HIDE DEF rest
<1>3. /\ Len(ready') = Len(rest) + Len(new) /\ Len(ready) \in Nat /\ Len(new) \in Nat
      /\ \A i \in 1..(Len(rest) + Len(new)) :
            ready'[i] = IF i <= Len(rest) THEN rest[i] ELSE new[i - Len(rest)]
  BY <1>1, <1>2
<1>4. ASSUME NEW i \in 1..Len(ready), i > k
      PROVE  i - k \in 1..Len(ready') /\ ready'[i - k] = ready[i]
  <2>1. i - k \in 1..Len(rest) /\ i - k \in 1..(Len(rest) + Len(new)) /\ i - k + k = i
    BY <1>1, <1>2, <1>3, <1>4
  <2> QED
    BY <1>2, <1>3, <2>1
<1>5. ASSUME NEW j \in 1..Len(new)
      PROVE  /\ Len(ready) - k + j \in 1..Len(ready')
             /\ ready'[Len(ready) - k + j] = new[j]
  <2>1. /\ Len(rest) + j \in 1..(Len(rest) + Len(new)) /\ ~(Len(rest) + j <= Len(rest))
        /\ Len(rest) + j - Len(rest) = j
    BY <1>1, <1>2, <1>3
  <2> QED
    BY <1>2, <1>3, <2>1
<1> QED
  BY <1>4, <1>5

(* A queue that moves loses the bytes of its head only. *)
LEMMA QueueLoses ==
    ASSUME NEW T, ready \in Seq(T), NEW k, NEW new \in Seq(T), Queue(k, new), NEW id
    PROVE  /\ \A b \in CallbackBytes(ready) :
                 \/ b \in CallbackBytes(ready')
                 \/ k = 1 /\ Head(ready).what = "read_callback" /\ b \in Content(Head(ready).bytes)
           /\ \A b \in AnswerBytes(ready, id) :
                 \/ b \in AnswerBytes(ready', id)
                 \/ /\ k = 1 /\ Head(ready).what = "read_continue" /\ Head(ready).id = id
                    /\ b \in Content(Head(ready).bytes)
           /\ CallbackBytes(new) \subseteq CallbackBytes(ready')
           /\ AnswerBytes(new, id) \subseteq AnswerBytes(ready', id)
<1>1. /\ \A i \in 1..Len(ready) :
            i > k => i - k \in 1..Len(ready') /\ ready'[i - k] = ready[i]
      /\ \A j \in 1..Len(new) : /\ Len(ready) - k + j \in 1..Len(ready')
                                /\ ready'[Len(ready) - k + j] = new[j]
  BY QueueHolds
<1>2. \A i \in 1..Len(ready) : i > k \/ (k = 1 /\ ready[i] = Head(ready))
  <2>1. k \in {0, 1} /\ k <= Len(ready) /\ Len(ready) \in Nat
    BY DEF Queue
  <2>2. k = 1 => Head(ready) = ready[1]
    BY <2>1
  <2> QED
    BY <2>1, <2>2
<1>3. ASSUME NEW b \in CallbackBytes(ready)
      PROVE  \/ b \in CallbackBytes(ready')
             \/ k = 1 /\ Head(ready).what = "read_callback" /\ b \in Content(Head(ready).bytes)
  <2>1. PICK i \in 1..Len(ready) : ready[i].what = "read_callback" /\ b \in Content(ready[i].bytes)
    BY DEF CallbackBytes, CallbacksOf
  <2>2. CASE i > k
    BY <1>1, <2>1, <2>2 DEF CallbackBytes, CallbacksOf
  <2> QED
    BY <1>2, <2>1, <2>2
<1>4. ASSUME NEW b \in AnswerBytes(ready, id)
      PROVE  \/ b \in AnswerBytes(ready', id)
             \/ /\ k = 1 /\ Head(ready).what = "read_continue" /\ Head(ready).id = id
                /\ b \in Content(Head(ready).bytes)
  <2>1. PICK i \in 1..Len(ready) : /\ ready[i].what = "read_continue" /\ ready[i].id = id
                                   /\ b \in Content(ready[i].bytes)
    BY DEF AnswerBytes, AnswersTo
  <2>2. CASE i > k
    BY <1>1, <2>1, <2>2 DEF AnswerBytes, AnswersTo
  <2> QED
    BY <1>2, <2>1, <2>2
<1>5. CallbackBytes(new) \subseteq CallbackBytes(ready')
  BY <1>1 DEF CallbackBytes, CallbacksOf
<1>6. AnswerBytes(new, id) \subseteq AnswerBytes(ready', id)
  BY <1>1 DEF AnswerBytes, AnswersTo
<1> QED
  BY <1>3, <1>4, <1>5, <1>6

-----------------------------------------------------------------------------
(* What a step that serves a read does with the bytes: those of L are lost.    *)
AtHandBytes(k) ==
    IF k = 1 THEN Content(dst_) \cup Content(Head(ready).bytes) ELSE {}

WaitsOn(e) ==
    /\ e.what = "read_continue" /\ e.id = readId_' /\ readId_' = Len(reads')
    /\ reads'[readId_'].kind = "some" => dst_' = <<>>
    /\ readBuffer_' # <<>> => Len(dst_') + Len(e.bytes) >= reads'[readId_'].size

Passes(k, e, L) ==
    /\ \E timers \in {<<>>, readTimer_} : (k = 1 => timers = <<>>) /\ Queue(k, timers \o <<e>>)
    /\ e \in ReadKnown(Len(reads'))
    /\ \/ e.what = "read_callback" /\ readId_' = 0 /\ dst_' = <<>>
       \/ WaitsOn(e)
    /\ AtHandBytes(k) \cup Content(readBuffer_) \cup Content(buffer_)
          \subseteq Content(dst_') \cup Content(e.bytes) \cup Content(readBuffer_')
                       \cup Content(buffer_') \cup L

(* At most one byte, which waits in readBuffer_ while a read is accepted.      *)
OneAtMost(k, L) == L = {} \/ (k = 0 /\ \E b \in Content(readBuffer_) : L = {b})

(* A read that waits for bytes has none yet, if any will do; and nothing is    *)
(* left in readBuffer_ when its answer is not all it needs.                   *)
RestInv ==
    /\ readId_ = 0 \/ reads[readId_].kind = "some" => dst_ = <<>>
    /\ readId_ # 0 /\ readBuffer_ # <<>> =>
          \A i \in AnswersTo(ready, readId_) :
             Len(dst_) + Len(ready[i].bytes) >= reads[readId_].size

LEMMA CutKeeps ==
    ASSUME NEW S, NEW s \in Seq(S), NEW i \in 0..Len(s)
    PROVE  /\ Content(s) \subseteq Content(SubSeq(s, 1, i)) \cup Content(SubSeq(s, i + 1, Len(s)))
           /\ i < Len(s) => Content(s) \subseteq Content(SubSeq(s, 1, i)) \cup {s[i + 1]}
                                                   \cup Content(SubSeq(s, i + 2, Len(s)))
           /\ i < Len(s) => s[i + 1] \in Content(s)
           /\ Len(SubSeq(s, 1, i)) = i
           /\ i = Len(s) => SubSeq(s, i + 2, Len(s)) = <<>> /\ SubSeq(s, 1, i) = s
<1>1. Len(s) \in Nat /\ i \in Nat /\ i <= Len(s)
  OBVIOUS
<1>2. Len(SubSeq(s, 1, i)) = i /\ \A j \in 1..i : SubSeq(s, 1, i)[j] = s[j]
  BY <1>1, SubSeqFacts
<1>3. ASSUME NEW m \in {1, 2}
      PROVE  \A j \in (i + m)..Len(s) :
                /\ j - (i + m) + 1 \in 1..Len(SubSeq(s, i + m, Len(s)))
                /\ SubSeq(s, i + m, Len(s))[j - (i + m) + 1] = s[j]
  <2>1. /\ i + m \in Nat /\ i + m > 0 /\ Len(s) \in 0..Len(s)
    BY <1>1
  <2>2. /\ Len(SubSeq(s, i + m, Len(s))) = IF i + m <= Len(s) THEN Len(s) - (i + m) + 1 ELSE 0
        /\ \A j \in 1..Len(SubSeq(s, i + m, Len(s))) :
              SubSeq(s, i + m, Len(s))[j] = s[j + (i + m) - 1]
    BY <2>1, SubSeqFacts
  <2> SUFFICES ASSUME NEW j \in (i + m)..Len(s)
               PROVE  /\ j - (i + m) + 1 \in 1..Len(SubSeq(s, i + m, Len(s)))
                      /\ SubSeq(s, i + m, Len(s))[j - (i + m) + 1] = s[j]
    OBVIOUS
  <2>3. /\ j - (i + m) + 1 \in 1..Len(SubSeq(s, i + m, Len(s)))
        /\ j - (i + m) + 1 + (i + m) - 1 = j
    BY <1>1, <2>1, <2>2
  <2> QED
    BY <2>2, <2>3
<1>4. \A m \in {1, 2} : \A j \in (i + m)..Len(s) : s[j] \in Content(SubSeq(s, i + m, Len(s)))
  <2> TAKE m \in {1, 2}
  <2> TAKE j \in (i + m)..Len(s)
  <2> DEFINE left == SubSeq(s, i + m, Len(s))
  <2>1. /\ j - (i + m) + 1 \in 1..Len(left)
        /\ left[j - (i + m) + 1] = s[j]
    BY <1>3
  <2>2. \E p \in 1..Len(left) : left[p] = s[j]
    BY <2>1
  <2> HIDE DEF left
  <2>3. s[j] \in Content(left)
    BY <2>2 DEF Content
  <2> QED
    BY <2>3 DEF left
<1>5. \A j \in 1..i : s[j] \in Content(SubSeq(s, 1, i))
  BY <1>2 DEF Content
<1>6. \A j \in 1..Len(s) : \/ j \in 1..i
                           \/ j = i + 1
                           \/ j \in (i + 2)..Len(s)
  BY <1>1
<1>7. \A j \in 1..Len(s) : j \in 1..i \/ j \in (i + 1)..Len(s)
  BY <1>1
<1>8. Content(s) \subseteq Content(SubSeq(s, 1, i)) \cup Content(SubSeq(s, i + 1, Len(s)))
  <2>1. \A j \in 1..Len(s) :
           s[j] \in Content(SubSeq(s, 1, i)) \cup Content(SubSeq(s, i + 1, Len(s)))
    BY <1>4, <1>5, <1>7
  <2> QED
    BY <2>1 DEF Content
<1>9. Content(s) \subseteq Content(SubSeq(s, 1, i)) \cup {s[i + 1]}
                             \cup Content(SubSeq(s, i + 2, Len(s)))
  <2>1. \A j \in 1..Len(s) :
           s[j] \in Content(SubSeq(s, 1, i)) \cup {s[i + 1]}
                      \cup Content(SubSeq(s, i + 2, Len(s)))
    BY <1>4, <1>5, <1>6
  <2> QED
    BY <2>1 DEF Content
<1>10. i < Len(s) => s[i + 1] \in Content(s)
  BY <1>1 DEF Content
<1>11. i = Len(s) => SubSeq(s, i + 2, Len(s)) = <<>> /\ SubSeq(s, 1, i) = s
  BY <1>1
<1> QED
  BY <1>2, <1>8, <1>9, <1>10, <1>11

(* do_read_some: what is asked of readBuffer_ and of the memory.              *)
LEMMA ReadSomeKeeps ==
    ASSUME LoopInv, NEW held \in Seq(ByteNames), NEW n \in Nat, NEW id, NEW queue,
           DoReadSome(n, id, queue, held)
    PROVE  \E taken, tapped, L :
              /\ taken \in Seq(ByteNames) /\ tapped \in BOOLEAN
              /\ ready' = Append(queue, ReadHandler("read_continue", id, taken, tapped))
              /\ Content(held) \cup Content(buffer_)
                    \subseteq Content(taken) \cup Content(readBuffer_') \cup Content(buffer_') \cup L
              /\ L = {} \/ \E b \in Content(held) : L = {b}
              /\ readBuffer_' # <<>> => held # <<>> /\ Len(taken) >= n
<1> DEFINE least(s) == IF n < Len(s) THEN n ELSE Len(s)
<1>1. buffer_ \in Seq(ByteNames) /\ dumping \in BOOLEAN
  BY DEF LoopInv, LoopTypes, WriterTypesOK
<1>2. \A s \in Seq(ByteNames) :
         /\ least(s) \in 0..Len(s) /\ Len(s) \in Nat
         /\ least(s) = Len(s) \/ (least(s) < Len(s) /\ least(s) = n)
         /\ SubSeq(s, 1, least(s)) \in Seq(ByteNames)
  OBVIOUS
<1>3. CASE held # <<>>
  <2> DEFINE taken == SubSeq(held, 1, least(held))
             lost  == IF least(held) < Len(held) THEN {held[least(held) + 1]} ELSE {}
  <2>1. /\ ready' = Append(queue, ReadHandler("read_continue", id, taken, FALSE))
        /\ readBuffer_' = SubSeq(held, least(held) + 2, Len(held))
        /\ buffer_' = buffer_
    BY <1>3 DEF DoReadSome
  <2>2. /\ least(held) \in 0..Len(held) /\ Len(held) \in Nat
        /\ least(held) = Len(held) \/ (least(held) < Len(held) /\ least(held) = n)
        /\ taken \in Seq(ByteNames)
    BY <1>2
  <2> HIDE DEF least
  <2>3. /\ least(held) < Len(held) =>
              /\ Content(held) \subseteq Content(taken) \cup {held[least(held) + 1]}
                                           \cup Content(readBuffer_')
              /\ held[least(held) + 1] \in Content(held)
        /\ Len(taken) = least(held)
        /\ least(held) = Len(held) => readBuffer_' = <<>> /\ taken = held
    BY <2>1, <2>2, CutKeeps
  <2>4. Content(held) \subseteq Content(taken) \cup Content(readBuffer_') \cup lost
    BY <2>2, <2>3
  <2>5. lost = {} \/ \E b \in Content(held) : lost = {b}
    BY <2>3
  <2>6. readBuffer_' # <<>> => Len(taken) >= n
    BY <2>2, <2>3
  <2> HIDE DEF taken, lost
  <2> QED
    BY <1>3, <2>1, <2>2, <2>4, <2>5, <2>6
<1>4. CASE held = <<>>
  <2> DEFINE taken == SubSeq(buffer_, 1, least(buffer_))
  <2>1. /\ ready' = Append(queue, ReadHandler("read_continue", id, taken, dumping))
        /\ buffer_' = SubSeq(buffer_, least(buffer_) + 1, Len(buffer_))
        /\ readBuffer_' = <<>>
    BY <1>4 DEF DoReadSome, StringRead
  <2>2. least(buffer_) \in 0..Len(buffer_) /\ taken \in Seq(ByteNames)
    BY <1>1, <1>2
  <2> HIDE DEF least
  <2>3. Content(buffer_) \subseteq Content(taken) \cup Content(buffer_')
    BY <1>1, <2>1, <2>2, CutKeeps
  <2>4. Content(held) = {}
    BY <1>4, NoBytesAtAll DEF NoBytes
  <2> HIDE DEF taken
  <2> QED
    BY <1>1, <2>1, <2>2, <2>3, <2>4
<1> QED
  BY <1>3, <1>4

(* Going on asks; finish_read ends. *)
LEMMA AsksPass ==
    ASSUME LoopInv, NEW k \in {0, 1}, NEW timers \in {<<>>, readTimer_},
           k = 1 => ready # <<>> /\ timers = <<>>,
           Len(reads') \in Nat, Len(reads') > 0, Len(reads) <= Len(reads'),
           NEW read \in Requests, reads'[Len(reads')] = read,
           NEW d \in Seq(ByteNames), NEW r \in Seq(ByteNames), NEW n \in Nat,
           GoOnReading(Len(reads'), d, n, IF k = 0 THEN ready \o timers ELSE Tail(ready), r),
           AtHandBytes(k) \cup Content(readBuffer_) \subseteq Content(d) \cup Content(r),
           r = <<>> \/ (k = 0 /\ r = readBuffer_),
           read.kind = "some" => d = <<>>,
           r # <<>> => Len(d) + n >= read.size
    PROVE  \E e, L : Passes(k, e, L) /\ OneAtMost(k, L)
<1> DEFINE queue == IF k = 0 THEN ready \o timers ELSE Tail(ready)
<1>1. readId_' = Len(reads') /\ dst_' = d /\ DoReadSome(n, Len(reads'), queue, r)
  BY DEF GoOnReading
<1>2. PICK taken, tapped, L :
         /\ taken \in Seq(ByteNames) /\ tapped \in BOOLEAN
         /\ ready' = Append(queue, ReadHandler("read_continue", Len(reads'), taken, tapped))
         /\ Content(r) \cup Content(buffer_)
               \subseteq Content(taken) \cup Content(readBuffer_') \cup Content(buffer_') \cup L
         /\ L = {} \/ \E b \in Content(r) : L = {b}
         /\ readBuffer_' # <<>> => r # <<>> /\ Len(taken) >= n
  <2> HIDE DEF queue
  <2> QED
    BY <1>1, ReadSomeKeeps
<1> DEFINE e == ReadHandler("read_continue", Len(reads'), taken, tapped)
<1>3. /\ e \in ReadKnown(Len(reads')) /\ e.what = "read_continue" /\ e.id = Len(reads')
      /\ e.bytes = taken
  <2>1. e \in ReadKnown(Len(reads'))
    BY <1>2, ReadHandlerType
  <2> QED
    BY <2>1 DEF ReadHandler
<1>4. Queue(k, timers \o <<e>>)
  <2> HIDE DEF e
  <2>1. ready' = Append(queue, e)
    BY <1>2 DEF e
  <2> QED
    BY <1>3, <2>1, QueueJoins
<1> HIDE DEF e, queue
<1>5. OneAtMost(k, L)
  <2>1. Content(<<>>) = {}
    BY NoBytesAtAll DEF NoBytes
  <2> QED
    BY <1>2, <2>1 DEF OneAtMost
<1>6. WaitsOn(e)
  <2>1. read.size \in Nat /\ Len(d) \in Nat /\ Len(taken) \in Nat
    BY RequestTypesOf
  <2>2. readBuffer_' # <<>> => Len(d) + Len(taken) >= read.size
    BY <1>2, <2>1
  <2> QED
    BY <1>1, <1>3, <2>2 DEF WaitsOn
<1>7. AtHandBytes(k) \cup Content(readBuffer_) \cup Content(buffer_)
         \subseteq Content(dst_') \cup Content(e.bytes) \cup Content(readBuffer_')
                      \cup Content(buffer_') \cup L
  BY <1>1, <1>2, <1>3
<1>8. Passes(k, e, L)
  BY <1>3, <1>4, <1>6, <1>7 DEF Passes
<1> QED
  BY <1>5, <1>8

LEMMA EndsPass ==
    ASSUME LoopInv, NEW k \in {0, 1}, NEW timers \in {<<>>, readTimer_},
           k = 1 => ready # <<>> /\ timers = <<>>,
           Len(reads') \in Nat, Len(reads') > 0, Len(reads) <= Len(reads'),
           NEW d \in Seq(ByteNames), NEW r,
           FinishRead(Len(reads'), d, IF k = 0 THEN ready \o timers ELSE Tail(ready)),
           readBuffer_' = r, buffer_' = buffer_,
           AtHandBytes(k) \cup Content(readBuffer_) \subseteq Content(d) \cup Content(r)
    PROVE  \E e, L : Passes(k, e, L) /\ OneAtMost(k, L)
<1> DEFINE e == ReadHandler("read_callback", Len(reads'), d, FALSE)
<1>1. /\ e \in ReadKnown(Len(reads')) /\ e.what = "read_callback" /\ e.bytes = d
  <2>1. e \in ReadKnown(Len(reads'))
    BY ReadHandlerType
  <2> QED
    BY <2>1 DEF ReadHandler
<1>2. Queue(k, timers \o <<e>>)
  <2>1. ready' = Append(IF k = 0 THEN ready \o timers ELSE Tail(ready), e)
    BY DEF FinishRead
  <2> HIDE DEF e
  <2> QED
    BY <1>1, <2>1, QueueJoins
<1>3. readId_' = 0 /\ dst_' = <<>>
  BY DEF FinishRead
<1> HIDE DEF e
<1>4. AtHandBytes(k) \cup Content(readBuffer_) \cup Content(buffer_)
         \subseteq Content(dst_') \cup Content(e.bytes) \cup Content(readBuffer_')
                      \cup Content(buffer_') \cup {}
  BY <1>1
<1>5. Passes(k, e, {}) /\ OneAtMost(k, {})
  BY <1>1, <1>2, <1>3, <1>4 DEF Passes, OneAtMost
<1> QED
  BY <1>5

LEMMA NewReadPasses ==
    ASSUME LoopInv, NEW t \in Threads, NewRead(t)
    PROVE  \E e, L : Passes(0, e, L) /\ OneAtMost(0, L)
<1> DEFINE id == Len(reads) + 1
<1>1. PICK read \in Requests :
         /\ reads' = Append(reads, read)
         /\ LET queue == IF read.timed THEN ready \o readTimer_ ELSE ready
            IN  \/ read.kind # "until" /\ GoOnReading(id, <<>>, read.size, queue, readBuffer_)
                \/ read.kind = "until" /\ StartUntil(id, read.size, queue)
  BY Zenon DEF NewRead
<1> DEFINE timers == IF read.timed THEN readTimer_ ELSE <<>>
           queue  == IF 0 = 0 THEN ready \o timers ELSE Tail(ready)
<1>2. /\ Len(reads) \in Nat /\ Len(reads') = id /\ reads'[Len(reads')] = read
      /\ Len(reads') \in Nat /\ Len(reads') > 0 /\ Len(reads) <= Len(reads')
      /\ readBuffer_ \in Seq(ByteNames)
      /\ read.size \in Nat /\ read.kind \in {"some", "all", "until"} /\ read.timed \in BOOLEAN
  BY <1>1, LengthTypes, RequestTypesOf DEF LoopInv, LoopTypes, ReaderTypesOK
<1>3. /\ timers \in {<<>>, readTimer_}
      /\ queue = IF read.timed THEN ready \o readTimer_ ELSE ready
  <2>1. ready \o <<>> = ready
    BY DEF LoopInv, LoopTypes
  <2> QED
    BY <1>2, <2>1
<1>4. \/ read.kind # "until" /\ GoOnReading(Len(reads'), <<>>, read.size, queue, readBuffer_)
      \/ read.kind = "until" /\ StartUntil(Len(reads'), read.size, queue)
  BY <1>1, <1>2, <1>3
<1>5. /\ Content(<<>>) = {} /\ <<>> \in Seq(ByteNames) /\ Len(<<>>) = 0
      /\ AtHandBytes(0) = {} /\ 0 \in {0, 1} /\ (0 = 1 => ready # <<>> /\ timers = <<>>)
  BY NoBytesAtAll DEF NoBytes, AtHandBytes
<1> HIDE DEF timers
<1>6. CASE read.kind # "until" /\ GoOnReading(Len(reads'), <<>>, read.size, queue, readBuffer_)
  <2>1. AtHandBytes(0) \cup Content(readBuffer_) \subseteq Content(<<>>) \cup Content(readBuffer_)
    BY <1>5
  <2>2. Len(<<>>) + read.size >= read.size
    BY <1>2, <1>5
  <2>3. <<>> = <<>> /\ readBuffer_ = readBuffer_
    OBVIOUS
  <2> QED
    BY <1>2, <1>3, <1>5, <1>6, <2>1, <2>2, <2>3, AsksPass
<1>7. CASE read.kind = "until" /\ StartUntil(Len(reads'), read.size, queue)
  <2>1. PICK stop \in 0..Len(readBuffer_) \cup {read.size} :
           \/ /\ stop <= Len(readBuffer_)
              /\ FinishRead(Len(reads'), Upto(stop, readBuffer_), queue)
              /\ readBuffer_' = After(stop, readBuffer_)
              /\ buffer_' = buffer_
           \/ GoOnReading(Len(reads'), readBuffer_, read.size, queue, <<>>)
    <3> HIDE DEF queue
    <3> QED
      BY <1>7 DEF StartUntil
  <2>2. CASE /\ stop <= Len(readBuffer_)
             /\ FinishRead(Len(reads'), Upto(stop, readBuffer_), queue)
             /\ readBuffer_' = After(stop, readBuffer_)
             /\ buffer_' = buffer_
    <3>1. stop \in 0..Len(readBuffer_)
      BY <1>2, <2>1, <2>2
    <3>2. Upto(stop, readBuffer_) \in Seq(ByteNames)
      BY <1>2, <3>1 DEF Upto
    <3>3. AtHandBytes(0) \cup Content(readBuffer_)
             \subseteq Content(Upto(stop, readBuffer_)) \cup Content(After(stop, readBuffer_))
      BY <1>2, <1>5, <3>1, CutKeeps DEF Upto, After
    <3> QED
      BY <1>2, <1>3, <1>5, <2>2, <3>2, <3>3, EndsPass
  <2>3. CASE GoOnReading(Len(reads'), readBuffer_, read.size, queue, <<>>)
    <3>1. AtHandBytes(0) \cup Content(readBuffer_) \subseteq Content(readBuffer_) \cup Content(<<>>)
      BY <1>5
    <3>2. read.kind # "some"
      BY <1>7
    <3> QED
      BY <1>2, <1>3, <1>5, <2>3, <3>1, <3>2, AsksPass
  <2> QED
    BY <2>1, <2>2, <2>3
<1> QED
  BY <1>4, <1>6, <1>7

LEMMA ReadContinuePasses ==
    ASSUME LoopInv, RestInv, ReadContinue
    PROVE  \E e, L : Passes(1, e, L) /\ OneAtMost(1, L)
<1> DEFINE handler == Head(ready)
           bytes   == dst_ \o handler.bytes
           read    == reads[readId_]
<1>1. /\ Takes1("read_continue") /\ handler.what = "read_continue" /\ ready # <<>>
      /\ handler.id = readId_
      /\ RxDumpCallback(handler)
      /\ \/ ContinueReadSome(handler, read)
         \/ ContinueReadAll(handler, read)
         \/ ContinueReadUntil(handler, read)
  BY Zenon DEF ReadContinue, NextHandler, Takes1
<1>2. /\ readId_ = Len(reads) /\ Len(reads) > 0 /\ Len(reads) \in Nat /\ reads' = reads
      /\ read \in Requests
      /\ handler.bytes \in Seq(ByteNames)
      /\ dst_ \in Seq(ByteNames) /\ readBuffer_ \in Seq(ByteNames)
  BY <1>1, TakesCurrent
<1>3. /\ bytes \in Seq(ByteNames) /\ Len(bytes) \in Nat /\ read.size \in Nat
      /\ Len(bytes) = Len(dst_) + Len(handler.bytes)
      /\ Content(bytes) = Content(dst_) \cup Content(handler.bytes)
  <2>1. Content(bytes) = Content(dst_) \cup Content(handler.bytes)
    BY <1>2, ContentConcat
  <2> HIDE DEF handler
  <2> QED
    BY <1>2, <2>1, RequestTypesOf
<1>4. AtHandBytes(1) = Content(dst_) \cup Content(handler.bytes)
  BY DEF AtHandBytes
<1>5. read.kind = "some" => dst_ = <<>>
  BY DEF RestInv
<1>6. readBuffer_ # <<>> => Len(bytes) >= read.size
  <2>1. 1 \in AnswersTo(ready, readId_) /\ ready[1] = handler
    <3>1. 1 \in 1..Len(ready) /\ ready[1] = handler
      BY <1>1, HeadOf
    <3> QED
      BY <1>1, <3>1 DEF AnswersTo
  <2>2. readId_ # 0
    BY <1>2
  <2> QED
    BY <1>3, <2>1, <2>2 DEF RestInv
<1>7. /\ Len(reads') \in Nat /\ Len(reads') > 0 /\ Len(reads) <= Len(reads')
      /\ readId_ = Len(reads') /\ reads'[Len(reads')] = read
      /\ Tail(ready) = IF 1 = 0 THEN ready \o <<>> ELSE Tail(ready)
      /\ 1 \in {0, 1} /\ <<>> \in {<<>>, readTimer_} /\ (1 = 1 => ready # <<>> /\ <<>> = <<>>)
      /\ Content(<<>>) = {} /\ <<>> \in Seq(ByteNames)
  BY <1>1, <1>2, NoBytesAtAll DEF NoBytes
<1> HIDE DEF handler, bytes, read
<1>8. ASSUME NEW d \in Seq(ByteNames), NEW r \in Seq(ByteNames),
             FinishRead(readId_, d, Tail(ready)), readBuffer_' = r, buffer_' = buffer_,
             Content(dst_) \cup Content(handler.bytes) \cup Content(readBuffer_)
                \subseteq Content(d) \cup Content(r)
      PROVE  \E e, L : Passes(1, e, L) /\ OneAtMost(1, L)
  BY <1>4, <1>7, <1>8, EndsPass
<1>9. CASE ContinueReadSome(handler, read)
  <2>1. /\ FinishRead(readId_, handler.bytes, Tail(ready))
        /\ readBuffer_' = readBuffer_ /\ buffer_' = buffer_ /\ dst_ = <<>>
    BY <1>5, <1>9 DEF ContinueReadSome
  <2> QED
    BY <1>2, <1>7, <1>8, <2>1
<1>10. ASSUME ContinueReading(handler, read), read.kind # "some"
       PROVE  \E e, L : Passes(1, e, L) /\ OneAtMost(1, L)
  <2>1. CASE /\ FinishRead(readId_, bytes, Tail(ready))
             /\ readBuffer_' = readBuffer_ /\ buffer_' = buffer_
    BY <1>2, <1>3, <1>8, <2>1
  <2>2. CASE /\ Len(bytes) < read.size
             /\ GoOnReading(readId_, bytes, read.size - Len(bytes), Tail(ready), readBuffer_)
    <3>1. read.size - Len(bytes) \in Nat /\ readBuffer_ = <<>>
      BY <1>3, <1>6, <2>2
    <3>2. GoOnReading(Len(reads'), bytes, read.size - Len(bytes),
                      IF 1 = 0 THEN ready \o <<>> ELSE Tail(ready), <<>>)
      BY <1>7, <2>2, <3>1
    <3>3. AtHandBytes(1) \cup Content(readBuffer_) \subseteq Content(bytes) \cup Content(<<>>)
      BY <1>3, <1>4, <3>1
    <3> QED
      BY <1>2, <1>3, <1>7, <1>10, <3>1, <3>2, <3>3, AsksPass
  <2> QED
    BY <1>10, <2>1, <2>2 DEF ContinueReading, bytes
<1>11. CASE ContinueReadUntil(handler, read)
  <2>1. PICK found \in 0..Len(handler.bytes) :
           \/ /\ FinishRead(readId_, dst_ \o Upto(found, handler.bytes), Tail(ready))
              /\ readBuffer_' = readBuffer_ \o After(found, handler.bytes)
              /\ buffer_' = buffer_
           \/ ContinueReading(handler, read)
    BY <1>11 DEF ContinueReadUntil
  <2>2. CASE /\ FinishRead(readId_, dst_ \o Upto(found, handler.bytes), Tail(ready))
             /\ readBuffer_' = readBuffer_ \o After(found, handler.bytes)
             /\ buffer_' = buffer_
    <3> DEFINE taken == Upto(found, handler.bytes)
               left  == After(found, handler.bytes)
    <3>1. Splits(handler.bytes, taken, left)
      BY <1>2, SplitEnds
    <3>2. taken \in Seq(ByteNames) /\ left \in Seq(ByteNames)
      BY <1>2, <3>1, SplitParts
    <3>3. Content(handler.bytes) \subseteq Content(taken) \cup Content(left)
      BY <1>2, CutKeeps DEF Upto, After
    <3> HIDE DEF taken, left
    <3>4. /\ dst_ \o taken \in Seq(ByteNames) /\ readBuffer_ \o left \in Seq(ByteNames)
          /\ Content(dst_ \o taken) = Content(dst_) \cup Content(taken)
          /\ Content(readBuffer_ \o left) = Content(readBuffer_) \cup Content(left)
      BY <1>2, <3>2, ConcatType, ContentConcat
    <3>5. /\ FinishRead(readId_, dst_ \o taken, Tail(ready))
          /\ readBuffer_' = readBuffer_ \o left /\ buffer_' = buffer_
      BY <2>2 DEF taken, left
    <3> QED
      BY <1>8, <3>3, <3>4, <3>5
  <2>3. read.kind # "some"
    BY <1>11 DEF ContinueReadUntil
  <2> QED
    BY <1>10, <2>1, <2>2, <2>3
<1> QED
  BY <1>1, <1>9, <1>10, <1>11 DEF ContinueReadAll

(* No answer is for no read. *)
LEMMA NoneForZero == ASSUME LoopInv PROVE AnswerBytes(ready, 0) = {}
<1>1. /\ ready \in Seq(LoopKnown(Len(writes), Len(reads)))
      /\ Len(writes) \in Nat /\ Len(reads) \in Nat
  BY LengthTypes DEF LoopInv, LoopTypes
<1>2. \A i \in 1..Len(ready) : ready[i].what = "read_continue" => ready[i].id \in 1..Len(reads)
  <2>1. \A i \in 1..Len(ready) : ready[i] \in LoopKnown(Len(writes), Len(reads))
    BY <1>1
  <2> QED
    BY <1>1, <2>1, LoopFields
<1>3. AnswersTo(ready, 0) = {}
  BY <1>2 DEF AnswersTo
<1> QED
  BY <1>3 DEF AnswerBytes

(* The bytes of a handler that has joined are in the queue. *)
LEMMA JoinedBytes ==
    ASSUME LoopInv, NEW k \in {0, 1}, Len(reads') \in Nat, Len(reads) <= Len(reads'),
           NEW timers \in {<<>>, readTimer_}, NEW e \in ReadKnown(Len(reads')),
           Queue(k, timers \o <<e>>), NEW id
    PROVE  /\ e.what = "read_callback" => Content(e.bytes) \subseteq CallbackBytes(ready')
           /\ e.what = "read_continue" /\ e.id = id =>
                 Content(e.bytes) \subseteq AnswerBytes(ready', id)
           /\ \A b \in CallbackBytes(ready) :
                 \/ b \in CallbackBytes(ready')
                 \/ k = 1 /\ Head(ready).what = "read_callback" /\ b \in Content(Head(ready).bytes)
           /\ e.what = "read_continue" /\ e.id = id =>
                 \E i \in AnswersTo(ready', id) : ready'[i] = e
<1> DEFINE T == LoopKnown(Len(writes), Len(reads'))
           new == timers \o <<e>>
<1>1. ready \in Seq(T) /\ timers \in Seq(T) /\ e \in T
  BY TimersType
<1> HIDE DEF T
<1>2. new \in Seq(T) /\ Len(new) \in 1..Len(new) /\ new[Len(new)] = e
  BY ONLY <1>1
<1>3. Queue(k, new)
  OBVIOUS
<1> HIDE DEF new
<1>4. /\ \A b \in CallbackBytes(ready) :
            \/ b \in CallbackBytes(ready')
            \/ k = 1 /\ Head(ready).what = "read_callback" /\ b \in Content(Head(ready).bytes)
      /\ CallbackBytes(new) \subseteq CallbackBytes(ready')
      /\ AnswerBytes(new, id) \subseteq AnswerBytes(ready', id)
  BY ONLY <1>1, <1>2, <1>3, QueueLoses
<1>5. e.what = "read_callback" => Content(e.bytes) \subseteq CallbackBytes(new)
  BY <1>2 DEF CallbackBytes, CallbacksOf
<1>6. e.what = "read_continue" /\ e.id = id => Content(e.bytes) \subseteq AnswerBytes(new, id)
  BY <1>2 DEF AnswerBytes, AnswersTo
<1>7. \E i \in 1..Len(ready') : ready'[i] = e
  <2>1. /\ Len(ready) - k + Len(new) \in 1..Len(ready')
        /\ ready'[Len(ready) - k + Len(new)] = new[Len(new)]
    BY ONLY <1>1, <1>2, <1>3, QueueHolds
  <2> QED
    BY <1>2, <2>1
<1>8. e.what = "read_continue" /\ e.id = id => \E i \in AnswersTo(ready', id) : ready'[i] = e
  BY <1>7 DEF AnswersTo
<1> QED
  BY <1>4, <1>5, <1>6, <1>8

(* A read that is served, and not timed out, keeps all bytes but L on the way. *)
LEMMA PassesOn ==
    ASSUME LoopInv, LoopInv', FlowInv, RestInv, NEW k \in {0, 1}, Serves(k),
           k = 1 => Head(ready).what = "read_continue", NEW e, NEW L, Passes(k, e, L)
    PROVE  Pipeline \subseteq Pipeline' \cup L
<1>1. /\ Len(reads') \in Nat /\ Len(reads) <= Len(reads')
      /\ k = 1 => ready # <<>> /\ Head(ready).id = readId_
      /\ k = 0 => readId_ = 0
      /\ handed' = handed
  BY ServesFacts DEF Serves
<1>2. PICK timers \in {<<>>, readTimer_} : Queue(k, timers \o <<e>>)
  BY DEF Passes
<1>3. /\ e \in ReadKnown(Len(reads'))
      /\ e.what = "read_callback" \/ (e.what = "read_continue" /\ e.id = readId_')
      /\ AtHandBytes(k) \cup Content(readBuffer_) \cup Content(buffer_)
            \subseteq Content(dst_') \cup Content(e.bytes) \cup Content(readBuffer_')
                         \cup Content(buffer_') \cup L
  BY DEF Passes, WaitsOn
<1>4. /\ e.what = "read_callback" => Content(e.bytes) \subseteq CallbackBytes(ready')
      /\ e.what = "read_continue" /\ e.id = readId_' =>
            Content(e.bytes) \subseteq AnswerBytes(ready', readId_')
      /\ CallbackBytes(ready) \subseteq CallbackBytes(ready')
  BY <1>1, <1>2, <1>3, JoinedBytes
<1>5. Content(dst_) \cup AnswerBytes(ready, readId_) \subseteq AtHandBytes(k)
  <2>1. CASE k = 0
    <3>1. dst_ = <<>> /\ readId_ = 0
      BY <1>1, <2>1 DEF RestInv
    <3>2. Content(<<>>) = {}
      BY NoBytesAtAll DEF NoBytes
    <3> QED
      BY <3>1, <3>2, NoneForZero
  <2>2. CASE k = 1
    <3>1. PICK a \in Seq(ByteNames) : OneAnswer(ready, readId_, a)
      BY DEF FlowInv, FlowWith, Flow
    <3>2. 1 \in AnswersTo(ready, readId_) /\ Head(ready) = ready[1]
      <4>1. 1 \in 1..Len(ready) /\ Head(ready) = ready[1]
        BY <1>1, <2>2, HeadOf
      <4> QED
        BY <1>1, <2>2, <4>1 DEF AnswersTo
    <3>3. \A i \in AnswersTo(ready, readId_) : ready[i] = Head(ready)
      BY <3>1, <3>2 DEF OneAnswer
    <3>4. AnswerBytes(ready, readId_) \subseteq Content(Head(ready).bytes)
      BY <3>3 DEF AnswerBytes
    <3> QED
      BY <2>2, <3>4 DEF AtHandBytes
  <2> QED
    BY <2>1, <2>2
<1>6. /\ Pipeline = Way(ready, readId_, handed, dst_, readBuffer_, buffer_)
      /\ Pipeline' = Way(ready', readId_', handed', dst_', readBuffer_', buffer_')
  BY PipelineIsWay
<1> QED
  BY <1>1, <1>3, <1>4, <1>5, <1>6 DEF Way

LEMMA PassesRest ==
    ASSUME LoopInv, FlowInv', NEW k \in {0, 1}, Serves(k), NEW e, NEW L, Passes(k, e, L)
    PROVE  RestInv'
<1>1. Len(reads') \in Nat /\ Len(reads) <= Len(reads') /\ Len(reads') > 0
  BY ServesFacts
<1>2. CASE readId_' = 0 /\ dst_' = <<>>
  BY <1>2 DEF RestInv
<1>3. CASE WaitsOn(e)
  <2>1. PICK timers \in {<<>>, readTimer_} : Queue(k, timers \o <<e>>)
    BY DEF Passes
  <2>2. /\ e \in ReadKnown(Len(reads')) /\ e.what = "read_continue" /\ e.id = readId_'
        /\ readId_' # 0
        /\ reads'[readId_'].kind = "some" => dst_' = <<>>
        /\ readBuffer_' # <<>> => Len(dst_') + Len(e.bytes) >= reads'[readId_'].size
    BY <1>1, <1>3 DEF Passes, WaitsOn
  <2>3. PICK j \in AnswersTo(ready', readId_') : ready'[j] = e
    BY <1>1, <2>1, <2>2, JoinedBytes
  <2>4. PICK a \in Seq(ByteNames) : FlowWith(a)'
    BY DEF FlowInv
  <2>5. \A i, l \in AnswersTo(ready', readId_') : i = l
    BY <2>4 DEF FlowWith, Flow, OneAnswer
  <2>6. \A i \in AnswersTo(ready', readId_') : ready'[i] = e
    BY <2>3, <2>5
  <2> QED
    BY <2>2, <2>6 DEF RestInv
<1> QED
  BY <1>2, <1>3 DEF Passes

(* All other steps. *)
LEMMA CalmPasses ==
    ASSUME LoopInv, NEW k, NEW new, Calm(k, new), UNCHANGED <<readBuffer_, buffer_>>
    PROVE  Pipeline \subseteq Pipeline'
<1>1. /\ k \in {0, 1} /\ (k = 1 => ready # <<>>) /\ Queue(k, new)
      /\ UNCHANGED <<readId_, dst_>>
      /\ new \in Seq(LoopKnown(Len(writes'), Len(reads')))
      /\ ready \in Seq(LoopKnown(Len(writes'), Len(reads')))
  BY CalmMoves
<1>2. /\ handed' = IF k = 1 /\ Head(ready).what = "read_callback"
                   THEN handed \o Head(ready).bytes ELSE handed
      /\ k = 1 => (Head(ready).what = "read_continue" => Head(ready).id # readId_)
  BY Zenon DEF Calm
<1>3. /\ \A b \in CallbackBytes(ready) :
            \/ b \in CallbackBytes(ready')
            \/ k = 1 /\ Head(ready).what = "read_callback" /\ b \in Content(Head(ready).bytes)
      /\ \A b \in AnswerBytes(ready, readId_) :
            \/ b \in AnswerBytes(ready', readId_)
            \/ /\ k = 1 /\ Head(ready).what = "read_continue" /\ Head(ready).id = readId_
               /\ b \in Content(Head(ready).bytes)
  BY ONLY <1>1, QueueLoses
<1>4. AnswerBytes(ready, readId_) \subseteq AnswerBytes(ready', readId_')
  BY <1>1, <1>2, <1>3
<1>5. Content(handed) \cup CallbackBytes(ready) \subseteq Content(handed') \cup CallbackBytes(ready')
  <2>1. CASE k = 1 /\ Head(ready).what = "read_callback"
    <3>1. handed \in Seq(ByteNames) /\ Head(ready).bytes \in Seq(ByteNames)
      BY <1>1, <2>1, HeadBytes DEF LoopInv, LoopTypes, ReaderTypesOK
    <3>2. Content(handed') = Content(handed) \cup Content(Head(ready).bytes)
      BY <1>2, <2>1, <3>1, ContentConcat
    <3> QED
      BY <1>3, <3>2
  <2>2. CASE ~(k = 1 /\ Head(ready).what = "read_callback")
    BY <1>2, <1>3, <2>2
  <2> QED
    BY <2>1, <2>2
<1>6. /\ Pipeline = Way(ready, readId_, handed, dst_, readBuffer_, buffer_)
      /\ Pipeline' = Way(ready', readId_', handed', dst_', readBuffer_', buffer_')
  BY PipelineIsWay
<1> QED
  BY <1>1, <1>4, <1>5, <1>6 DEF Way

LEMMA FeedsPass == ASSUME LoopInv, LoopInv', Feeds PROVE Pipeline \subseteq Pipeline'
<1>1. PICK k, new :
         /\ k \in {0, 1} /\ Queue(k, new)
         /\ k = 1 => Head(ready).what \in {"continue", "timeout", "callback"}
         /\ new \in Seq(LoopKnown(Len(writes'), Len(reads')))
         /\ ready \in Seq(LoopKnown(Len(writes'), Len(reads')))
  BY FeedMoves
<1>2. UNCHANGED <<readId_, dst_, readBuffer_, handed>>
  BY FeedMoves
<1>3. Content(buffer_) \subseteq Content(buffer_')
  BY FeedMoves
<1>4. /\ \A b \in CallbackBytes(ready) :
            \/ b \in CallbackBytes(ready')
            \/ k = 1 /\ Head(ready).what = "read_callback" /\ b \in Content(Head(ready).bytes)
      /\ \A b \in AnswerBytes(ready, readId_) :
            \/ b \in AnswerBytes(ready', readId_)
            \/ /\ k = 1 /\ Head(ready).what = "read_continue" /\ Head(ready).id = readId_
               /\ b \in Content(Head(ready).bytes)
  BY ONLY <1>1, QueueLoses
<1>5. /\ CallbackBytes(ready) \subseteq CallbackBytes(ready')
      /\ AnswerBytes(ready, readId_) \subseteq AnswerBytes(ready', readId_)
  BY <1>1, <1>4
<1>6. /\ Pipeline = Way(ready, readId_, handed, dst_, readBuffer_, buffer_)
      /\ Pipeline' = Way(ready', readId_', handed', dst_', readBuffer_', buffer_')
  BY PipelineIsWay
<1> QED
  BY <1>2, <1>3, <1>5, <1>6 DEF Way

LEMMA RestMoves ==
    ASSUME RestInv, NEW T, ready \in Seq(T), NEW k, NEW new \in Seq(T), Queue(k, new),
           AnswersTo(new, readId_) = {}, UNCHANGED <<reads, readId_, dst_>>,
           readBuffer_' = readBuffer_ \/ readBuffer_' = <<>>
    PROVE  RestInv'
<1>1. \A i \in 1..Len(ready') :
         \/ i + k \in 1..Len(ready) /\ ready'[i] = ready[i + k]
         \/ /\ i + k - Len(ready) \in 1..Len(new)
            /\ ready'[i] = new[i + k - Len(ready)]
  BY QueueParts
<1>2. \A i \in AnswersTo(ready', readId_) : \E j \in AnswersTo(ready, readId_) : ready'[i] = ready[j]
  BY <1>1 DEF AnswersTo
<1> QED
  BY <1>2 DEF RestInv

LEMMA RestStep ==
    ASSUME NoWrap, ~SlowCaller, LoopInv, FlowInv, FlowInv', RestInv, [LoopNext]_loopVars
    PROVE  RestInv'
<1>1. ASSUME NEW k, NEW new, Calm(k, new) PROVE RestInv'
  <2>1. /\ Queue(k, new) /\ UNCHANGED <<reads, readId_, dst_>>
        /\ new \in Seq(LoopKnown(Len(writes'), Len(reads')))
        /\ ready \in Seq(LoopKnown(Len(writes'), Len(reads')))
        /\ AnswersTo(new, readId_) = {}
        /\ readBuffer_' = readBuffer_ \/ readBuffer_' = <<>>
    BY <1>1, CalmMoves
  <2> QED
    BY ONLY RestInv, <2>1, RestMoves
<1>2. CASE LoopInv' /\ Feeds
  <2>1. PICK k, new :
           /\ Queue(k, new) /\ AnswersTo(new, readId_) = {}
           /\ new \in Seq(LoopKnown(Len(writes'), Len(reads')))
           /\ ready \in Seq(LoopKnown(Len(writes'), Len(reads')))
    BY <1>2, FeedMoves
  <2>2. UNCHANGED <<reads, readId_, dst_>> /\ readBuffer_' = readBuffer_
    BY <1>2, FeedMoves
  <2> QED
    BY ONLY RestInv, <2>1, <2>2, RestMoves
<1>3. ASSUME NEW t \in Threads, NewRead(t) PROVE RestInv'
  BY <1>3, NewReadServes, NewReadPasses, PassesRest DEF ReadServed
<1>4. CASE ReadContinue
  BY <1>4, ReadContinueServes, ReadContinuePasses, PassesRest DEF ReadServed
<1>5. CASE ReadTimeout /\ Head(ready).id = readId_
  <2>1. readId_' = 0 /\ dst_' = <<>>
    BY <1>5 DEF ReadTimeout, FinishRead
  <2> QED
    BY <2>1 DEF RestInv
<1> QED
  BY <1>1, <1>2, <1>3, <1>4, <1>5, LoopKinds DEF ReadStep

(* The calls that empty the memory are counted. *)
LEMMA ResetsStep ==
    ASSUME LoopInv, resets \in Nat, [LoopNext]_loopVars
    PROVE  resets' \in Nat
<1> SUFFICES ASSUME resets' # resets PROVE resets' \in Nat
  OBVIOUS
<1>1. ~(UNCHANGED lifecycle)
  BY DEF lifecycle
<1>2. ~(UNCHANGED device)
  BY <1>1 DEF device
<1>3. \A t \in Threads : ~(NewWrite(t) \/ Refused(t) \/ Issue(t))
  BY <1>2, Zenon DEF NewWrite, Refused, Issue
<1>4. ~WorkerSteps
  <2>1. ~(DropHandler \/ EnterHandler \/ TimeoutNotifies)
    BY <1>2, Zenon DEF DropHandler, EnterHandler, TimeoutNotifies
  <2>2. ~(Continue \/ FinishHandler)
    BY <1>2, Zenon DEF Continue, FinishHandler
  <2>3. ~(WriteCallback \/ EnterCallback \/ LeaveCallback)
    BY <1>2, Zenon DEF WriteCallback, EnterCallback, LeaveCallback
  <2> QED
    BY <2>1, <2>2, <2>3, Zenon DEF WorkerSteps
<1>5. \A c \in Callers : ~(SyncSteps(c) \/ SpuriousWake(c))
  BY <1>2, Zenon DEF SyncSteps, ResetNotified, CheckNotified, Block, Wake, SpuriousWake
<1>6. ~TimerExpires
  BY <1>2, Zenon DEF TimerExpires
<1>7. ~WriterSteps
  BY <1>3, <1>4, <1>5, <1>6, Zenon DEF WriterSteps
<1>8. ~(ReaderSteps \/ ReadTimerExpires)
  <2>1. ~(ReadDropped \/ ReadCallback \/ ReadTimerExpires)
    BY <1>1, Zenon DEF ReadDropped, ReadCallback, ReadTimerExpires, writing
  <2>2. ~(ReadContinue \/ ReadTimeout)
    BY <1>1, Zenon DEF ReadContinue, ReadTimeout, writing
  <2> QED
    BY <2>1, <2>2, Zenon DEF ReaderSteps
<1>9. \A t \in Threads : ~NewRead(t)
  BY <1>1, Zenon DEF NewRead, writing
<1>10. \A t \in Threads : ~(EnableIODump(t) \/ DisableIODump(t))
  BY <1>2, Zenon DEF EnableIODump, DisableIODump, EnableDump, DisableDump
<1>11. ~(UNCHANGED loopVars)
  BY <1>2, Zenon DEF loopVars, vars
<1>12. \E t \in Threads : StreamFlush(t) \/ StreamReset(t)
  BY <1>7, <1>8, <1>9, <1>10, <1>11, Zenon DEF LoopNext
<1>13. FlushDevice \/ ResetDevice
  BY <1>12, Zenon DEF StreamFlush, StreamReset, Flush, Reset
<1> QED
  BY <1>13 DEF FlushDevice, ResetDevice

(* Where a byte may be lost: the steps of LostOnlyHere, and no other.          *)
LEMMA LossStep ==
    ASSUME NoWrap, ~SlowCaller, WayInv, LoopInv', RestInv, resets \in Nat, LoopNext
    PROVE  \/ Pipeline \subseteq Pipeline'
           \/ resets' # resets
           \/ ReadTimeout
           \/ /\ \E b \in Content(readBuffer_) : Pipeline \subseteq Pipeline' \cup {b}
              /\ \E t \in Threads : NewRead(t)
<1>1. LoopInv /\ FlowInv
  BY DEF WayInv
<1>2. CASE WriterSteps
  BY <1>1, <1>2, WriterStep, FeedsPass
<1>3. CASE ReadDropped \/ ReadCallback
  <2>1. Calm(1, <<>>)
    BY <1>1, <1>3, WorkerIsCalm
  <2>2. UNCHANGED <<readBuffer_, buffer_>>
    BY <1>3, Zenon DEF ReadDropped, ReadCallback
  <2> QED
    BY <1>1, <2>1, <2>2, CalmPasses
<1>4. CASE ReadTimerExpires \/ \E t \in Threads : EnableIODump(t) \/ DisableIODump(t)
  <2>1. \E new : Calm(0, new)
    BY <1>1, <1>4, OthersAreCalm
  <2>2. UNCHANGED <<readBuffer_, buffer_>>
    <3>1. ReadTimerExpires => UNCHANGED <<readBuffer_, buffer_>>
      BY Zenon DEF ReadTimerExpires
    <3>2. \A t \in Threads : EnableIODump(t) \/ DisableIODump(t) =>
             UNCHANGED device /\ readBuffer_' = readBuffer_
      BY Zenon DEF EnableIODump, DisableIODump, EnableDump, DisableDump, reading
    <3> QED
      BY <1>4, <3>1, <3>2 DEF device
  <2> QED
    BY <1>1, <2>1, <2>2, CalmPasses
<1>5. ASSUME NEW t \in Threads, StreamFlush(t) \/ StreamReset(t) PROVE resets' # resets
  <2>1. FlushDevice \/ ResetDevice
    BY <1>5, Zenon DEF StreamFlush, StreamReset, Flush, Reset
  <2>2. resets' = resets + 1
    BY <2>1 DEF FlushDevice, ResetDevice
  <2> QED
    BY <2>2
<1>6. ASSUME NEW t \in Threads, NewRead(t)
      PROVE  \/ Pipeline \subseteq Pipeline'
             \/ \E b \in Content(readBuffer_) : Pipeline \subseteq Pipeline' \cup {b}
  <2>1. Serves(0)
    BY <1>1, <1>6, NewReadServes DEF ReadServed
  <2>2. PICK e, L : Passes(0, e, L) /\ OneAtMost(0, L)
    BY <1>1, <1>6, NewReadPasses
  <2>3. Pipeline \subseteq Pipeline' \cup L
    BY <1>1, <2>1, <2>2, PassesOn
  <2> QED
    BY <2>2, <2>3 DEF OneAtMost
<1>7. CASE ReadContinue
  <2>1. Serves(1) /\ Head(ready).what = "read_continue"
    BY <1>1, <1>7, ReadContinueServes DEF ReadServed, ReadContinue, NextHandler
  <2>2. PICK e, L : Passes(1, e, L) /\ OneAtMost(1, L)
    BY <1>1, <1>7, ReadContinuePasses
  <2>3. Pipeline \subseteq Pipeline' \cup L
    BY <1>1, <2>1, <2>2, PassesOn
  <2> QED
    BY <2>2, <2>3 DEF OneAtMost
<1> QED
  BY <1>2, <1>3, <1>4, <1>5, <1>6, <1>7, Zenon DEF LoopNext, ReaderSteps

(* do_read_some takes one byte too many from readBuffer_ when a read is        *)
(* accepted; but for it, flush(), reset() and a timeout, no step of the Stream *)
(* loses a byte on its way to the user.                                      *)
THEOREM OnlyTheseLose == ASSUME NoWrap, ~SlowCaller PROVE LoopSpec => LostOnlyHere
<1> DEFINE Inv == WayInv /\ RestInv /\ resets \in Nat
           lost == Pipeline \ Pipeline'
           Lose == \/ lost = {}
                   \/ resets' # resets
                   \/ ReadTimeout
                   \/ /\ Cardinality(lost) = 1
                      /\ lost \subseteq Content(readBuffer_)
                      /\ \E t \in Threads : NewRead(t)
<1>1. LoopInit => Inv
  <2> SUFFICES ASSUME LoopInit PROVE Inv
    OBVIOUS
  <2>1. readId_ = 0 /\ dst_ = <<>> /\ resets = 0
    BY DEF LoopInit, Init, DevicesInit
  <2>2. RestInv
    BY <2>1 DEF RestInv
  <2> QED
    BY <2>1, <2>2, LoopInitInv DEF WayInv
<1>2. Inv /\ [LoopNext]_loopVars => Inv' /\ LoopInv'
  <2> SUFFICES ASSUME Inv, [LoopNext]_loopVars PROVE Inv' /\ LoopInv'
    OBVIOUS
  <2>1. LoopInv /\ FlowInv
    BY DEF WayInv
  <2>2. WayInv'
    BY LoopStep, FlowStep, DumpStep DEF WayInv
  <2>3. LoopInv' /\ FlowInv'
    BY <2>2 DEF WayInv
  <2> QED
    BY <2>1, <2>2, <2>3, RestStep, ResetsStep
<1>3. Inv /\ Inv' /\ [LoopNext]_loopVars => [Lose]_loopVars
  <2> SUFFICES ASSUME Inv, Inv', LoopNext PROVE Lose
    OBVIOUS
  <2>1. LoopInv'
    BY DEF WayInv
  <2>2. CASE Pipeline \subseteq Pipeline'
    BY <2>2
  <2>3. ASSUME NEW b \in Content(readBuffer_), Pipeline \subseteq Pipeline' \cup {b},
               \E t \in Threads : NewRead(t)
        PROVE  Lose
    <3>1. lost = {} \/ lost = {b}
      BY <2>3
    <3>2. Cardinality({b}) = 1
      BY FS_Singleton
    <3> QED
      BY <2>3, <3>1, <3>2
  <2> QED
    BY <2>1, <2>2, <2>3, LossStep
<1>4. LoopSpec => [][Lose]_loopVars
  BY <1>1, <1>2, <1>3, PTL DEF LoopSpec
<1> QED
  BY <1>4 DEF LostOnlyHere

=============================================================================
