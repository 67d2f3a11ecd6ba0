--------------------- MODULE StreamReaderUnderWayProofs ---------------------
(***************************************************************************)
(* What carries a read on: proofs that a read in progress is always waiting  *)
(* for exactly one thing, whatever the threads and the device do; then that  *)
(* no read but read_until counts more bytes than its buffer has room for,    *)
(* and that a full read counts them all.                                     *)
(***************************************************************************)
EXTENDS StreamReaderProofs, FiniteSetTheorems

(* The continuations of one read in a queue. *)
Carries(h, id) == h.what = "continue" /\ h.id = id

Positions(q, id) == {i \in 1..Len(q) : Carries(q[i], id)}

NoneIn(q, id) == Positions(q, id) = {}
OneIn(q, id)  == \E i : Positions(q, id) = {i}

-----------------------------------------------------------------------------
(* A queue that gains a handler at its end, or loses the one at its head. *)
LEMMA AppendedPositions ==
    ASSUME NEW S, NEW q \in Seq(S), NEW e \in S, NEW id
    PROVE  /\ NoneIn(q, id) /\ Carries(e, id) => OneIn(Append(q, e), id)
           /\ NoneIn(q, id) /\ ~Carries(e, id) => NoneIn(Append(q, e), id)
           /\ OneIn(q, id) /\ ~Carries(e, id) => OneIn(Append(q, e), id)
<1> DEFINE n == Len(q)
           r == Append(q, e)
<1>1. n \in Nat /\ Len(r) = n + 1 /\ r[n + 1] = e /\ \A i \in 1..n : r[i] = q[i]
  OBVIOUS
<1> HIDE DEF r
<1>2. Positions(r, id) = Positions(q, id) \cup {i \in {n + 1} : Carries(e, id)}
  BY <1>1, SMT DEF Positions
<1>3. Carries(e, id) => {i \in {n + 1} : Carries(e, id)} = {n + 1}
  OBVIOUS
<1>4. ~Carries(e, id) => {i \in {n + 1} : Carries(e, id)} = {}
  OBVIOUS
<1> QED
  BY <1>2, <1>3, <1>4, Zenon DEF NoneIn, OneIn, r

LEMMA TailPositions ==
    ASSUME NEW S, NEW q \in Seq(S), q # <<>>, NEW id
    PROVE  /\ OneIn(q, id) /\ Carries(Head(q), id) => NoneIn(Tail(q), id)
           /\ NoneIn(q, id) => NoneIn(Tail(q), id) /\ ~Carries(Head(q), id)
           /\ OneIn(q, id) /\ ~Carries(Head(q), id) => OneIn(Tail(q), id)
<1> DEFINE n == Len(q)
           r == Tail(q)
<1>1. /\ n \in Nat /\ n > 0 /\ Len(r) = n - 1 /\ Head(q) = q[1]
      /\ \A i \in 1..(n - 1) : r[i] = q[i + 1]
  OBVIOUS
<1> HIDE DEF r
<1>2. \A i \in 1..(n - 1) : i \in Positions(r, id) <=> i + 1 \in Positions(q, id)
  BY <1>1, SMT DEF Positions
<1>3. Positions(r, id) \subseteq 1..(n - 1) /\ Positions(q, id) \subseteq 1..n
  BY <1>1 DEF Positions
<1>4. 1 \in Positions(q, id) <=> Carries(Head(q), id)
  BY <1>1 DEF Positions
<1>5. ASSUME NoneIn(q, id) PROVE NoneIn(r, id) /\ ~Carries(Head(q), id)
  BY <1>2, <1>3, <1>4, <1>5 DEF NoneIn
<1>6. ASSUME OneIn(q, id), Carries(Head(q), id) PROVE NoneIn(r, id)
  <2>1. Positions(q, id) = {1}
    BY <1>4, <1>6 DEF OneIn
  <2>2. \A i \in 1..(n - 1) : i \notin Positions(r, id)
    BY <1>2, <2>1
  <2> QED
    BY <1>3, <2>2 DEF NoneIn
<1>7. ASSUME OneIn(q, id), ~Carries(Head(q), id) PROVE OneIn(r, id)
  <2>1. PICK k : Positions(q, id) = {k}
    BY <1>7 DEF OneIn
  <2>2. k \in 2..n
    BY <1>1, <1>3, <1>4, <1>7, <2>1
  <2>3. Positions(r, id) = {k - 1}
    BY <1>1, <1>2, <1>3, <2>1, <2>2
  <2> QED
    BY <2>3 DEF OneIn
<1> QED
  BY <1>5, <1>6, <1>7 DEF r

LEMMA JoinedPositions ==
    ASSUME NEW S, NEW q \in Seq(S), NEW r \in Seq(S), NEW id,
           \A i \in 1..Len(r) : ~Carries(r[i], id)
    PROVE  Positions(q \o r, id) = Positions(q, id)
<1> DEFINE s == q \o r
<1>1. /\ Len(q) \in Nat /\ Len(r) \in Nat /\ Len(s) = Len(q) + Len(r)
      /\ \A i \in 1..Len(s) : s[i] = IF i <= Len(q) THEN q[i] ELSE r[i - Len(q)]
  OBVIOUS
<1> HIDE DEF s
<1>2. \A i \in 1..Len(s) : i > Len(q) => i - Len(q) \in 1..Len(r)
  BY <1>1
<1>3. Positions(s, id) = Positions(q, id)
  BY <1>1, <1>2, SMT DEF Positions
<1> QED
  BY <1>3 DEF s

-----------------------------------------------------------------------------
(* The invariant.  Only timeouts are armed; the worker executes the handler at *)
(* the head of the queue; and with its start over, a read in progress has one *)
(* continuation, in the queue or at the device.                              *)

OnlyTimeouts == \A i \in 1..Len(timer_) : timer_[i].what = "timeout"

AtHead == pc[Worker] \in {"continue", "timeout"} => Head(ready).what = pc[Worker]

Carried ==
    \/ OneIn(ready, readId_) /\ NoneIn(device, readId_)
    \/ NoneIn(ready, readId_) /\ OneIn(device, readId_)

UnderWayInv ==
    /\ OnlyTimeouts
    /\ AtHead
    /\ Busy /\ (\A t \in Threads : ~Starting(t)) => Carried

(* Nothing carries a read whose start is not over. *)
LEMMA EarlierCarryNone == ASSUME NEW n \in Nat, NEW q \in Seq(Known(n - 1))
                          PROVE  NoneIn(q, n)
<1>1. \A h \in Known(n - 1) : ~Carries(h, n)
  BY DEF Known, Carries
<1>2. \A i \in 1..Len(q) : q[i] \in Known(n - 1)
  BY LenType
<1> QED
  BY <1>1, <1>2 DEF NoneIn, Positions

LEMMA NothingYet == ASSUME Assumed, LateInv, NEW t \in Threads, Starting(t)
                    PROVE  NoneIn(ready, readId_) /\ NoneIn(device, readId_)
<1>1. /\ ready \in Seq(Known(Len(reads) - 1)) /\ device \in Seq(Known(Len(reads) - 1))
      /\ Busy
  BY DEF LateInv, StartsLast, AllKnown
<1>2. readId_ = Len(reads) /\ Len(reads) \in Nat
  BY <1>1 DEF Assumed, OutcomeInv, Numbered, Busy
<1> QED
  BY <1>1, <1>2, EarlierCarryNone

(* do_read_some leaves one continuation where there was none. *)
LEMMA DoReadSomeCarries ==
    ASSUME NEW S, NEW count \in Nat, NEW handler, NEW queue \in Seq(S), device \in Seq(S),
           NEW held \in Nat, DoReadSome(count, handler, queue, held), NEW id,
           \A n \in Nat : /\ [handler EXCEPT !.n = n] \in S
                          /\ Carries([handler EXCEPT !.n = n], id),
           NoneIn(queue, id), NoneIn(device, id)
    PROVE  \/ OneIn(ready', id) /\ NoneIn(device', id)
           \/ NoneIn(ready', id) /\ OneIn(device', id)
<1>1. CASE held > 0
  <2> DEFINE n == IF held < count THEN held ELSE count
  <2>1. ready' = Append(queue, [handler EXCEPT !.n = n]) /\ device' = device
    BY <1>1 DEF DoReadSome
  <2>2. n \in Nat
    OBVIOUS
  <2> HIDE DEF n
  <2>3. [handler EXCEPT !.n = n] \in S /\ Carries([handler EXCEPT !.n = n], id)
    BY <2>2
  <2> QED
    BY <2>1, <2>3, AppendedPositions
<1>2. CASE held = 0
  <2>1. device' = Append(device, [handler EXCEPT !.n = count]) /\ ready' = queue
    BY <1>2 DEF DoReadSome
  <2> QED
    BY <2>1, AppendedPositions
<1> QED
  BY <1>1, <1>2

LEMMA ContinuationCarries ==
    ASSUME TypeInv, NEW kind \in Kinds
    PROVE  \A n \in Nat : /\ [Continuation(readId_, kind) EXCEPT !.n = n] \in Handlers
                          /\ Carries([Continuation(readId_, kind) EXCEPT !.n = n], readId_)
<1>1. readId_ \in Nat /\ dst_ \in Nat
  BY ReaderAssumption DEF TypeInv, RequestTypes
<1>2. \A n \in Nat : Carries([Continuation(readId_, kind) EXCEPT !.n = n], readId_)
  BY DEF Continuation, Carries
<1> QED
  BY <1>1, <1>2, ContinuationType

-----------------------------------------------------------------------------
(* The steps.  Those that leave the request alone keep the invariant if they   *)
(* keep what carries the read, and start no handler but the head's.           *)
LEMMA SameUnderWay ==
    ASSUME UnderWayInv, readId_' = readId_, timer_' \in {timer_, <<>>},
           \A t \in Threads : Starting(t) => Starting(t)',
           Carried => Carried', AtHead'
    PROVE  UnderWayInv'
  BY DEF UnderWayInv, OnlyTimeouts, Busy, Threads

LEMMA SameCarried == ASSUME Carried, UNCHANGED <<ready, device, readId_>> PROVE Carried'
  BY DEF Carried

(* The others take the worker into no handler, and move none from the head. *)
LEMMA OthersAtHead == ASSUME Assumed, UnderWayInv, Others
                      PROVE  AtHead'
<1>1. HeadKept /\ (InHandler' => InHandler) /\ (InHandler => pc'[Worker] = pc[Worker])
  BY OthersKeepHead, OthersEnterNone DEF Assumed
<1>2. InHandler => ready # <<>>
  BY DEF Assumed, Handling
<1> QED
  BY <1>1, <1>2 DEF UnderWayInv, AtHead, InHandler, HeadKept

LEMMA NewReadUnderWay == ASSUME Assumed, UnderWayInv, NEW t \in Threads, NewRead(t)
                         PROVE  UnderWayInv'
<1>1. Goto(t, "issue") /\ timer_' \in {timer_, <<TimeoutReached(NextId, Len(reads) + 1)>>}
  BY DEF NewRead, Arm
<1>2. Starting(t)'
  BY <1>1 DEF Starting, Goto, Assumed, TypeInv, ControlTypes
<1>3. OnlyTimeouts'
  BY <1>1 DEF OnlyTimeouts, UnderWayInv, TimeoutReached
<1>4. AtHead'
  BY OthersAtHead DEF Others
<1> QED
  BY <1>2, <1>3, <1>4 DEF UnderWayInv

LEMMA IssueUnderWay == ASSUME Assumed, LateInv, UnderWayInv, NEW t \in Threads, Issue(t)
                       PROVE  UnderWayInv'
<1>1. /\ Starting(t) /\ UNCHANGED <<request, timer_>> /\ reads[mine[t]].kind \in Kinds
  BY IssueCases DEF Assumed
<1>2. AtHead'
  BY OthersAtHead DEF Others, StartSteps
<1>3. OnlyTimeouts' /\ readId_' = readId_
  BY <1>1 DEF UnderWayInv, OnlyTimeouts, request
<1>4. CASE Goto(t, "finish")
  <2>1. Starting(t)'
    BY <1>4 DEF Starting, Goto, Assumed, TypeInv, ControlTypes
  <2> QED
    BY <1>2, <1>3, <2>1 DEF UnderWayInv
<1>5. ASSUME NEW held \in Nat,
             DoReadSome(requestedSize_, Continuation(readId_, reads[mine[t]].kind), ready, held)
      PROVE  Carried'
  <2>1. \A n \in Nat :
           /\ [Continuation(readId_, reads[mine[t]].kind) EXCEPT !.n = n] \in Handlers
           /\ Carries([Continuation(readId_, reads[mine[t]].kind) EXCEPT !.n = n], readId_)
    BY <1>1, ContinuationCarries DEF Assumed
  <2>2. NoneIn(ready, readId_) /\ NoneIn(device, readId_)
    BY <1>1, NothingYet
  <2>3. ready \in Seq(Handlers) /\ device \in Seq(Handlers) /\ requestedSize_ \in Nat
    BY DEF Assumed, TypeInv, QueueTypes, RequestTypes
  <2>4. \/ OneIn(ready', readId_) /\ NoneIn(device', readId_)
        \/ NoneIn(ready', readId_) /\ OneIn(device', readId_)
    BY <1>5, <2>1, <2>2, <2>3, DoReadSomeCarries
  <2> QED
    BY <1>3, <2>4 DEF Carried
<1> QED
  BY <1>2, <1>3, <1>4, <1>5, IssueCases DEF Assumed, UnderWayInv

LEMMA FinishReadFrees == ASSUME NEW err, NEW queue, FinishRead(err, queue) PROVE ~Busy'
  BY DEF FinishRead, Busy

LEMMA FinishUnderWay ==
    ASSUME Assumed, UnderWayInv, FinishHandler \/ \E t \in Threads : FinishInline(t)
    PROVE  UnderWayInv'
<1>1. ~Busy' /\ timer_' = timer_
  BY FinishReadFrees DEF FinishHandler, FinishInline
<1>2. AtHead'
  <2>1. CASE FinishHandler
    <3>1. pc'[Worker] = "loop"
      BY <2>1, WorkerState DEF FinishHandler, Goto, Assumed, TypeInv, ControlTypes
    <3> QED
      BY <3>1 DEF AtHead
  <2>2. CASE \E t \in Threads : FinishInline(t)
    BY <2>2, OthersAtHead DEF Others, StartSteps
  <2> QED
    BY <2>1, <2>2
<1> QED
  BY <1>1, <1>2 DEF UnderWayInv, OnlyTimeouts

(* An answer of the device replaces what was asked. *)
LEMMA DeviceUnderWay == ASSUME Assumed, UnderWayInv, DeviceDelivers \/ DeviceFails
                        PROVE  UnderWayInv'
<1>1. device # <<>> /\ UNCHANGED <<request, timer_, pc>>
  BY DEF DeviceDelivers, DeviceFails, Answer
<1>2. Head(device) \in Handlers /\ ready \in Seq(Handlers) /\ device \in Seq(Handlers)
  BY <1>1, QueueType DEF Assumed, TypeInv, QueueTypes
<1>3. PICK e \in Handlers : /\ ready' = Append(ready, e) /\ device' = Tail(device)
                            /\ Carries(e, readId_) <=> Carries(Head(device), readId_)
  <2>1. CASE DeviceDelivers
    <3>1. PICK n \in 0..Head(device).n : Answer([Head(device) EXCEPT !.n = n])
      BY <2>1 DEF DeviceDelivers
    <3>2. n \in Nat
      BY <1>2, <3>1 DEF Handlers
    <3>3. [Head(device) EXCEPT !.n = n] \in Handlers
      BY <1>2, <3>2 DEF Handlers
    <3>4. Carries([Head(device) EXCEPT !.n = n], readId_) <=> Carries(Head(device), readId_)
      BY <1>2 DEF Carries, Handlers
    <3> QED
      BY <3>1, <3>3, <3>4 DEF Answer
  <2>2. CASE DeviceFails
    <3>1. [Head(device) EXCEPT !.n = 0, !.err = TRUE] \in Handlers
      BY <1>2 DEF Handlers
    <3>2. Carries([Head(device) EXCEPT !.n = 0, !.err = TRUE], readId_)
             <=> Carries(Head(device), readId_)
      BY <1>2 DEF Carries, Handlers
    <3> QED
      BY <2>2, <3>1, <3>2 DEF DeviceFails, Answer
  <2> QED
    BY <2>1, <2>2
<1>4. readId_' = readId_
  BY <1>1 DEF request
<1>5. Carried => Carried'
  BY <1>1, <1>2, <1>3, <1>4, AppendedPositions, TailPositions DEF Carried
<1>6. AtHead'
  BY OthersAtHead DEF Others, Environment
<1>7. \A t \in Threads : Starting(t) => Starting(t)'
  BY <1>1 DEF Starting
<1> QED
  BY <1>1, <1>4, <1>5, <1>6, <1>7, SameUnderWay

(* A timeout that expires carries no read on. *)
LEMMA TimerUnderWay == ASSUME Assumed, UnderWayInv, TimerExpires
                       PROVE  UnderWayInv'
<1>1. /\ ready' = ready \o timer_ /\ timer_' = <<>>
      /\ UNCHANGED <<readId_, device, pc>>
  BY DEF TimerExpires, request
<1>2. \A i \in 1..Len(timer_) : ~Carries(timer_[i], readId_)
  BY DEF UnderWayInv, OnlyTimeouts, Carries
<1>3. ready \in Seq(Handlers) /\ timer_ \in Seq(Handlers)
  BY DEF Assumed, TypeInv, QueueTypes
<1>4. Positions(ready \o timer_, readId_) = Positions(ready, readId_)
  BY <1>2, <1>3, JoinedPositions
<1>5. Carried => Carried'
  BY <1>1, <1>4 DEF Carried, NoneIn, OneIn
<1>6. AtHead'
  BY OthersAtHead DEF Others, Environment
<1>7. \A t \in Threads : Starting(t) => Starting(t)'
  BY <1>1 DEF Starting
<1> QED
  BY <1>1, <1>5, <1>6, <1>7, SameUnderWay

LEMMA OthersUnderWay == ASSUME Assumed, LateInv, UnderWayInv, Others
                        PROVE  UnderWayInv'
<1>1. ASSUME UNCHANGED <<readId_, timer_, ready, device>>,
             \A t \in Threads : Starting(t) => Starting(t)'
      PROVE  UnderWayInv'
  BY <1>1, OthersAtHead, SameCarried, SameUnderWay
<1>2. ASSUME NEW t \in Threads, Refused(t)
      PROVE  UnderWayInv'
  <2>1. /\ UNCHANGED <<readId_, timer_, ready, device>> /\ ~Starting(t)
        /\ \E s : Goto(t, s)
    BY <1>2 DEF Refused, MayCall, request, Starting
  <2>2. \A u \in Threads : Starting(u) => Starting(u)'
    BY <2>1 DEF Goto, Starting, Assumed, TypeInv, ControlTypes
  <2> QED
    BY <1>1, <2>1, <2>2
<1>3. ASSUME NEW c \in Callers, SyncSteps(c) \/ SpuriousWake(c) \/ Flush(c)
      PROVE  UnderWayInv'
  <2>1. UNCHANGED <<readId_, timer_, ready, device>>
    BY <1>3 DEF SyncSteps, ResetNotified, CheckNotified, Block, Wake, SpuriousWake, Flush,
                request
  <2>2. pc' = pc \/ (~Starting(c) /\ \E s : Goto(c, s))
    BY <1>3 DEF SyncSteps, ResetNotified, CheckNotified, Block, Wake, SpuriousWake, Flush,
                Starting
  <2>3. \A u \in Threads : Starting(u) => Starting(u)'
    BY <2>2 DEF Goto, Starting, Assumed, TypeInv, ControlTypes, Threads
  <2> QED
    BY <1>1, <2>1, <2>3
<1> QED
  BY <1>2, <1>3, NewReadUnderWay, IssueUnderWay, FinishUnderWay, DeviceUnderWay,
     TimerUnderWay, Zenon
  DEF Others, StartSteps, Environment

(* The worker reads on: the new continuation replaces the one it executes. *)
LEMMA ContinueUnderWay == ASSUME Assumed, LateInv, UnderWayInv, Continue
                          PROVE  UnderWayInv'
<1>1. /\ ready # <<>> /\ UNCHANGED <<request, timer_>> /\ InHandler /\ pc[Worker] = "continue"
  BY ContinueCases DEF Assumed, Continue, InHandler
<1>2. /\ Head(ready).id = readId_ /\ Busy /\ readId_' = readId_
      /\ Carries(Head(ready), readId_)
  BY <1>1 DEF LateInv, Current, UnderWayInv, AtHead, Carries, request
<1>3. \A s : Goto(Worker, s) => /\ pc'[Worker] = s
                                /\ \A t \in Threads : Starting(t) => Starting(t)'
  BY <1>1, WorkerState DEF Goto, Starting, Assumed, TypeInv, ControlTypes
<1>4. CASE Goto(Worker, "end") /\ UNCHANGED <<ready, device>>
  BY <1>1, <1>2, <1>3, <1>4, SameCarried, SameUnderWay DEF AtHead
<1>5. ASSUME NEW count \in Nat, Head(ready).kind \in Kinds, Goto(Worker, "loop"),
             DoReadSome(count, Continuation(Head(ready).id, Head(ready).kind), Tail(ready),
                        readBuffer_)
      PROVE  UnderWayInv'
  <2>1. /\ ready \in Seq(Handlers) /\ Tail(ready) \in Seq(Handlers)
        /\ device \in Seq(Handlers) /\ readBuffer_ \in Nat
    BY <1>1, QueueType DEF Assumed, TypeInv, QueueTypes
  <2>2. \A t \in Threads : ~Starting(t)
    BY <1>1, NobodyStarts
  <2>3. NoneIn(Tail(ready), readId_) /\ NoneIn(device, readId_)
    BY <1>1, <1>2, <2>1, <2>2, TailPositions DEF UnderWayInv, Carried
  <2>4. \A n \in Nat :
           /\ [Continuation(readId_, Head(ready).kind) EXCEPT !.n = n] \in Handlers
           /\ Carries([Continuation(readId_, Head(ready).kind) EXCEPT !.n = n], readId_)
    BY <1>5, ContinuationCarries DEF Assumed
  <2>5. DoReadSome(count, Continuation(readId_, Head(ready).kind), Tail(ready), readBuffer_)
    BY <1>2, <1>5
  <2>6. \/ OneIn(ready', readId_) /\ NoneIn(device', readId_)
        \/ NoneIn(ready', readId_) /\ OneIn(device', readId_)
    BY <2>1, <2>3, <2>4, <2>5, DoReadSomeCarries
  <2>7. Carried'
    BY <1>2, <2>6 DEF Carried
  <2> QED
    BY <1>1, <1>2, <1>3, <1>5, <2>7, SameUnderWay DEF AtHead
<1> QED
  BY <1>4, <1>5, ContinueCases DEF Assumed

LEMMA WorkerUnderWay == ASSUME Assumed, LateInv, UnderWayInv, WorkerSteps
                        PROVE  UnderWayInv'
<1>1. \A s : Goto(Worker, s) => pc'[Worker] = s
  BY WorkerState DEF Goto, Assumed, TypeInv, ControlTypes
<1>2. ASSUME ~Starting(Worker), pc' = pc \/ \E s : Goto(Worker, s)
      PROVE  \A t \in Threads : Starting(t) => Starting(t)'
  BY <1>2 DEF Goto, Starting, Assumed, TypeInv, ControlTypes
<1>3. CASE EnterHandler \/ TimeoutNotifies \/ LeaveCallback
  <2>1. UNCHANGED <<readId_, timer_, ready, device>> /\ ~Starting(Worker)
    BY <1>3 DEF EnterHandler, TimeoutNotifies, LeaveCallback, request, Starting
  <2>2. PICK s : Goto(Worker, s) /\ (s \in {"continue", "timeout"} => Head(ready).what = s)
    BY <1>3 DEF EnterHandler, TimeoutNotifies, LeaveCallback
  <2>3. AtHead'
    BY <1>1, <2>1, <2>2 DEF AtHead
  <2> QED
    BY <1>2, <2>1, <2>2, <2>3, SameCarried, SameUnderWay
<1>4. CASE DropHandler \/ ReadCallback \/ EnterCallback
  <2>1. /\ UNCHANGED <<readId_, timer_, device>> /\ ready # <<>> /\ ready' = Tail(ready)
        /\ ~Starting(Worker) /\ pc[Worker] = "loop"
        /\ pc' = pc \/ Goto(Worker, "callback")
    BY <1>4 DEF DropHandler, ReadCallback, EnterCallback, request, Starting
  <2>2. ~Carries(Head(ready), readId_)
    BY <1>4 DEF DropHandler, ReadIdOk, ReadCallback, EnterCallback, Carries
  <2>3. ready \in Seq(Handlers)
    BY DEF Assumed, TypeInv, QueueTypes
  <2>4. Carried => Carried'
    BY <2>1, <2>2, <2>3, TailPositions DEF Carried
  <2>5. AtHead'
    BY <1>1, <2>1 DEF AtHead
  <2> QED
    BY <1>2, <2>1, <2>4, <2>5, SameUnderWay
<1> QED
  BY <1>3, <1>4, FinishUnderWay, ContinueUnderWay DEF WorkerSteps

LEMMA StepUnderWay == Assumed /\ LateInv /\ UnderWayInv /\ [Next]_vars => UnderWayInv'
<1> SUFFICES ASSUME Assumed, LateInv, UnderWayInv, [Next]_vars PROVE UnderWayInv'
  OBVIOUS
<1>1. CASE UNCHANGED vars
  <2>1. UNCHANGED <<readId_, timer_, ready, device, pc>>
    BY <1>1 DEF vars, request
  <2>2. AtHead' /\ \A t \in Threads : Starting(t) => Starting(t)'
    BY <2>1 DEF UnderWayInv, AtHead, Starting
  <2> QED
    BY <2>1, <2>2, SameCarried, SameUnderWay
<1>2. Next => Others \/ WorkerSteps
  BY Zenon DEF Next, Others
<1> QED
  BY <1>1, <1>2, OthersUnderWay, WorkerUnderWay

(* What the invariant says, counted. *)
LEMMA Counted ==
    ASSUME Assumed, LateInv, UnderWayInv
    PROVE  OneUnderWay
<1> SUFFICES ASSUME Busy PROVE UnderWay = 1
  BY DEF OneUnderWay
<1> DEFINE starters == {t \in Threads : pc[t] \in {"issue", "finish"}}
<1>1. /\ IndexesOf(device, "continue") = Positions(device, readId_)
      /\ IndexesOf(ready, "continue") = Positions(ready, readId_)
  BY DEF IndexesOf, Positions, Carries
<1>2. UnderWay = Cardinality(starters) + Cardinality(Positions(device, readId_))
                 + Cardinality(Positions(ready, readId_))
  BY <1>1 DEF UnderWay
<1>3. /\ \A q : NoneIn(q, readId_) => Cardinality(Positions(q, readId_)) = 0
      /\ \A q : OneIn(q, readId_) => Cardinality(Positions(q, readId_)) = 1
  BY FS_EmptySet, FS_Singleton DEF NoneIn, OneIn
<1>4. CASE \E t \in Threads : Starting(t)
  <2>1. PICK t \in Threads : Starting(t)
    BY <1>4
  <2>2. starters = {t}
    BY <2>1 DEF LateInv, StartsLast, Starting
  <2>3. Cardinality(starters) = 1
    BY <2>2, FS_Singleton
  <2>4. NoneIn(ready, readId_) /\ NoneIn(device, readId_)
    BY <2>1, NothingYet
  <2> HIDE DEF starters
  <2> QED
    BY <1>2, <1>3, <2>3, <2>4
<1>5. CASE \A t \in Threads : ~Starting(t)
  <2>1. starters = {}
    BY <1>5 DEF Starting
  <2>2. Cardinality(starters) = 0
    BY <2>1, FS_EmptySet
  <2>3. Carried
    BY <1>5 DEF UnderWayInv
  <2> HIDE DEF starters
  <2> QED
    BY <1>2, <1>3, <2>2, <2>3 DEF Carried
<1> QED
  BY <1>4, <1>5

LEMMA UnderWayInvariance == ASSUME NoWrap, ~SlowCaller PROVE Spec => []UnderWayInv
<1>1. Init => UnderWayInv
  <2> SUFFICES ASSUME Init PROVE UnderWayInv
    OBVIOUS
  <2>1. timer_ = <<>> /\ ~Busy /\ pc[Worker] = "loop"
    BY WorkerState DEF Init, Busy
  <2> QED
    BY <2>1 DEF UnderWayInv, OnlyTimeouts, AtHead
<1>2. Assumed /\ LateInv /\ UnderWayInv /\ [Next]_vars => UnderWayInv'
  BY StepUnderWay
<1> QED
  BY <1>1, <1>2, LateInvariance, PTL DEF Spec

(* Under the same conditions a read in progress always waits for exactly one   *)
(* thing: never for nothing, which would keep the reader busy for ever, and    *)
(* never for two, which would take bytes of the stream out of order.          *)
THEOREM WaitsForOneThing == ASSUME NoWrap, ~SlowCaller PROVE Spec => []OneUnderWay
<1>1. Assumed /\ LateInv /\ UnderWayInv => OneUnderWay
  BY Counted
<1> QED
  BY <1>1, LateInvariance, UnderWayInvariance, PTL

-----------------------------------------------------------------------------
(* The counts of a read *)

(* The handlers whose bytes fit, if they carry the current read. *)
Fitting(id, left) == {h \in Handlers : Carries(h, id) => h.n <= left}

AllFit(left) ==
    ready \in Seq(Fitting(readId_, left)) /\ device \in Seq(Fitting(readId_, left))

Bounded == Busy /\ reads[dst_].kind # "until"

(* A thread that starts a read starts the current one, which has no byte yet;  *)
(* the bytes a continuation brings fit, until it has added them.              *)
FitInv ==
    /\ \A t \in Threads : Starting(t) => mine[t] = dst_
    /\ Bounded =>
         /\ processed_ <= requestedSize_
         /\ (\E t \in Threads : Starting(t)) => processed_ = 0
         /\ pc[Worker] # "end" => AllFit(requestedSize_ - processed_)

Counting == Assumed /\ LateInv /\ UnderWayInv

-----------------------------------------------------------------------------
(* What carries nothing fits anywhere. *)
LEMMA NoneFits == ASSUME NEW q \in Seq(Handlers), NEW id, NoneIn(q, id), NEW left
                  PROVE  q \in Seq(Fitting(id, left))
<1>1. Len(q) \in Nat /\ \A i \in 1..Len(q) : q[i] \in Handlers /\ ~Carries(q[i], id)
  BY DEF NoneIn, Positions
<1>2. \A i \in 1..Len(q) : q[i] \in Fitting(id, left)
  BY <1>1 DEF Fitting
<1>3. ASSUME NEW S, NEW T, NEW s \in Seq(T), \A i \in 1..Len(s) : s[i] \in S
      PROVE  s \in Seq(S)
  BY <1>3
<1> QED
  BY <1>2, <1>3, Zenon

(* do_read_some asks for no more than its count, and takes no more. *)
LEMMA DoReadSomeFits ==
    ASSUME NEW S, NEW count \in Nat, NEW handler, NEW queue \in Seq(S), device \in Seq(S),
           NEW held \in Nat, DoReadSome(count, handler, queue, held),
           \A n \in 0..count : [handler EXCEPT !.n = n] \in S
    PROVE  ready' \in Seq(S) /\ device' \in Seq(S)
<1>1. CASE held > 0
  <2> DEFINE n == IF held < count THEN held ELSE count
  <2>1. ready' = Append(queue, [handler EXCEPT !.n = n]) /\ device' = device
    BY <1>1 DEF DoReadSome
  <2>2. n \in 0..count
    OBVIOUS
  <2> HIDE DEF n
  <2>3. [handler EXCEPT !.n = n] \in S
    BY <2>2
  <2> QED
    BY <2>1, <2>3, AppendType, Zenon
<1>2. CASE held = 0
  <2>1. device' = Append(device, [handler EXCEPT !.n = count]) /\ ready' = queue
    BY <1>2 DEF DoReadSome
  <2>2. [handler EXCEPT !.n = count] \in S
    OBVIOUS
  <2> QED
    BY <2>1, <2>2, AppendType, Zenon
<1> QED
  BY <1>1, <1>2

LEMMA ContinuationFits ==
    ASSUME TypeInv, NEW kind \in Kinds, NEW count \in Nat
    PROVE  \A n \in 0..count : [Continuation(readId_, kind) EXCEPT !.n = n]
                                  \in Fitting(readId_, count)
<1> SUFFICES ASSUME NEW n \in 0..count
             PROVE  [Continuation(readId_, kind) EXCEPT !.n = n] \in Fitting(readId_, count)
  OBVIOUS
<1>1. n \in Nat /\ n <= count
  OBVIOUS
<1>2. [Continuation(readId_, kind) EXCEPT !.n = n] \in Handlers
  BY <1>1, ContinuationCarries
<1>3. [Continuation(readId_, kind) EXCEPT !.n = n].n = n
  BY DEF Continuation
<1> QED
  BY <1>1, <1>2, <1>3 DEF Fitting

(* A continuation adds at most the bytes it brings, all of them if it reads on.*)
LEMMA ContinueCounts ==
    ASSUME Counting, Continue
    PROVE  LET n == Head(ready).n
           IN  /\ n \in Nat /\ Head(ready).kind \in Kinds \cup {"none"}
               /\ \/ /\ processed_' \in {n} \cup {processed_ + i : i \in 0..n}
                     /\ Goto(Worker, "end")
                     /\ UNCHANGED <<ready, device>>
                  \/ /\ processed_' = processed_ + n
                     /\ processed_ + n < requestedSize_
                     /\ Head(ready).kind # "none"
                     /\ DoReadSome(requestedSize_ - (processed_ + n),
                                   Continuation(Head(ready).id, Head(ready).kind),
                                   Tail(ready), readBuffer_)
                     /\ Goto(Worker, "loop")
<1> DEFINE handler == Head(ready)
<1>1. handler \in Handlers
  BY ContinueCases, QueueType DEF Counting, Assumed, TypeInv, QueueTypes
<1>2. handler.n \in Nat /\ handler.kind \in Kinds \cup {"none"}
  BY <1>1 DEF Handlers
<1>3. \/ /\ processed_' = handler.n
         /\ Goto(Worker, "end") /\ UNCHANGED <<ready, device>>
      \/ /\ \E i \in 1..handler.n : processed_' = processed_ + i
         /\ Goto(Worker, "end") /\ UNCHANGED <<ready, device>>
      \/ handler.kind # "none" /\ GoOn(handler)
  BY DEF Continue, ContinueSome, ContinueAll, ContinueUntil
<1>4. GoOn(handler) =>
         /\ processed_' = processed_ + handler.n
         /\ \/ Goto(Worker, "end") /\ UNCHANGED <<ready, device>>
            \/ /\ processed_ + handler.n < requestedSize_
               /\ DoReadSome(requestedSize_ - (processed_ + handler.n),
                             Continuation(handler.id, handler.kind), Tail(ready), readBuffer_)
               /\ Goto(Worker, "loop")
  BY Zenon DEF GoOn
<1> HIDE DEF handler
<1>5. handler.n \in 0..handler.n /\ \A i \in 1..handler.n : i \in 0..handler.n
  BY <1>2
<1>6. CASE /\ processed_' = handler.n
           /\ Goto(Worker, "end") /\ UNCHANGED <<ready, device>>
  BY <1>2, <1>6 DEF handler
<1>7. CASE /\ \E i \in 1..handler.n : processed_' = processed_ + i
           /\ Goto(Worker, "end") /\ UNCHANGED <<ready, device>>
  BY <1>2, <1>5, <1>7 DEF handler
<1>8. CASE handler.kind # "none" /\ GoOn(handler)
  BY <1>2, <1>4, <1>5, <1>8, Zenon DEF handler
<1> QED
  BY <1>3, <1>6, <1>7, <1>8

-----------------------------------------------------------------------------
(* Steps that count nothing. *)
LEMMA SameFit ==
    ASSUME Counting, FitInv, UNCHANGED <<request, processed_>>,
           \A t \in Threads : Starting(t)' => Starting(t),
           pc'[Worker] = "end" \/ pc[Worker] # "end",
           \A left \in Int : AllFit(left) => ready' \in Seq(Fitting(readId_, left))
                                              /\ device' \in Seq(Fitting(readId_, left))
    PROVE  FitInv'
<1>1. UNCHANGED <<readId_, requestedSize_, dst_, reads, mine, processed_>>
  BY DEF request
<1>2. \A t \in Threads : Starting(t)' => mine'[t] = dst_'
  BY <1>1 DEF FitInv
<1>3. ASSUME Bounded'
      PROVE  /\ processed_' <= requestedSize_'
             /\ (\E t \in Threads : Starting(t)') => processed_' = 0
             /\ pc'[Worker] # "end" => AllFit(requestedSize_ - processed_)'
  <2>1. Bounded
    BY <1>1, <1>3 DEF Bounded, Busy
  <2>2. requestedSize_ - processed_ \in Int
    BY DEF Counting, Assumed, TypeInv, RequestTypes, QueueTypes
  <2>3. pc'[Worker] # "end" => AllFit(requestedSize_ - processed_)'
    BY <1>1, <2>1, <2>2 DEF FitInv, AllFit
  <2> QED
    BY <1>1, <2>1, <2>3 DEF FitInv
<1> QED
  BY <1>2, <1>3 DEF FitInv, Threads

(* No other actor takes the worker out of a handler. *)
LEMMA OthersEnd == ASSUME Counting, Others
                   PROVE  pc'[Worker] = "end" \/ pc[Worker] # "end"
  BY OthersEnterNone DEF Counting, Assumed, InHandler

LEMMA NewReadFit == ASSUME NoWrap, Counting, FitInv, NEW t \in Threads, NewRead(t)
                    PROVE  FitInv'
<1>1. /\ Goto(t, "issue") /\ processed_' = 0 /\ dst_' = Len(reads) + 1
      /\ mine' = [mine EXCEPT ![t] = Len(reads) + 1] /\ device' = device
      /\ requestedSize_' \in Sizes /\ readId_' = NextId /\ ~Busy
      /\ Len(reads) < MaxReads
  BY DEF NewRead
<1>2. \A u \in Threads : Starting(u)' => u = t
  <2>1. \A u \in Threads : ~Starting(u)
    BY <1>1 DEF Counting, LateInv, StartsLast
  <2> QED
    BY <1>1, <2>1 DEF Goto, Starting, Counting, Assumed, TypeInv, ControlTypes
<1>3. mine'[t] = dst_'
  BY <1>1 DEF Counting, Assumed, TypeInv, RequestTypes
<1>4. readId_' = Len(reads) + 1 /\ Len(reads) \in Nat
  BY <1>1, NextIdCounts DEF NextId, Counting, Assumed, OutcomeInv, Numbered
<1>5. requestedSize_' \in Nat
  BY <1>1, ReaderAssumption
<1>6. \E u \in Threads : Starting(u)'
  BY <1>1 DEF Goto, Starting, Counting, Assumed, TypeInv, ControlTypes
<1>7. Counting'
  <2>1. Others
    BY DEF Others
  <2>2. TypeInv' /\ Handling' /\ OutcomeInv'
    BY NewReadTypes, NewReadOutcome, <2>1, OthersKeepHead, OthersEnterNone
    DEF Counting, Assumed, Handling, HeadKept
  <2> QED
    BY <2>2, NewReadLate, NewReadUnderWay DEF Counting, Assumed
<1>8. NoneIn(ready', readId_') /\ NoneIn(device', readId_')
  <2>1. ready' \in Seq(Known(Len(reads') - 1)) /\ device' \in Seq(Known(Len(reads') - 1))
    BY <1>6, <1>7 DEF Counting, LateInv, StartsLast, AllKnown
  <2>2. Len(reads') = readId_'
    <3>1. PICK x : reads' = Append(reads, x)
      BY DEF NewRead
    <3> QED
      BY <1>4, <3>1 DEF Counting, Assumed, OutcomeInv, Numbered
  <2> QED
    BY <1>4, <2>1, <2>2, EarlierCarryNone
<1>9. ready' \in Seq(Handlers) /\ device' \in Seq(Handlers)
  BY <1>7 DEF Counting, Assumed, TypeInv, QueueTypes
<1>10. AllFit(requestedSize_ - processed_)'
  BY <1>8, <1>9, NoneFits DEF AllFit
<1> QED
  BY <1>1, <1>2, <1>3, <1>5, <1>10 DEF FitInv

LEMMA IssueFit == ASSUME Counting, FitInv, NEW t \in Threads, Issue(t)
                  PROVE  FitInv'
<1>1. /\ Starting(t) /\ UNCHANGED <<request, timer_>> /\ reads[mine[t]].kind \in Kinds
      /\ UNCHANGED <<readId_, requestedSize_, dst_, reads, mine>>
  BY IssueCases DEF Counting, Assumed, request
<1>2. mine[t] = dst_
  BY <1>1 DEF FitInv
<1>3. \A u \in Threads : Starting(u)' => Starting(u)
  <2>1. \E s : Goto(t, s)
    BY IssueCases DEF Counting, Assumed
  <2> QED
    BY <1>1, <2>1 DEF Goto, Starting, Counting, Assumed, TypeInv, ControlTypes
<1>4. \A u \in Threads : Starting(u)' => mine'[u] = dst_'
  BY <1>1, <1>3 DEF FitInv
<1>5. ASSUME Bounded'
      PROVE  /\ processed_' <= requestedSize_'
             /\ (\E u \in Threads : Starting(u)') => processed_' = 0
             /\ pc'[Worker] # "end" => AllFit(requestedSize_ - processed_)'
  <2>1. Bounded /\ reads[mine[t]].kind # "until" /\ Busy
    BY <1>1, <1>2, <1>5 DEF Bounded, Busy
  <2>2. /\ DoReadSome(requestedSize_, Continuation(readId_, reads[mine[t]].kind), ready,
                      readBuffer_)
        /\ processed_' = processed_
    BY <2>1 DEF Issue
  <2>3. processed_ = 0 /\ processed_ <= requestedSize_
    BY <1>1, <2>1 DEF FitInv
  <2>4. NoneIn(ready, readId_) /\ NoneIn(device, readId_)
    BY <1>1, NothingYet DEF Counting
  <2>5. /\ ready \in Seq(Handlers) /\ device \in Seq(Handlers) /\ requestedSize_ \in Nat
        /\ readBuffer_ \in Nat
    BY DEF Counting, Assumed, TypeInv, QueueTypes, RequestTypes
  <2>6. /\ ready \in Seq(Fitting(readId_, requestedSize_))
        /\ device \in Seq(Fitting(readId_, requestedSize_))
    BY <2>4, <2>5, NoneFits
  <2>7. \A n \in 0..requestedSize_ :
           [Continuation(readId_, reads[mine[t]].kind) EXCEPT !.n = n]
              \in Fitting(readId_, requestedSize_)
    BY <1>1, <2>5, ContinuationFits DEF Counting, Assumed
  <2>8. /\ ready' \in Seq(Fitting(readId_, requestedSize_))
        /\ device' \in Seq(Fitting(readId_, requestedSize_))
    BY <2>2, <2>5, <2>6, <2>7, DoReadSomeFits, Zenon
  <2>9. requestedSize_' - processed_' = requestedSize_
    BY <1>1, <2>2, <2>3, <2>5
  <2>10. AllFit(requestedSize_ - processed_)'
    BY <1>1, <2>8, <2>9 DEF AllFit
  <2> QED
    BY <1>1, <2>2, <2>3, <2>10
<1> QED
  BY <1>4, <1>5 DEF FitInv

(* The end of a read leaves nothing to bound. *)
LEMMA FinishFit ==
    ASSUME Counting, FitInv, FinishHandler \/ \E t \in Threads : FinishInline(t)
    PROVE  FitInv'
<1>1. ~Busy' /\ UNCHANGED <<mine, dst_>>
  BY FinishReadFrees DEF FinishHandler, FinishInline
<1>2. PICK t \in Threads, s \in {"loop", "reset", "idle"} : Goto(t, s)
  BY WorkerState DEF FinishHandler, FinishInline, Started
<1>3. \A u \in Threads : Starting(u)' => Starting(u)
  BY <1>2 DEF Goto, Starting, Counting, Assumed, TypeInv, ControlTypes
<1>4. ~Bounded'
  BY <1>1 DEF Bounded
<1> QED
  BY <1>1, <1>3, <1>4 DEF FitInv

(* An answer brings no more than was asked. *)
LEMMA DeviceFit == ASSUME Counting, FitInv, DeviceDelivers \/ DeviceFails
                   PROVE  FitInv'
<1>1. device # <<>> /\ UNCHANGED <<request, processed_, pc>>
  BY DEF DeviceDelivers, DeviceFails, Answer
<1>2. PICK n \in Nat, err \in BOOLEAN :
         /\ Answer([Head(device) EXCEPT !.n = n, !.err = err])
         /\ n <= Head(device).n
  <2>1. Head(device) \in Handlers
    BY <1>1, QueueType DEF Counting, Assumed, TypeInv, QueueTypes
  <2>2. CASE DeviceDelivers
    <3>1. PICK n \in 0..Head(device).n : Answer([Head(device) EXCEPT !.n = n])
      BY <2>2 DEF DeviceDelivers
    <3>2. n \in Nat /\ n <= Head(device).n /\ Head(device).err \in BOOLEAN
      BY <2>1, <3>1 DEF Handlers
    <3>3. [Head(device) EXCEPT !.n = n] = [Head(device) EXCEPT !.n = n, !.err = Head(device).err]
      BY <2>1 DEF Handlers
    <3> QED
      BY <3>1, <3>2, <3>3
  <2>3. CASE DeviceFails
    <3>1. Answer([Head(device) EXCEPT !.n = 0, !.err = TRUE])
      BY <2>3 DEF DeviceFails
    <3>2. 0 \in Nat /\ TRUE \in BOOLEAN /\ 0 <= Head(device).n
      BY <2>1 DEF Handlers
    <3> QED
      BY <3>1, <3>2
  <2> QED
    BY <2>2, <2>3
<1>3. ASSUME NEW left \in Int, AllFit(left)
      PROVE  ready' \in Seq(Fitting(readId_, left)) /\ device' \in Seq(Fitting(readId_, left))
  <2> DEFINE h == [Head(device) EXCEPT !.n = n, !.err = err]
  <2>1. Head(device) \in Fitting(readId_, left) /\ Tail(device) \in Seq(Fitting(readId_, left))
    BY <1>1, <1>3, QueueType DEF AllFit
  <2>2. Head(device) \in Handlers /\ (Carries(Head(device), readId_) => Head(device).n <= left)
    BY <2>1 DEF Fitting
  <2>3. /\ h \in Handlers /\ h.n = n /\ n <= Head(device).n /\ Head(device).n \in Nat
        /\ Carries(h, readId_) <=> Carries(Head(device), readId_)
    BY <1>2, <2>2 DEF Handlers, Carries
  <2>4. ready' = Append(ready, h) /\ device' = Tail(device)
    BY <1>2 DEF Answer
  <2> HIDE DEF h
  <2>5. h \in Fitting(readId_, left)
    BY <2>2, <2>3 DEF Fitting
  <2>6. Append(ready, h) \in Seq(Fitting(readId_, left))
    BY <1>3, <2>5, AppendType, Zenon DEF AllFit
  <2> QED
    BY <2>1, <2>4, <2>6
<1>4. \A t \in Threads : Starting(t)' => Starting(t)
  BY <1>1 DEF Starting
<1> QED
  BY <1>1, <1>3, <1>4, SameFit

LEMMA TimerFit == ASSUME Counting, FitInv, TimerExpires
                  PROVE  FitInv'
<1>1. ready' = ready \o timer_ /\ UNCHANGED <<request, processed_, device, pc>>
  BY DEF TimerExpires
<1>2. NoneIn(timer_, readId_)
  BY DEF Counting, UnderWayInv, OnlyTimeouts, NoneIn, Positions, Carries
<1>3. ASSUME NEW left \in Int, AllFit(left)
      PROVE  ready' \in Seq(Fitting(readId_, left)) /\ device' \in Seq(Fitting(readId_, left))
  <2>1. timer_ \in Seq(Fitting(readId_, left))
    BY <1>2, NoneFits DEF Counting, Assumed, TypeInv, QueueTypes
  <2> QED
    BY <1>1, <1>3, <2>1, ConcatType DEF AllFit
<1>4. \A t \in Threads : Starting(t)' => Starting(t)
  BY <1>1 DEF Starting
<1> QED
  BY <1>1, <1>3, <1>4, SameFit

LEMMA OthersFit == ASSUME NoWrap, Counting, FitInv, Others
                   PROVE  FitInv'
<1>1. ASSUME UNCHANGED <<request, processed_, ready, device>>,
             \A t \in Threads : Starting(t)' => Starting(t)
      PROVE  FitInv'
  BY <1>1, OthersEnd, SameFit DEF AllFit
<1>2. ASSUME NEW t \in Threads, Refused(t)
      PROVE  FitInv'
  <2>1. UNCHANGED <<request, processed_, ready, device>>
    BY <1>2 DEF Refused
  <2>2. \E s \in {"loop", "idle"} : Goto(t, s)
    BY <1>2 DEF Refused
  <2>3. \A u \in Threads : Starting(u)' => Starting(u)
    BY <2>2 DEF Goto, Starting, Counting, Assumed, TypeInv, ControlTypes
  <2> QED
    BY <1>1, <2>1, <2>3
<1>3. ASSUME NEW c \in Callers, SyncSteps(c) \/ SpuriousWake(c) \/ Flush(c)
      PROVE  FitInv'
  <2>1. UNCHANGED <<request, processed_, ready, device>>
    BY <1>3 DEF SyncSteps, ResetNotified, CheckNotified, Block, Wake, SpuriousWake, Flush
  <2>2. pc' = pc \/ \E s \in {"check", "idle", "block", "asleep"} : Goto(c, s)
    BY <1>3 DEF SyncSteps, ResetNotified, CheckNotified, Block, Wake, SpuriousWake, Flush
  <2>3. \A u \in Threads : Starting(u)' => Starting(u)
    BY <2>2 DEF Goto, Starting, Counting, Assumed, TypeInv, ControlTypes, Threads
  <2> QED
    BY <1>1, <2>1, <2>3
<1> QED
  BY <1>2, <1>3, NewReadFit, IssueFit, FinishFit, DeviceFit, TimerFit, Zenon
  DEF Others, StartSteps, Environment

(* The bytes of the handler are added; what is missing is asked for. *)
LEMMA ContinueFit == ASSUME Counting, FitInv, Continue
                     PROVE  FitInv'
<1>1. /\ ready # <<>> /\ UNCHANGED <<request, timer_>> /\ InHandler /\ pc[Worker] = "continue"
      /\ UNCHANGED <<readId_, requestedSize_, dst_, reads, mine>>
  BY ContinueCases DEF Counting, Assumed, Continue, InHandler, request
<1>2. Head(ready).id = readId_ /\ Busy /\ Carries(Head(ready), readId_)
  BY <1>1 DEF Counting, LateInv, Current, UnderWayInv, AtHead, Carries
<1>3. \A u \in Threads : ~Starting(u)
  BY <1>1, NobodyStarts DEF Counting
<1>4. PICK s \in {"end", "loop"} : Goto(Worker, s)
  BY ContinueCases DEF Counting, Assumed
<1>5. (\A u \in Threads : ~Starting(u)') /\ pc'[Worker] = s
  BY <1>3, <1>4, WorkerState DEF Goto, Starting, Counting, Assumed, TypeInv, ControlTypes
<1>6. ASSUME Bounded'
      PROVE  /\ processed_' <= requestedSize_'
             /\ pc'[Worker] # "end" => AllFit(requestedSize_ - processed_)'
  <2>0. PICK n : n = Head(ready).n
    OBVIOUS
  <2>1. /\ n \in Nat /\ Head(ready).kind \in Kinds \cup {"none"}
        /\ \/ /\ processed_' \in {n} \cup {processed_ + i : i \in 0..n}
              /\ Goto(Worker, "end")
           \/ /\ processed_' = processed_ + n
              /\ processed_ + n < requestedSize_
              /\ Head(ready).kind # "none"
              /\ DoReadSome(requestedSize_ - (processed_ + n),
                            Continuation(Head(ready).id, Head(ready).kind),
                            Tail(ready), readBuffer_)
              /\ Goto(Worker, "loop")
    BY <2>0, ContinueCounts
  <2>2. Bounded
    BY <1>1, <1>6 DEF Bounded, Busy
  <2>3. AllFit(requestedSize_ - processed_)
    BY <1>1, <2>2 DEF FitInv
  <2>4. Head(ready) \in Fitting(readId_, requestedSize_ - processed_)
    BY <1>1, <2>3, QueueType DEF AllFit
  <2>5. n <= requestedSize_ - processed_
    BY <1>2, <2>0, <2>4 DEF Fitting
  <2>6. processed_ \in Nat /\ requestedSize_ \in Nat /\ readBuffer_ \in Nat
    BY DEF Counting, Assumed, TypeInv, QueueTypes, RequestTypes
  <2>7. CASE processed_' \in {n} \cup {processed_ + i : i \in 0..n} /\ Goto(Worker, "end")
    <3>1. pc'[Worker] = "end"
      BY <2>7, WorkerState DEF Goto, Counting, Assumed, TypeInv, ControlTypes
    <3>2. processed_' <= requestedSize_
      BY <2>1, <2>5, <2>6, <2>7
    <3> QED
      BY <1>1, <3>1, <3>2
  <2>8. CASE /\ processed_' = processed_ + n
             /\ processed_ + n < requestedSize_
             /\ Head(ready).kind # "none"
             /\ DoReadSome(requestedSize_ - (processed_ + n),
                           Continuation(Head(ready).id, Head(ready).kind),
                           Tail(ready), readBuffer_)
    <3>1. PICK left \in Nat : left = requestedSize_ - (processed_ + n)
      BY <2>1, <2>6, <2>8
    <3>2. /\ ready \in Seq(Handlers) /\ Tail(ready) \in Seq(Handlers)
          /\ device \in Seq(Handlers)
      BY <1>1, QueueType DEF Counting, Assumed, TypeInv, QueueTypes
    <3>3. NoneIn(Tail(ready), readId_) /\ NoneIn(device, readId_)
      BY <1>1, <1>2, <1>3, <3>2, TailPositions DEF Counting, UnderWayInv, Carried
    <3>4. /\ Tail(ready) \in Seq(Fitting(readId_, left))
          /\ device \in Seq(Fitting(readId_, left))
      BY <3>2, <3>3, NoneFits
    <3>5. Head(ready).kind \in Kinds
      BY <2>1, <2>8
    <3>6. \A m \in 0..left : [Continuation(readId_, Head(ready).kind) EXCEPT !.n = m]
                                \in Fitting(readId_, left)
      BY <3>5, ContinuationFits DEF Counting, Assumed
    <3>7. DoReadSome(left, Continuation(readId_, Head(ready).kind), Tail(ready), readBuffer_)
      BY <1>2, <2>8, <3>1
    <3>8. ready' \in Seq(Fitting(readId_, left)) /\ device' \in Seq(Fitting(readId_, left))
      BY <2>6, <3>4, <3>6, <3>7, DoReadSomeFits, Zenon
    <3>9. requestedSize_' - processed_' = left /\ processed_' <= requestedSize_'
      BY <1>1, <2>1, <2>6, <2>8, <3>1
    <3> QED
      BY <1>1, <3>8, <3>9 DEF AllFit
  <2> QED
    BY <2>1, <2>7, <2>8
<1> QED
  BY <1>5, <1>6 DEF FitInv

LEMMA WorkerFit == ASSUME Counting, FitInv, WorkerSteps
                   PROVE  FitInv'
<1>1. ASSUME NEW s \in {"continue", "timeout", "end", "callback", "loop"}, Goto(Worker, s)
      PROVE  \A t \in Threads : Starting(t)' => Starting(t)
  BY <1>1 DEF Goto, Starting, Counting, Assumed, TypeInv, ControlTypes
<1>2. CASE EnterHandler \/ TimeoutNotifies \/ LeaveCallback
  <2>1. UNCHANGED <<request, processed_, ready, device>> /\ pc[Worker] # "end"
    BY <1>2 DEF EnterHandler, TimeoutNotifies, LeaveCallback
  <2>2. PICK s \in {"continue", "timeout", "end", "callback", "loop"} : Goto(Worker, s)
    BY <1>2 DEF EnterHandler, TimeoutNotifies, LeaveCallback
  <2> QED
    BY <1>1, <2>1, <2>2, SameFit DEF AllFit
<1>3. CASE DropHandler \/ ReadCallback \/ EnterCallback
  <2>1. /\ UNCHANGED <<request, processed_, device>> /\ pc[Worker] # "end"
        /\ ready # <<>> /\ ready' = Tail(ready)
        /\ pc' = pc \/ Goto(Worker, "callback")
    BY <1>3 DEF DropHandler, ReadCallback, EnterCallback
  <2>2. \A left \in Int : AllFit(left) => ready' \in Seq(Fitting(readId_, left))
                                          /\ device' \in Seq(Fitting(readId_, left))
    BY <2>1, QueueType DEF AllFit
  <2>3. \A t \in Threads : Starting(t)' => Starting(t)
    BY <1>1, <2>1 DEF Starting
  <2> QED
    BY <2>1, <2>2, <2>3, SameFit
<1> QED
  BY <1>2, <1>3, FinishFit, ContinueFit DEF WorkerSteps

LEMMA StepFit == NoWrap /\ Counting /\ FitInv /\ [Next]_vars => FitInv'
<1> SUFFICES ASSUME NoWrap, Counting, FitInv, [Next]_vars PROVE FitInv'
  OBVIOUS
<1>1. CASE UNCHANGED vars
  <2>1. UNCHANGED <<request, processed_, ready, device, pc>>
    BY <1>1 DEF vars
  <2>2. \A t \in Threads : Starting(t)' => Starting(t)
    BY <2>1 DEF Starting
  <2> QED
    BY <2>1, <2>2, SameFit DEF AllFit
<1>2. Next => Others \/ WorkerSteps
  BY Zenon DEF Next, Others
<1> QED
  BY <1>1, <1>2, OthersFit, WorkerFit

LEMMA FitInvariance == ASSUME NoWrap, ~SlowCaller PROVE Spec => [](Counting /\ FitInv)
<1>1. Init => FitInv
  <2> SUFFICES ASSUME Init PROVE FitInv
    OBVIOUS
  <2>1. ~Bounded /\ \A t \in Threads : ~Starting(t)
    BY DEF Init, Bounded, Busy, Starting
  <2> QED
    BY <2>1 DEF FitInv
<1>2. Counting /\ FitInv /\ [Next]_vars => FitInv'
  BY StepFit
<1>3. Counting <=> Assumed /\ LateInv /\ UnderWayInv
  BY DEF Counting
<1> QED
  BY <1>1, <1>2, <1>3, LateInvariance, UnderWayInvariance, PTL DEF Spec

(* The other two reads, read_some and read, never count more bytes than their  *)
(* buffer has room for, with any sizes and however the device cuts its bytes; *)
(* a late answer of an earlier read is not counted either.                    *)
THEOREM CountsInBound == ASSUME NoWrap, ~SlowCaller PROVE Spec => []CountInBound
<1>1. FitInv => CountInBound
  BY DEF FitInv, Bounded, CountInBound
<1> QED
  BY <1>1, FitInvariance, PTL

-----------------------------------------------------------------------------
(* The count of a full read.  What a handler tells of its read is true: its    *)
(* kind, that it has a timeout if it is one, and the count of its callback.   *)

TrueOf(h, rs) ==
    /\ h.dst \in 1..Len(rs)
    /\ h.what = "continue" => h.kind = rs[h.dst].kind
    /\ h.what = "timeout" => rs[h.dst].timed
    /\ h.what = "callback" /\ ~h.err /\ rs[h.dst].kind = "all" /\ ~rs[h.dst].timed
          => h.n = rs[h.dst].size

Told(rs)  == {h \in Handlers : TrueOf(h, rs)}
Asked(rs) == {h \in Handlers : h.what = "continue" /\ TrueOf(h, rs)}

ReadOn == reads[dst_].kind = "all" /\ Head(ready).what = "continue" /\ ~Head(ready).err

FullInv ==
    /\ ready \in Seq(Told(reads))
    /\ timer_ \in Seq(Told(reads))
    /\ device \in Seq(Asked(reads))
    /\ Busy => requestedSize_ = reads[dst_].size
    /\ \A t \in Threads : pc[t] = "finish" => reads[dst_].kind = "until"
    /\ pc[Worker] = "end" /\ ReadOn => processed_ >= requestedSize_

Full == Counting /\ FitInv /\ FullInv

(* The next read makes no handler wrong. *)
LEMMA ToldGrows ==
    ASSUME NEW rs \in Seq(Reads), NEW r \in Reads
    PROVE  /\ \A s : s \in Seq(Told(rs)) => s \in Seq(Told(Append(rs, r)))
           /\ \A s : s \in Seq(Asked(rs)) => s \in Seq(Asked(Append(rs, r)))
<1>1. /\ Len(rs) \in Nat /\ Len(Append(rs, r)) = Len(rs) + 1
      /\ \A i \in 1..Len(rs) : Append(rs, r)[i] = rs[i] /\ i \in 1..(Len(rs) + 1)
  OBVIOUS
<1>2. \A h \in Handlers : TrueOf(h, rs) => TrueOf(h, Append(rs, r))
  BY <1>1 DEF TrueOf
<1>3. Told(rs) \subseteq Told(Append(rs, r)) /\ Asked(rs) \subseteq Asked(Append(rs, r))
  BY <1>2 DEF Told, Asked
<1>4. ASSUME NEW S, NEW T, S \subseteq T, NEW s \in Seq(S)
      PROVE  s \in Seq(T)
  BY <1>4
<1> QED
  BY <1>3, <1>4, Zenon

LEMMA AskedTold == ASSUME NEW rs PROVE Asked(rs) \subseteq Told(rs)
  BY DEF Asked, Told

(* A continuation of the current read. *)
LEMMA ContinuationAsked ==
    ASSUME Assumed, Busy
    PROVE  \A n \in Nat : [Continuation(readId_, reads[dst_].kind) EXCEPT !.n = n]
                             \in Asked(reads)
<1> SUFFICES ASSUME NEW n \in Nat
             PROVE  [Continuation(readId_, reads[dst_].kind) EXCEPT !.n = n] \in Asked(reads)
  OBVIOUS
<1> DEFINE h == [Continuation(readId_, reads[dst_].kind) EXCEPT !.n = n]
<1>1. dst_ \in 1..Len(reads) /\ reads \in Seq(Reads)
  BY DEF Assumed, OutcomeInv, Numbered, Busy
<1>2. reads[dst_].kind \in Kinds
  <2>1. reads[dst_] \in Reads
    BY <1>1, LenType
  <2> QED
    BY <2>1 DEF Reads
<1>3. h \in Handlers
  BY <1>2, ContinuationCarries DEF Assumed
<1>4. h.what = "continue" /\ h.dst = dst_ /\ h.kind = reads[dst_].kind
  BY DEF Continuation
<1> HIDE DEF h
<1>5. h \in Asked(reads)
  BY <1>1, <1>3, <1>4 DEF Asked, TrueOf
<1> QED
  BY <1>5 DEF h

(* do_read_some hands it to the service or to the device. *)
LEMMA DoReadSomeTold ==
    ASSUME NEW count \in Nat, NEW handler, NEW held \in Nat, NEW queue \in Seq(Told(reads)),
           device \in Seq(Asked(reads)), DoReadSome(count, handler, queue, held),
           \A n \in Nat : [handler EXCEPT !.n = n] \in Asked(reads)
    PROVE  ready' \in Seq(Told(reads)) /\ device' \in Seq(Asked(reads))
<1>1. CASE held > 0
  <2> DEFINE n == IF held < count THEN held ELSE count
  <2>1. ready' = Append(queue, [handler EXCEPT !.n = n]) /\ device' = device
    BY <1>1 DEF DoReadSome
  <2>2. n \in Nat
    OBVIOUS
  <2> HIDE DEF n
  <2>3. [handler EXCEPT !.n = n] \in Told(reads)
    BY <2>2, AskedTold
  <2> QED
    BY <2>1, <2>3, AppendType, Zenon
<1>2. CASE held = 0
  <2>1. device' = Append(device, [handler EXCEPT !.n = count]) /\ ready' = queue
    BY <1>2 DEF DoReadSome
  <2>2. [handler EXCEPT !.n = count] \in Asked(reads)
    OBVIOUS
  <2> QED
    BY <2>1, <2>2, AppendType, Zenon
<1> QED
  BY <1>1, <1>2

(* Steps that change no request. *)
LEMMA SameFull ==
    ASSUME FullInv, UNCHANGED <<readId_, requestedSize_, dst_, reads>>,
           timer_' \in {timer_, <<>>},
           ready' \in Seq(Told(reads)), device' \in Seq(Asked(reads)),
           \A t \in Threads : pc'[t] = "finish" => pc[t] = "finish",
           pc'[Worker] = "end" /\ ReadOn' => processed_' >= requestedSize_
    PROVE  FullInv'
<1>1. <<>> \in Seq(Told(reads))
  OBVIOUS
<1> QED
  BY <1>1 DEF FullInv, Busy, Threads

(* The count of what the worker is about to end is kept by the others. *)
LEMMA OthersReadOn ==
    ASSUME Full, Others, UNCHANGED <<reads, dst_, processed_>>
    PROVE  pc'[Worker] = "end" /\ ReadOn' => processed_' >= requestedSize_
<1> SUFFICES ASSUME pc'[Worker] = "end", ReadOn' PROVE processed_' >= requestedSize_
  OBVIOUS
<1>1. InHandler /\ pc[Worker] = "end"
  BY OthersEnterNone DEF Full, Counting, Assumed, InHandler
<1>2. ready # <<>> /\ Head(ready') = Head(ready)
  BY <1>1, OthersKeepHead DEF Full, Counting, Assumed, Handling, HeadKept
<1>3. ReadOn
  BY <1>2 DEF ReadOn
<1> QED
  BY <1>1, <1>3 DEF Full, FullInv

LEMMA NewReadFull == ASSUME NoWrap, Full, NEW t \in Threads, NewRead(t)
                     PROVE  FullInv'
<1>1. PICK kind \in Kinds, size \in Sizes, timed \in Timeouts, sync \in BOOLEAN :
         /\ requestedSize_' = size
         /\ reads' = Append(reads, [kind |-> kind, size |-> size, timed |-> timed,
                                    sync |-> sync])
         /\ IF timed THEN Arm(NextId, Len(reads) + 1) ELSE UNCHANGED <<ready, timer_>>
         /\ ~Busy /\ dst_' = Len(reads) + 1 /\ device' = device /\ Goto(t, "issue")
         /\ Len(reads) < MaxReads
  BY Zenon DEF NewRead
<1> DEFINE r == [kind |-> kind, size |-> size, timed |-> timed, sync |-> sync]
<1>2. r \in Reads /\ reads \in Seq(Reads) /\ Len(reads) \in Nat
  BY ReaderAssumption DEF Reads, Full, Counting, Assumed, OutcomeInv, Numbered
<1>3. Len(reads') = Len(reads) + 1 /\ reads'[Len(reads) + 1] = r
  BY <1>1, <1>2
<1>4. /\ ready \in Seq(Told(reads')) /\ timer_ \in Seq(Told(reads'))
      /\ device \in Seq(Asked(reads'))
  BY <1>1, <1>2, ToldGrows DEF Full, FullInv
<1>5. ready' \in Seq(Told(reads')) /\ timer_' \in Seq(Told(reads'))
  <2>1. CASE ~timed
    BY <1>1, <1>4, <2>1
  <2>2. CASE timed
    <3>1. NextId \in Nat
      BY <1>1, <1>2, NextIdCounts DEF NextId, Full, Counting, Assumed, OutcomeInv, Numbered
    <3> DEFINE h == TimeoutReached(NextId, Len(reads) + 1)
    <3>2. h \in Handlers
      BY <1>2, <3>1 DEF TimeoutReached, Handlers
    <3>3. h.what = "timeout" /\ h.dst = Len(reads) + 1
      BY DEF TimeoutReached
    <3>4. ready' = ready \o timer_ /\ timer_' = <<h>>
      BY <1>1, <2>2 DEF Arm
    <3> HIDE DEF h
    <3>5. h \in Told(reads')
      BY <1>2, <1>3, <2>2, <3>2, <3>3 DEF Told, TrueOf
    <3>6. <<h>> \in Seq(Told(reads'))
      BY <3>5
    <3>7. ready \o timer_ \in Seq(Told(reads'))
      BY <1>4, ConcatType
    <3> QED
      BY <3>4, <3>6, <3>7
  <2> QED
    BY <2>1, <2>2
<1>6. requestedSize_' = reads'[dst_'].size
  BY <1>1, <1>3
<1>7. \A u \in Threads : pc'[u] # "finish"
  <2>1. \A u \in Threads : ~Starting(u)
    BY <1>1 DEF Full, Counting, LateInv, StartsLast
  <2> QED
    BY <1>1, <2>1 DEF Goto, Starting, Full, Counting, Assumed, TypeInv, ControlTypes
<1>8. pc'[Worker] # "end"
  <2>1. ~InHandler
    BY <1>1 DEF Full, Counting, LateInv, Current
  <2> QED
    BY <2>1, OthersEnterNone DEF Others, Full, Counting, Assumed, InHandler
<1> QED
  BY <1>1, <1>4, <1>5, <1>6, <1>7, <1>8 DEF FullInv

LEMMA IssueFull == ASSUME Full, NEW t \in Threads, Issue(t)
                   PROVE  FullInv'
<1>1. /\ Starting(t) /\ UNCHANGED <<request, timer_>> /\ Others
      /\ UNCHANGED <<readId_, requestedSize_, dst_, reads, mine>>
  BY IssueCases DEF Full, Counting, Assumed, request, Others, StartSteps
<1>2. mine[t] = dst_ /\ Busy
  BY <1>1 DEF Full, FitInv, Counting, LateInv, StartsLast
<1>3. pc'[Worker] # "end"
  <2>1. ~InHandler
    BY <1>1, NobodyStarts DEF Full, Counting
  <2> QED
    BY <1>1, <2>1, OthersEnterNone DEF Full, Counting, Assumed, InHandler
<1>4. ready \in Seq(Told(reads)) /\ device \in Seq(Asked(reads)) /\ timer_ \in Seq(Told(reads))
  BY DEF Full, FullInv
<1>5. CASE Goto(t, "finish") /\ UNCHANGED <<ready, device>>
  <2>1. reads[dst_].kind = "until"
    BY <1>2, <1>5 DEF Issue, Goto, Started, Full, Counting, Assumed, TypeInv, ControlTypes
  <2> QED
    BY <1>1, <1>3, <1>4, <1>5, <2>1 DEF FullInv, Full, Busy
<1>6. ASSUME NEW held \in Nat, Goto(t, Started(t)),
             DoReadSome(requestedSize_, Continuation(readId_, reads[mine[t]].kind), ready, held)
      PROVE  FullInv'
  <2>1. \A n \in Nat : [Continuation(readId_, reads[dst_].kind) EXCEPT !.n = n] \in Asked(reads)
    BY <1>2, ContinuationAsked DEF Full, Counting
  <2>2. requestedSize_ \in Nat
    BY DEF Full, Counting, Assumed, TypeInv, RequestTypes
  <2>3. ready' \in Seq(Told(reads)) /\ device' \in Seq(Asked(reads))
    BY <1>2, <1>4, <1>6, <2>1, <2>2, DoReadSomeTold
  <2>4. \A u \in Threads : pc'[u] = "finish" => pc[u] = "finish"
    BY <1>6 DEF Goto, Started, Full, Counting, Assumed, TypeInv, ControlTypes
  <2> QED
    BY <1>1, <1>3, <2>3, <2>4, SameFull DEF Full
<1> QED
  BY <1>5, <1>6, IssueCases DEF Full, Counting, Assumed

(* The callback of a read that ends is told the truth if its count is full. *)
LEMMA CallbackTold ==
    ASSUME Assumed, Busy, NEW err \in BOOLEAN,
           ~err /\ reads[dst_].kind = "all" /\ ~reads[dst_].timed => processed_ = reads[dst_].size
    PROVE  UserCallback(err) \in Told(reads)
<1>1. dst_ \in 1..Len(reads)
  BY DEF Assumed, OutcomeInv, Numbered, Busy
<1>2. UserCallback(err) \in Handlers
  BY DEF UserCallback, Handlers, Assumed, TypeInv, RequestTypes, QueueTypes
<1>3. /\ UserCallback(err).what = "callback" /\ UserCallback(err).dst = dst_
      /\ UserCallback(err).n = processed_ /\ UserCallback(err).err = err
  BY DEF UserCallback
<1> QED
  BY <1>1, <1>2, <1>3 DEF Told, TrueOf

LEMMA FinishInlineFull == ASSUME Full, NEW t \in Threads, FinishInline(t)
                          PROVE  FullInv'
<1>1. /\ Starting(t) /\ pc[t] = "finish" /\ Goto(t, Started(t)) /\ Others
      /\ UNCHANGED <<requestedSize_, dst_, reads, timer_, device>>
  BY DEF FinishInline, Starting, Others, StartSteps
<1>2. Busy /\ \A u \in Threads : Starting(u) => u = t
  BY <1>1 DEF Full, Counting, LateInv, StartsLast
<1>3. ready' = Append(ready, UserCallback(FALSE)) /\ ~Busy'
  BY <1>2 DEF FinishInline, FinishRead, Busy
<1>4. UserCallback(FALSE) \in Told(reads)
  <2>1. reads[dst_].kind = "until" /\ FALSE \in BOOLEAN
    BY <1>1 DEF Full, FullInv
  <2> QED
    BY <1>2, <2>1, CallbackTold DEF Full, Counting
<1>5. ready' \in Seq(Told(reads))
  BY <1>3, <1>4, AppendType, Zenon DEF Full, FullInv
<1>6. \A u \in Threads : pc'[u] # "finish"
  BY <1>1, <1>2 DEF Goto, Started, Starting, Full, Counting, Assumed, TypeInv, ControlTypes
<1>7. pc'[Worker] # "end"
  <2>1. ~InHandler
    BY <1>1, NobodyStarts DEF Full, Counting
  <2> QED
    BY <1>1, <2>1, OthersEnterNone DEF Full, Counting, Assumed, InHandler
<1> QED
  BY <1>1, <1>3, <1>5, <1>6, <1>7 DEF Full, FullInv

LEMMA FinishHandlerFull == ASSUME Full, FinishHandler
                           PROVE  FullInv'
<1>1. /\ pc[Worker] = "end" /\ InHandler /\ Goto(Worker, "loop")
      /\ UNCHANGED <<requestedSize_, dst_, reads, timer_, device>>
  BY DEF FinishHandler, InHandler
<1>2. /\ ready # <<>> /\ Busy /\ Head(ready).what # "callback" /\ Head(ready).id = readId_
  BY <1>1 DEF Full, Counting, LateInv, Current
<1>3. ready' = Append(Tail(ready), UserCallback(Head(ready).err)) /\ ~Busy'
  BY <1>2 DEF FinishHandler, FinishRead, Busy
<1>4. Head(ready) \in Told(reads) /\ Tail(ready) \in Seq(Told(reads))
  BY <1>2, QueueType DEF Full, FullInv
<1>5. Head(ready).err \in BOOLEAN /\ Head(ready).what \in {"continue", "timeout", "callback"}
  BY <1>4 DEF Told, Handlers
<1>6. Head(ready).dst = dst_
  <2>1. Head(ready) \in Known(Len(reads))
    BY <1>2, QueueType DEF Full, Counting, LateInv, AllKnown
  <2> QED
    BY <1>2, <2>1 DEF Known, Busy, Full, Counting, Assumed, OutcomeInv, Numbered
<1>7. ASSUME ~Head(ready).err, reads[dst_].kind = "all", ~reads[dst_].timed
      PROVE  processed_ = reads[dst_].size
  <2>1. Head(ready).what = "continue"
    BY <1>2, <1>4, <1>5, <1>6, <1>7 DEF Told, TrueOf
  <2>2. processed_ >= requestedSize_ /\ requestedSize_ = reads[dst_].size
    BY <1>1, <1>2, <1>7, <2>1 DEF Full, FullInv, ReadOn
  <2>3. processed_ <= requestedSize_
    BY <1>2, <1>7 DEF Full, FitInv, Bounded
  <2>4. processed_ \in Nat /\ requestedSize_ \in Nat
    BY DEF Full, Counting, Assumed, TypeInv, QueueTypes, RequestTypes
  <2> QED
    BY <2>2, <2>3, <2>4
<1>8. UserCallback(Head(ready).err) \in Told(reads)
  BY <1>2, <1>5, <1>7, CallbackTold DEF Full, Counting
<1>9. ready' \in Seq(Told(reads))
  BY <1>3, <1>4, <1>8, AppendType, Zenon
<1>10. pc'[Worker] = "loop" /\ \A u \in Threads : pc'[u] = "finish" => pc[u] = "finish"
  BY <1>1, WorkerState DEF Goto, Full, Counting, Assumed, TypeInv, ControlTypes
<1> QED
  BY <1>1, <1>3, <1>9, <1>10 DEF Full, FullInv

LEMMA DeviceFull == ASSUME Full, DeviceDelivers \/ DeviceFails
                    PROVE  FullInv'
<1>1. device # <<>> /\ UNCHANGED <<request, processed_, timer_, pc>> /\ Others
  BY DEF DeviceDelivers, DeviceFails, Answer, Others, Environment
<1>2. Head(device) \in Asked(reads) /\ Tail(device) \in Seq(Asked(reads))
  BY <1>1, QueueType DEF Full, FullInv
<1>3. PICK n \in Nat, err \in BOOLEAN : Answer([Head(device) EXCEPT !.n = n, !.err = err])
  <2>1. Head(device) \in Handlers
    BY <1>2 DEF Asked
  <2>2. CASE DeviceDelivers
    <3>1. PICK n \in 0..Head(device).n : Answer([Head(device) EXCEPT !.n = n])
      BY <2>2 DEF DeviceDelivers
    <3>2. n \in Nat /\ Head(device).err \in BOOLEAN
      BY <2>1, <3>1 DEF Handlers
    <3>3. [Head(device) EXCEPT !.n = n] = [Head(device) EXCEPT !.n = n, !.err = Head(device).err]
      BY <2>1 DEF Handlers
    <3> QED
      BY <3>1, <3>2, <3>3
  <2>3. CASE DeviceFails
    BY <2>3 DEF DeviceFails
  <2> QED
    BY <2>2, <2>3
<1> DEFINE h == [Head(device) EXCEPT !.n = n, !.err = err]
<1>4. Head(device) \in Handlers /\ Head(device).what = "continue" /\ TrueOf(Head(device), reads)
  BY <1>2 DEF Asked
<1>5. /\ h \in Handlers /\ h.what = "continue" /\ h.dst = Head(device).dst
      /\ h.kind = Head(device).kind
  BY <1>4 DEF Handlers
<1>6. ready' = Append(ready, h) /\ device' = Tail(device)
  BY <1>3 DEF Answer
<1> HIDE DEF h
<1>7. h \in Told(reads)
  BY <1>4, <1>5 DEF Told, TrueOf
<1>8. ready' \in Seq(Told(reads)) /\ device' \in Seq(Asked(reads))
  BY <1>2, <1>6, <1>7, AppendType DEF Full, FullInv
<1>9. UNCHANGED <<readId_, requestedSize_, dst_, reads>>
  BY <1>1 DEF request
<1>10. pc'[Worker] = "end" /\ ReadOn' => processed_' >= requestedSize_
  BY <1>1, <1>9, OthersReadOn
<1> QED
  BY <1>1, <1>8, <1>9, <1>10, SameFull DEF Full

LEMMA OthersFull == ASSUME NoWrap, Full, Others
                    PROVE  FullInv'
<1>1. ASSUME UNCHANGED <<request, processed_, timer_, ready, device>>,
             \A t \in Threads : pc'[t] = "finish" => pc[t] = "finish"
      PROVE  FullInv'
  <2>1. UNCHANGED <<readId_, requestedSize_, dst_, reads>>
    BY <1>1 DEF request
  <2>2. pc'[Worker] = "end" /\ ReadOn' => processed_' >= requestedSize_
    BY <1>1, <2>1, OthersReadOn
  <2> QED
    BY <1>1, <2>1, <2>2, SameFull DEF Full, FullInv
<1>2. ASSUME NEW t \in Threads, Refused(t)
      PROVE  FullInv'
  <2>1. UNCHANGED <<request, processed_, timer_, ready, device>>
    BY <1>2 DEF Refused
  <2>2. \E s \in {"loop", "idle"} : Goto(t, s)
    BY <1>2 DEF Refused
  <2>3. \A u \in Threads : pc'[u] = "finish" => pc[u] = "finish"
    BY <2>2 DEF Goto, Full, Counting, Assumed, TypeInv, ControlTypes
  <2> QED
    BY <1>1, <2>1, <2>3
<1>3. ASSUME NEW c \in Callers, SyncSteps(c) \/ SpuriousWake(c) \/ Flush(c)
      PROVE  FullInv'
  <2>1. UNCHANGED <<request, processed_, timer_, ready, device>>
    BY <1>3 DEF SyncSteps, ResetNotified, CheckNotified, Block, Wake, SpuriousWake, Flush
  <2>2. pc' = pc \/ \E s \in {"check", "idle", "block", "asleep"} : Goto(c, s)
    BY <1>3 DEF SyncSteps, ResetNotified, CheckNotified, Block, Wake, SpuriousWake, Flush
  <2>3. \A u \in Threads : pc'[u] = "finish" => pc[u] = "finish"
    BY <2>2 DEF Goto, Full, Counting, Assumed, TypeInv, ControlTypes, Threads
  <2> QED
    BY <1>1, <2>1, <2>3
<1>4. CASE TimerExpires
  <2>1. /\ ready' = ready \o timer_ /\ timer_' = <<>>
        /\ UNCHANGED <<readId_, requestedSize_, dst_, reads, processed_, device, pc>>
    BY <1>4 DEF TimerExpires, request
  <2>2. ready' \in Seq(Told(reads)) /\ device' \in Seq(Asked(reads))
    BY <2>1, ConcatType DEF Full, FullInv
  <2>3. pc'[Worker] = "end" /\ ReadOn' => processed_' >= requestedSize_
    BY <2>1, OthersReadOn
  <2> QED
    BY <2>1, <2>2, <2>3, SameFull DEF Full
<1> QED
  BY <1>2, <1>3, <1>4, NewReadFull, IssueFull, FinishInlineFull, DeviceFull, Zenon
  DEF Others, StartSteps, Environment

LEMMA ContinueFull == ASSUME Full, Continue
                      PROVE  FullInv'
<1>1. /\ ready # <<>> /\ UNCHANGED <<request, timer_>> /\ InHandler /\ pc[Worker] = "continue"
      /\ UNCHANGED <<readId_, requestedSize_, dst_, reads>>
  BY ContinueCases DEF Full, Counting, Assumed, Continue, InHandler, request
<1>2. Head(ready).id = readId_ /\ Busy /\ Head(ready).what = "continue"
  BY <1>1 DEF Full, Counting, LateInv, Current, UnderWayInv, AtHead
<1>3. Head(ready).dst = dst_
  <2>1. Head(ready) \in Known(Len(reads))
    BY <1>1, QueueType DEF Full, Counting, LateInv, AllKnown
  <2> QED
    BY <1>2, <2>1 DEF Known, Busy, Full, Counting, Assumed, OutcomeInv, Numbered
<1>4. /\ Head(ready) \in Told(reads) /\ Tail(ready) \in Seq(Told(reads))
      /\ device \in Seq(Asked(reads)) /\ ready \in Seq(Told(reads))
  BY <1>1, QueueType DEF Full, FullInv
<1>5. Head(ready).kind = reads[dst_].kind
  BY <1>2, <1>3, <1>4 DEF Told, TrueOf
<1>6. \A s : Goto(Worker, s) => pc'[Worker] = s
  BY WorkerState DEF Goto, Full, Counting, Assumed, TypeInv, ControlTypes
<1>7. \A t \in Threads : pc'[t] = "finish" => pc[t] = "finish"
  <2>1. \E s \in {"end", "loop"} : Goto(Worker, s)
    BY ContinueCases DEF Full, Counting, Assumed
  <2> QED
    BY <2>1 DEF Goto, Full, Counting, Assumed, TypeInv, ControlTypes
<1>8. CASE Goto(Worker, "end") /\ UNCHANGED <<ready, device>>
  <2>1. ASSUME ReadOn' PROVE processed_' >= requestedSize_
    <3>1. Head(ready).kind = "all" /\ ~Head(ready).err
      BY <1>1, <1>5, <1>8, <2>1 DEF ReadOn
    <3>2. processed_' = processed_ + Head(ready).n
          /\ (Head(ready).err \/ processed_ + Head(ready).n >= requestedSize_ \/ Goto(Worker, "loop"))
      BY <3>1 DEF Continue, ContinueSome, ContinueAll, ContinueUntil, GoOn
    <3>3. ~Goto(Worker, "loop")
      BY <1>6, <1>8
    <3> QED
      BY <3>1, <3>2, <3>3
  <2> QED
    BY <1>1, <1>4, <1>7, <1>8, <2>1, SameFull DEF Full
<1>9. ASSUME NEW count \in Nat, Head(ready).kind \in Kinds, Goto(Worker, "loop"),
             DoReadSome(count, Continuation(Head(ready).id, Head(ready).kind), Tail(ready),
                        readBuffer_)
      PROVE  FullInv'
  <2>1. \A n \in Nat : [Continuation(Head(ready).id, Head(ready).kind) EXCEPT !.n = n]
                          \in Asked(reads)
    BY <1>2, <1>5, ContinuationAsked DEF Full, Counting
  <2>2. readBuffer_ \in Nat
    BY DEF Full, Counting, Assumed, TypeInv, QueueTypes
  <2>3. ready' \in Seq(Told(reads)) /\ device' \in Seq(Asked(reads))
    BY <1>4, <1>9, <2>1, <2>2, DoReadSomeTold
  <2>4. pc'[Worker] # "end"
    BY <1>6, <1>9
  <2> QED
    BY <1>1, <1>7, <2>3, <2>4, SameFull DEF Full
<1> QED
  BY <1>8, <1>9, ContinueCases DEF Full, Counting, Assumed

LEMMA WorkerFull == ASSUME Full, WorkerSteps
                    PROVE  FullInv'
<1>1. \A s : Goto(Worker, s) => pc'[Worker] = s
  BY WorkerState DEF Goto, Full, Counting, Assumed, TypeInv, ControlTypes
<1>2. ASSUME NEW s \in {"continue", "timeout", "end", "callback", "loop"}, Goto(Worker, s)
      PROVE  \A t \in Threads : pc'[t] = "finish" => pc[t] = "finish"
  BY <1>2 DEF Goto, Full, Counting, Assumed, TypeInv, ControlTypes
<1>3. ready \in Seq(Told(reads)) /\ device \in Seq(Asked(reads))
  BY DEF Full, FullInv
<1>4. CASE EnterHandler \/ LeaveCallback
  <2>1. UNCHANGED <<readId_, requestedSize_, dst_, reads, timer_, ready, device>>
    BY <1>4 DEF EnterHandler, LeaveCallback, request
  <2>2. PICK s \in {"continue", "timeout", "loop"} : Goto(Worker, s)
    BY <1>4 DEF EnterHandler, LeaveCallback
  <2> QED
    BY <1>1, <1>2, <1>3, <2>1, <2>2, SameFull DEF Full
<1>5. CASE TimeoutNotifies
  <2>1. /\ UNCHANGED <<readId_, requestedSize_, dst_, reads, timer_, ready, device>>
        /\ Goto(Worker, "end") /\ pc[Worker] = "timeout"
    BY <1>5 DEF TimeoutNotifies, request
  <2>2. Head(ready).what = "timeout"
    BY <2>1 DEF Full, Counting, UnderWayInv, AtHead
  <2>3. ~ReadOn'
    BY <2>1, <2>2 DEF ReadOn
  <2> QED
    BY <1>2, <1>3, <2>1, <2>3, SameFull DEF Full
<1>6. CASE DropHandler \/ ReadCallback \/ EnterCallback
  <2>1. /\ UNCHANGED <<readId_, requestedSize_, dst_, reads, timer_, device>>
        /\ ready # <<>> /\ ready' = Tail(ready) /\ pc[Worker] = "loop"
        /\ pc' = pc \/ Goto(Worker, "callback")
    BY <1>6 DEF DropHandler, ReadCallback, EnterCallback, request
  <2>2. ready' \in Seq(Told(reads))
    BY <1>3, <2>1, QueueType
  <2>3. pc'[Worker] # "end"
    BY <1>1, <2>1
  <2>4. \A t \in Threads : pc'[t] = "finish" => pc[t] = "finish"
    BY <1>2, <2>1
  <2> QED
    BY <1>3, <2>1, <2>2, <2>3, <2>4, SameFull DEF Full
<1> QED
  BY <1>4, <1>5, <1>6, FinishHandlerFull, ContinueFull DEF WorkerSteps

LEMMA StepFull == NoWrap /\ Full /\ [Next]_vars => FullInv'
<1> SUFFICES ASSUME NoWrap, Full, [Next]_vars PROVE FullInv'
  OBVIOUS
<1>1. CASE UNCHANGED vars
  <2>1. UNCHANGED <<readId_, requestedSize_, dst_, reads, processed_, timer_, ready, device, pc>>
    BY <1>1 DEF vars, request
  <2> QED
    BY <2>1 DEF Full, FullInv, Busy, ReadOn, Threads
<1>2. Next => Others \/ WorkerSteps
  BY Zenon DEF Next, Others
<1> QED
  BY <1>1, <1>2, OthersFull, WorkerFull

(* A full read that has no timeout and reports no error was given the count it *)
(* asked for, whatever reads follow it before its callback is executed.       *)
THEOREM FullReadsCountAll == ASSUME NoWrap, ~SlowCaller PROVE Spec => []FullCount
<1>1. Init => FullInv
  <2> SUFFICES ASSUME Init PROVE FullInv
    OBVIOUS
  <2>1. ready = <<>> /\ device = <<>> /\ timer_ = <<>> /\ ~Busy
    BY DEF Init, Busy
  <2>2. \A t \in Threads : pc[t] \notin {"finish", "end"}
    BY DEF Init
  <2> QED
    BY <2>1, <2>2, WorkerState DEF FullInv
<1>2. Full /\ [Next]_vars => FullInv'
  BY StepFull
<1>3. FullInv => FullCount
  <2> SUFFICES ASSUME FullInv, NEW i \in 1..Len(ready), ready[i].what = "callback",
                      ~ready[i].err, reads[ready[i].dst].kind = "all",
                      ~reads[ready[i].dst].timed
               PROVE  ready[i].n = reads[ready[i].dst].size
    BY DEF FullCount
  <2>1. ready[i] \in Told(reads)
    BY LenType DEF FullInv
  <2> QED
    BY <2>1 DEF Told, TrueOf
<1>4. /\ Counting <=> Assumed /\ LateInv /\ UnderWayInv
      /\ Full <=> Counting /\ FitInv /\ FullInv
  BY DEF Counting, Full
<1> QED
  BY <1>1, <1>2, <1>3, <1>4, LateInvariance, UnderWayInvariance, FitInvariance, PTL DEF Spec

=============================================================================
