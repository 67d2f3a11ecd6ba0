------------------------- MODULE StreamReaderProofs -------------------------
(***************************************************************************)
(* Proofs about StreamReader, for any set of threads, any mix of reads and  *)
(* any behaviour of the device and of the timers.                           *)
(***************************************************************************)
EXTENDS StreamReader, Integers, TLAPS

(* The counter does not wrap: with the 32 bits of the build, up to 2^32 - 1  *)
(* reads.                                                                    *)
NoWrap == MaxReads < Modulus

(* Accepted reads are numbered: the id of a read, and its buffer, are its     *)
(* place in the order of acceptance.                                         *)
Numbered ==
    /\ reads \in Seq(Reads)
    /\ posted \in Seq(Nat)
    /\ Len(reads) <= MaxReads
    /\ readCounter_ = Len(reads)
    /\ readId_ \in {0, Len(reads)}
    /\ dst_ = Len(reads)

OutcomeInv == Numbered /\ OneOutcome

-----------------------------------------------------------------------------
(* Short of wrapping, the counter counts. *)
LEMMA NextIdCounts == ASSUME NEW n \in Nat, n < MaxReads, NoWrap
                      PROVE  (n + 1) % Modulus = n + 1
  BY ReaderAssumption DEF NoWrap

(* new_read accepts a read only when every earlier one has its callback       *)
(* posted, and numbers it next.                                              *)
LEMMA NewReadOutcome == ASSUME NoWrap, OutcomeInv, NEW t \in Threads, NewRead(t)
                        PROVE  OutcomeInv'
<1> USE ReaderAssumption
<1>1. PICK kind \in Kinds, size \in Sizes, timed \in Timeouts, sync \in BOOLEAN :
         reads' = Append(reads, [kind |-> kind, size |-> size, timed |-> timed, sync |-> sync])
  BY DEF NewRead
<1>2. [kind |-> kind, size |-> size, timed |-> timed, sync |-> sync] \in Reads
  BY DEF Reads
<1>3. reads' \in Seq(Reads) /\ Len(reads') = Len(reads) + 1
  BY <1>1, <1>2 DEF OutcomeInv, Numbered
<1>4. /\ ~Busy
      /\ Len(reads) < MaxReads
      /\ readCounter_' = (readCounter_ + 1) % Modulus
      /\ readId_' = readCounter_'
      /\ dst_' = Len(reads) + 1
      /\ posted' = posted
  BY DEF NewRead, NextId
<1>5. readCounter_' = Len(reads) + 1
  BY <1>4, NextIdCounts DEF OutcomeInv, Numbered
<1>6. Numbered'
  BY <1>3, <1>4, <1>5 DEF OutcomeInv, Numbered
<1>7. OneOutcome'
  BY <1>3, <1>4, <1>5 DEF OutcomeInv, Numbered, OneOutcome, Busy
<1> QED
  BY <1>6, <1>7 DEF OutcomeInv

(* finish_read posts the callback of the only read that lacks one, or         *)
(* nothing.                                                                  *)
LEMMA FinishReadOutcome ==
    ASSUME OutcomeInv, NEW err, NEW queue, FinishRead(err, queue),
           UNCHANGED <<readCounter_, dst_, reads>>
    PROVE  OutcomeInv'
<1>1. CASE ~Busy
  BY <1>1 DEF FinishRead, OutcomeInv, Numbered, OneOutcome, Busy
<1>2. CASE Busy
  <2>1. readId_' = 0 /\ posted' = Append(posted, dst_)
    BY <1>2 DEF FinishRead
  <2>2. Len(reads) = Len(posted) + 1 /\ dst_ = Len(posted) + 1
    BY <1>2 DEF OutcomeInv, Numbered, OneOutcome
  <2>3. posted' \in Seq(Nat) /\ Len(posted') = Len(posted) + 1
    BY <2>1, <2>2 DEF OutcomeInv, Numbered
  <2>4. \A i \in 1..Len(posted') : posted'[i] = i
    BY <2>1, <2>2, <2>3 DEF OutcomeInv, Numbered, OneOutcome
  <2> QED
    BY <2>1, <2>2, <2>3, <2>4 DEF OutcomeInv, Numbered, OneOutcome, Busy
<1> QED
  BY <1>1, <1>2

(* The other steps touch neither the identity of a read nor its outcome. *)
LEMMA SameOutcome == ASSUME OutcomeInv, UNCHANGED <<request, posted>>
                     PROVE  OutcomeInv'
  BY DEF request, OutcomeInv, Numbered, OneOutcome, Busy

(* Every step keeps the reads numbered and their outcomes unique. *)
LEMMA StepOutcome == NoWrap /\ OutcomeInv /\ [Next]_vars => OutcomeInv'
<1> SUFFICES ASSUME NoWrap, OutcomeInv, [Next]_vars PROVE OutcomeInv'
  OBVIOUS
<1>1. ASSUME NEW t \in Threads, NewRead(t) PROVE OutcomeInv'
  BY <1>1, NewReadOutcome
<1>2. ASSUME NEW t \in Threads, FinishInline(t) PROVE OutcomeInv'
  BY <1>2, FinishReadOutcome DEF FinishInline
<1>3. CASE FinishHandler
  BY <1>3, FinishReadOutcome DEF FinishHandler
<1>4. ASSUME NEW t \in Threads, Refused(t) \/ Issue(t) PROVE OutcomeInv'
  BY <1>4, SameOutcome DEF Refused, Issue
<1>5. ASSUME NEW c \in Callers, SyncSteps(c) \/ SpuriousWake(c) \/ Flush(c)
      PROVE  OutcomeInv'
  BY <1>5, SameOutcome DEF SyncSteps, ResetNotified, CheckNotified, Block, Wake,
                           SpuriousWake, Flush
<1>6. CASE DropHandler \/ EnterHandler \/ TimeoutNotifies \/ Continue
  BY <1>6, SameOutcome DEF DropHandler, EnterHandler, TimeoutNotifies, Continue
<1>7. CASE ReadCallback \/ EnterCallback \/ LeaveCallback
  BY <1>7, SameOutcome DEF ReadCallback, EnterCallback, LeaveCallback
<1>8. CASE Environment
  BY <1>8, SameOutcome DEF Environment, TimerExpires, DeviceDelivers, DeviceFails, Answer
<1>9. CASE UNCHANGED vars
  BY <1>9, SameOutcome DEF vars
<1> QED
  BY <1>1, <1>2, <1>3, <1>4, <1>5, <1>6, <1>7, <1>8, <1>9, Zenon
  DEF Next, StartSteps, WorkerSteps

(* Until readCounter_ wraps, the callbacks of the accepted reads are posted   *)
(* in the order of acceptance, each exactly once, whatever the threads, the   *)
(* device and the timers do: new_read and finish_read see to it by themselves.*)
THEOREM EachReadOnce == ASSUME NoWrap PROVE Spec => []OneOutcome
<1>1. Init => OutcomeInv
  BY ReaderAssumption DEF Init, OutcomeInv, Numbered, OneOutcome, Busy
<1>2. OutcomeInv /\ [Next]_vars => OutcomeInv'
  BY StepOutcome
<1>3. OutcomeInv => OneOutcome
  BY DEF OutcomeInv
<1> QED
  BY <1>1, <1>2, <1>3, PTL DEF Spec

-----------------------------------------------------------------------------
(* Type correctness.  TypeInv is TypeOK, in parts, and the fact that a thread  *)
(* that starts a read knows which one; it needs Handling.                     *)

RequestTypes ==
    /\ readCounter_ \in 0..(Modulus - 1)
    /\ readId_ \in 0..(Modulus - 1)
    /\ requestedSize_ \in Nat
    /\ dst_ \in Nat
    /\ mine \in [Threads -> Nat]
    /\ reads \in Seq(Reads)
    /\ posted \in Seq(Nat)

QueueTypes ==
    /\ processed_ \in Nat
    /\ readBuffer_ \in Nat
    /\ timer_ \in Seq(Handlers)
    /\ ready \in Seq(Handlers)
    /\ device \in Seq(Handlers)

ControlTypes ==
    /\ mutex_ \in Callers \cup {NoOwner}
    /\ waiterNotified_ \in BOOLEAN
    /\ waiting \subseteq Callers
    /\ pc \in [Threads -> CallerStates \cup WorkerStates]

Starting(t) == pc[t] \in {"issue", "finish"}

Issuing == \A t \in Threads : Starting(t) => mine[t] \in 1..Len(reads)

(* A handler stays at the head of the queue while it is executed. *)
Handling == InHandler => ready # <<>>

TypeInv == RequestTypes /\ QueueTypes /\ ControlTypes /\ Issuing

(* The sequence operations used on queues keep the type of their elements. *)
LEMMA AppendType == ASSUME NEW S, NEW s \in Seq(S), NEW e \in S
                    PROVE  Append(s, e) \in Seq(S)
  OBVIOUS

LEMMA ConcatType == ASSUME NEW S, NEW s \in Seq(S), NEW t \in Seq(S)
                    PROVE  s \o t \in Seq(S) /\ Len(s \o t) = Len(s) + Len(t)
  OBVIOUS

LEMMA QueueType == ASSUME NEW S, NEW s \in Seq(S), s # <<>>
                   PROVE  Head(s) \in S /\ Tail(s) \in Seq(S)
  OBVIOUS

LEMMA LenType == ASSUME NEW S, NEW s \in Seq(S)
                 PROVE  Len(s) \in Nat /\ \A i \in 1..Len(s) : s[i] \in S
  OBVIOUS

(* do_read_some gives its handler, with a number of bytes, to the service or   *)
(* to the device, and leaves no more bytes in readBuffer_ than there are.      *)
LEMMA DoReadSomeQueues ==
    ASSUME NEW S, NEW count \in Nat, NEW handler, NEW queue \in Seq(S), device \in Seq(S),
           NEW held \in Nat, DoReadSome(count, handler, queue, held),
           \A n \in Nat : [handler EXCEPT !.n = n] \in S
    PROVE  /\ ready' \in Seq(S) /\ device' \in Seq(S) /\ readBuffer_' \in Nat
           /\ ready' = queue \/ \E e \in S : ready' = Append(queue, e)
<1>1. CASE held > 0
  <2> DEFINE n == IF held < count THEN held ELSE count
  <2>1. /\ ready' = Append(queue, [handler EXCEPT !.n = n])
        /\ readBuffer_' = IF held > count THEN held - count - 1 ELSE 0
        /\ UNCHANGED device
    BY <1>1 DEF DoReadSome
  <2>2. n \in Nat
    OBVIOUS
  <2>3. readBuffer_' \in Nat
    BY <2>1
  <2> HIDE DEF n
  <2>4. [handler EXCEPT !.n = n] \in S
    BY <2>2
  <2> QED
    BY <2>1, <2>3, <2>4, AppendType, Zenon
<1>2. CASE held = 0
  <2>1. /\ device' = Append(device, [handler EXCEPT !.n = count])
        /\ readBuffer_' = 0
        /\ ready' = queue
    BY <1>2 DEF DoReadSome
  <2>2. readBuffer_' \in Nat /\ [handler EXCEPT !.n = count] \in S
    BY <2>1
  <2> QED
    BY <2>1, <2>2, AppendType, Zenon
<1> QED
  BY <1>1, <1>2

LEMMA ContinuationType ==
    ASSUME dst_ \in Nat, NEW id \in Nat, NEW kind \in Kinds, NEW n \in Nat
    PROVE  [Continuation(id, kind) EXCEPT !.n = n] \in Handlers
  BY DEF Continuation, Handlers

(* What a step leaves alone keeps its types. *)
LEMMA SameRequest == ASSUME RequestTypes, UNCHANGED <<request, posted>>
                     PROVE  RequestTypes'
  BY DEF RequestTypes, request

LEMMA SameControl == ASSUME ControlTypes, UNCHANGED <<waiter, pc>> PROVE ControlTypes'
  BY DEF ControlTypes, waiter

LEMMA SameIssuing ==
    ASSUME Issuing, UNCHANGED <<mine, reads>>,
           \A t \in Threads : Starting(t)' => Starting(t)
    PROVE  Issuing'
  BY DEF Issuing, Threads

LEMMA WorkerState == Worker \in Threads /\ \A s \in WorkerStates : s \in CallerStates \cup WorkerStates
  BY DEF Threads

(* A thread that goes on, to a state in which it does not start a read. *)
LEMMA MovedControl ==
    ASSUME ControlTypes, UNCHANGED waiter, NEW t \in Threads,
           NEW s \in CallerStates \cup WorkerStates, Goto(t, s)
    PROVE  /\ ControlTypes'
           /\ s \notin {"issue", "finish"} => \A u \in Threads : Starting(u)' => Starting(u)
  BY DEF ControlTypes, waiter, Goto, Starting

(* The start of a read. *)
LEMMA NewReadTypes == ASSUME TypeInv, NEW t \in Threads, NewRead(t)
                      PROVE  TypeInv'
<1> USE ReaderAssumption
<1>1. PICK kind \in Kinds, size \in Sizes, timed \in Timeouts, sync \in BOOLEAN :
         /\ MayCall(t, sync)
         /\ requestedSize_' = size
         /\ reads' = Append(reads, [kind |-> kind, size |-> size, timed |-> timed,
                                    sync |-> sync])
         /\ IF timed THEN Arm(NextId, Len(reads) + 1) ELSE UNCHANGED <<ready, timer_>>
         /\ mutex_' = IF sync THEN t ELSE mutex_
  BY Zenon DEF NewRead
<1>2. /\ readCounter_' = NextId
      /\ readId_' = NextId
      /\ processed_' = 0
      /\ dst_' = Len(reads) + 1
      /\ mine' = [mine EXCEPT ![t] = Len(reads) + 1]
      /\ Goto(t, "issue")
      /\ UNCHANGED <<waiterNotified_, waiting, readBuffer_, device, posted>>
  BY Zenon DEF NewRead
<1>3. NextId \in 0..(Modulus - 1) /\ NextId \in Nat
  BY DEF NextId, TypeInv, RequestTypes
<1>4. Len(reads) + 1 \in Nat /\ Len(reads) \in Nat
  BY DEF TypeInv, RequestTypes
<1>5. reads' \in Seq(Reads) /\ Len(reads') = Len(reads) + 1
  <2>1. [kind |-> kind, size |-> size, timed |-> timed, sync |-> sync] \in Reads
    BY DEF Reads
  <2> QED
    BY <1>1, <2>1 DEF TypeInv, RequestTypes
<1>6. ready' \in Seq(Handlers) /\ timer_' \in Seq(Handlers)
  <2>1. TimeoutReached(NextId, Len(reads) + 1) \in Handlers
    BY <1>3, <1>4 DEF TimeoutReached, Handlers
  <2>2. <<TimeoutReached(NextId, Len(reads) + 1)>> \in Seq(Handlers)
    BY <2>1
  <2>3. ready \o timer_ \in Seq(Handlers)
    BY ConcatType DEF TypeInv, QueueTypes
  <2>4. CASE timed
    BY <1>1, <2>2, <2>3, <2>4 DEF Arm
  <2>5. CASE ~timed
    BY <1>1, <2>5 DEF TypeInv, QueueTypes
  <2> QED
    BY <2>4, <2>5
<1>7. QueueTypes'
  BY <1>2, <1>6 DEF TypeInv, QueueTypes
<1>8. RequestTypes'
  BY <1>1, <1>2, <1>3, <1>4, <1>5 DEF TypeInv, RequestTypes
<1>9. ControlTypes'
  BY <1>1, <1>2 DEF TypeInv, ControlTypes, Goto, MayCall, CallerStates
<1>10. Issuing'
  <2> SUFFICES ASSUME NEW u \in Threads, Starting(u)'
               PROVE  mine'[u] \in 1..Len(reads')
    BY DEF Issuing
  <2>1. CASE u = t
    BY <1>2, <1>4, <1>5, <2>1 DEF TypeInv, RequestTypes
  <2>2. CASE u # t
    <3>1. Starting(u) /\ mine'[u] = mine[u]
      BY <1>2, <2>2 DEF Goto, TypeInv, ControlTypes, RequestTypes, Starting
    <3>2. mine[u] \in 1..Len(reads)
      BY <3>1 DEF TypeInv, Issuing
    <3> QED
      BY <1>4, <1>5, <3>1, <3>2
  <2> QED
    BY <2>1, <2>2
<1> QED
  BY <1>7, <1>8, <1>9, <1>10 DEF TypeInv

(* What a thread asks for when it issues its read; when it took a read_until   *)
(* whole out of readBuffer_, it only goes on to finish it.                    *)
LEMMA IssueCases ==
    ASSUME TypeInv, NEW t \in Threads, Issue(t)
    PROVE  /\ Starting(t) /\ UNCHANGED <<request, timer_, waiter, posted>>
           /\ reads[mine[t]].kind \in Kinds
           /\ Started(t) \in (CallerStates \cup WorkerStates) \ {"issue", "finish"}
           /\ processed_' \in Nat
           /\ \/ /\ Goto(t, "finish") /\ UNCHANGED <<ready, device>>
                 /\ readBuffer_' \in Nat
              \/ \E held \in Nat :
                    /\ DoReadSome(requestedSize_, Continuation(readId_, reads[mine[t]].kind),
                                  ready, held)
                    /\ Goto(t, Started(t))
<1>1. pc[t] = "issue" /\ UNCHANGED <<request, timer_, waiter, posted>>
  BY DEF Issue
<1>2. reads[mine[t]].kind \in Kinds
  <2>1. mine[t] \in 1..Len(reads) /\ reads \in Seq(Reads)
    BY <1>1 DEF TypeInv, Issuing, RequestTypes, Starting
  <2>2. reads[mine[t]] \in Reads
    BY <2>1, LenType
  <2> QED
    BY <2>2 DEF Reads
<1>3. Started(t) \in (CallerStates \cup WorkerStates) \ {"issue", "finish"}
  BY DEF Started, CallerStates, WorkerStates
<1>4. processed_ \in Nat /\ readBuffer_ \in Nat
  BY DEF TypeInv, QueueTypes
<1> DEFINE handler == Continuation(readId_, reads[mine[t]].kind)
<1>5. \/ /\ DoReadSome(requestedSize_, handler, ready, readBuffer_)
         /\ Goto(t, Started(t))
         /\ UNCHANGED processed_
      \/ /\ \E i \in 1..readBuffer_ : processed_' = processed_ + i /\ readBuffer_' = readBuffer_ - i
         /\ Goto(t, "finish")
         /\ UNCHANGED <<ready, device>>
      \/ /\ processed_' = processed_ + readBuffer_
         /\ DoReadSome(requestedSize_, handler, ready, 0)
         /\ Goto(t, Started(t))
  BY Zenon DEF Issue
<1> HIDE DEF handler
<1>6. CASE /\ DoReadSome(requestedSize_, handler, ready, readBuffer_)
           /\ Goto(t, Started(t))
           /\ UNCHANGED processed_
  BY <1>1, <1>2, <1>3, <1>4, <1>6 DEF handler, Starting
<1>7. CASE /\ \E i \in 1..readBuffer_ : processed_' = processed_ + i /\ readBuffer_' = readBuffer_ - i
           /\ Goto(t, "finish")
           /\ UNCHANGED <<ready, device>>
  BY <1>1, <1>2, <1>3, <1>4, <1>7 DEF Starting
<1>8. CASE /\ processed_' = processed_ + readBuffer_
           /\ DoReadSome(requestedSize_, handler, ready, 0)
           /\ Goto(t, Started(t))
  <2>1. processed_' \in Nat /\ 0 \in Nat
    BY <1>4, <1>8
  <2> QED
    BY <1>1, <1>2, <1>3, <1>8, <2>1 DEF handler, Starting
<1> QED
  BY <1>5, <1>6, <1>7, <1>8

LEMMA IssueTypes == ASSUME TypeInv, NEW t \in Threads, Issue(t)
                    PROVE  TypeInv'
<1>1. /\ Starting(t) /\ UNCHANGED <<request, timer_, waiter, posted>>
      /\ reads[mine[t]].kind \in Kinds
      /\ Started(t) \in (CallerStates \cup WorkerStates) \ {"issue", "finish"}
      /\ processed_' \in Nat
  BY IssueCases
<1>2. /\ requestedSize_ \in Nat /\ readId_ \in Nat /\ dst_ \in Nat
      /\ ready \in Seq(Handlers) /\ device \in Seq(Handlers)
  BY ReaderAssumption DEF TypeInv, RequestTypes, QueueTypes
<1>3. CASE Goto(t, "finish") /\ UNCHANGED <<ready, device>> /\ readBuffer_' \in Nat
  <2>1. QueueTypes'
    BY <1>1, <1>3 DEF TypeInv, QueueTypes
  <2>2. ControlTypes' /\ \A u \in Threads : Starting(u)' => Starting(u)
    BY <1>1, <1>3 DEF TypeInv, ControlTypes, waiter, Goto, Starting, CallerStates
  <2> QED
    BY <1>1, <2>1, <2>2, SameRequest, SameIssuing DEF TypeInv, request
<1>4. ASSUME NEW held \in Nat,
             DoReadSome(requestedSize_, Continuation(readId_, reads[mine[t]].kind), ready, held),
             Goto(t, Started(t))
      PROVE  TypeInv'
  <2>1. \A n \in Nat : [Continuation(readId_, reads[mine[t]].kind) EXCEPT !.n = n] \in Handlers
    BY <1>1, <1>2, ContinuationType
  <2>2. ready' \in Seq(Handlers) /\ device' \in Seq(Handlers) /\ readBuffer_' \in Nat
    BY <1>2, <1>4, <2>1, DoReadSomeQueues, Zenon
  <2>3. QueueTypes'
    BY <1>1, <2>2 DEF TypeInv, QueueTypes
  <2>4. ControlTypes' /\ \A u \in Threads : Starting(u)' => Starting(u)
    BY <1>1, <1>4, MovedControl DEF TypeInv
  <2> QED
    BY <1>1, <2>3, <2>4, SameRequest, SameIssuing DEF TypeInv, request
<1> QED
  BY <1>3, <1>4, IssueCases

(* The end of a read. *)
LEMMA FinishReadTypes ==
    ASSUME RequestTypes, QueueTypes, NEW err \in BOOLEAN, NEW queue \in Seq(Handlers),
           FinishRead(err, queue),
           UNCHANGED <<readCounter_, requestedSize_, dst_, reads, mine, processed_, timer_,
                       readBuffer_, device>>
    PROVE  RequestTypes' /\ QueueTypes'
<1>1. CASE ~Busy
  BY <1>1 DEF FinishRead, Busy, RequestTypes, QueueTypes
<1>2. CASE Busy
  <2>1. /\ readId_' = 0
        /\ ready' = Append(queue, UserCallback(err))
        /\ posted' = Append(posted, dst_)
    BY <1>2 DEF FinishRead
  <2>2. UserCallback(err) \in Handlers
    BY DEF UserCallback, Handlers, RequestTypes, QueueTypes
  <2>3. ready' \in Seq(Handlers) /\ posted' \in Seq(Nat)
    BY <2>1, <2>2, AppendType DEF RequestTypes
  <2>4. 0 \in 0..(Modulus - 1)
    BY ReaderAssumption
  <2> QED
    BY <2>1, <2>3, <2>4 DEF RequestTypes, QueueTypes
<1> QED
  BY <1>1, <1>2

LEMMA FinishInlineTypes == ASSUME TypeInv, NEW t \in Threads, FinishInline(t)
                           PROVE  TypeInv'
<1>1. /\ FinishRead(FALSE, ready)
      /\ Goto(t, Started(t))
      /\ UNCHANGED <<readCounter_, requestedSize_, dst_, reads, mine, processed_, timer_,
                     waiter, readBuffer_, device>>
  BY Zenon DEF FinishInline
<1>2. FALSE \in BOOLEAN /\ ready \in Seq(Handlers)
  BY DEF TypeInv, QueueTypes
<1>3. RequestTypes' /\ QueueTypes'
  BY <1>1, <1>2, FinishReadTypes DEF TypeInv
<1>4. Started(t) \in (CallerStates \cup WorkerStates) \ {"issue", "finish"}
  BY DEF Started, CallerStates, WorkerStates
<1> QED
  BY <1>1, <1>3, <1>4, MovedControl, SameIssuing DEF TypeInv

LEMMA FinishHandlerTypes == ASSUME TypeInv, Handling, FinishHandler
                            PROVE  TypeInv'
<1>1. /\ FinishRead(Head(ready).err, Tail(ready))
      /\ Goto(Worker, "loop")
      /\ UNCHANGED <<readCounter_, requestedSize_, dst_, reads, mine, processed_, timer_,
                     waiter, readBuffer_, device>>
  BY Zenon DEF FinishHandler
<1>2. ready # <<>>
  BY DEF FinishHandler, Handling, InHandler
<1>3. Head(ready) \in Handlers /\ Tail(ready) \in Seq(Handlers)
  BY <1>2, QueueType DEF TypeInv, QueueTypes
<1>4. Head(ready).err \in BOOLEAN
  BY <1>3 DEF Handlers
<1>5. RequestTypes' /\ QueueTypes'
  BY <1>1, <1>3, <1>4, FinishReadTypes DEF TypeInv
<1> QED
  BY <1>1, <1>5, MovedControl, WorkerState, SameIssuing DEF TypeInv, WorkerStates

(* A continuation ends the read, or reads on. *)
LEMMA ContinueCases ==
    ASSUME TypeInv, Handling, Continue
    PROVE  /\ ready # <<>> /\ UNCHANGED <<request, timer_, waiter, posted>>
           /\ processed_' \in Nat
           /\ \/ Goto(Worker, "end") /\ UNCHANGED <<ready, device>> /\ readBuffer_' \in Nat
              \/ /\ Head(ready).kind \in Kinds
                 /\ \E count \in Nat :
                       DoReadSome(count, Continuation(Head(ready).id, Head(ready).kind),
                                  Tail(ready), readBuffer_)
                 /\ Goto(Worker, "loop")
<1> DEFINE handler == Head(ready)
           total   == processed_ + handler.n
<1>1. ready # <<>> /\ UNCHANGED <<request, timer_, waiter, posted>>
  BY DEF Continue, Handling, InHandler
<1>2. handler \in Handlers
  BY <1>1, QueueType DEF TypeInv, QueueTypes
<1>3. handler.n \in Nat /\ handler.kind \in Kinds \cup {"none"}
  BY <1>2 DEF Handlers
<1>4. \/ /\ processed_' = handler.n
         /\ Goto(Worker, "end") /\ UNCHANGED <<readBuffer_, ready, device>>
      \/ /\ \E i \in 1..handler.n : /\ processed_' = processed_ + i
                                    /\ readBuffer_' = readBuffer_ + (handler.n - i)
         /\ Goto(Worker, "end") /\ UNCHANGED <<ready, device>>
      \/ handler.kind \in {"all", "until"} /\ GoOn(handler)
  BY DEF Continue, ContinueSome, ContinueAll, ContinueUntil
<1>5. GoOn(handler) =>
         /\ processed_' = total
         /\ \/ Goto(Worker, "end") /\ UNCHANGED <<readBuffer_, ready, device>>
            \/ /\ total < requestedSize_
               /\ DoReadSome(requestedSize_ - total, Continuation(handler.id, handler.kind),
                             Tail(ready), readBuffer_)
               /\ Goto(Worker, "loop")
  BY Zenon DEF GoOn
<1>6. processed_ \in Nat /\ readBuffer_ \in Nat /\ requestedSize_ \in Nat
  BY DEF TypeInv, QueueTypes, RequestTypes
<1> HIDE DEF handler
<1>7. total \in Nat
  BY <1>3, <1>6
<1>8. CASE /\ processed_' = handler.n
           /\ Goto(Worker, "end") /\ UNCHANGED <<readBuffer_, ready, device>>
  BY <1>1, <1>3, <1>6, <1>8
<1>9. CASE /\ \E i \in 1..handler.n : /\ processed_' = processed_ + i
                                      /\ readBuffer_' = readBuffer_ + (handler.n - i)
           /\ Goto(Worker, "end") /\ UNCHANGED <<ready, device>>
  BY <1>1, <1>3, <1>6, <1>9
<1>10. CASE handler.kind \in {"all", "until"} /\ GoOn(handler)
  <2>1. handler.kind \in Kinds
    BY <1>3, <1>10
  <2> HIDE DEF total
  <2>2. total < requestedSize_ => requestedSize_ - total \in Nat
    BY <1>6, <1>7
  <2> QED
    BY <1>1, <1>5, <1>6, <1>7, <1>10, <2>1, <2>2 DEF handler
<1> QED
  BY <1>4, <1>8, <1>9, <1>10

LEMMA ContinueTypes == ASSUME TypeInv, Handling, Continue
                       PROVE  TypeInv'
<1>1. /\ ready # <<>> /\ UNCHANGED <<request, timer_, waiter, posted>>
      /\ processed_' \in Nat
  BY ContinueCases
<1>2. /\ Head(ready) \in Handlers /\ Tail(ready) \in Seq(Handlers)
      /\ device \in Seq(Handlers) /\ readBuffer_ \in Nat /\ dst_ \in Nat
  BY <1>1, QueueType DEF TypeInv, QueueTypes, RequestTypes
<1>3. CASE Goto(Worker, "end") /\ UNCHANGED <<ready, device>> /\ readBuffer_' \in Nat
  <2>1. QueueTypes'
    BY <1>1, <1>3 DEF TypeInv, QueueTypes
  <2> QED
    BY <1>1, <1>3, <2>1, MovedControl, WorkerState, SameRequest, SameIssuing
    DEF TypeInv, request, WorkerStates
<1>4. ASSUME NEW count \in Nat, Head(ready).kind \in Kinds, Goto(Worker, "loop"),
             DoReadSome(count, Continuation(Head(ready).id, Head(ready).kind), Tail(ready),
                        readBuffer_)
      PROVE  TypeInv'
  <2>1. Head(ready).id \in Nat
    BY <1>2 DEF Handlers
  <2>2. \A n \in Nat : [Continuation(Head(ready).id, Head(ready).kind) EXCEPT !.n = n]
                          \in Handlers
    BY <1>2, <1>4, <2>1, ContinuationType
  <2>3. ready' \in Seq(Handlers) /\ device' \in Seq(Handlers) /\ readBuffer_' \in Nat
    BY <1>2, <1>4, <2>2, DoReadSomeQueues, Zenon
  <2>4. QueueTypes'
    BY <1>1, <2>3 DEF TypeInv, QueueTypes
  <2> QED
    BY <1>1, <1>4, <2>4, MovedControl, WorkerState, SameRequest, SameIssuing
    DEF TypeInv, request, WorkerStates
<1> QED
  BY <1>3, <1>4, ContinueCases

(* The other steps of the worker move at most the head of the queue. *)
LEMMA WorkerTypes ==
    ASSUME TypeInv, \/ DropHandler \/ EnterHandler \/ TimeoutNotifies
                    \/ ReadCallback \/ EnterCallback \/ LeaveCallback
    PROVE  TypeInv'
<1> USE DEF DropHandler, EnterHandler, TimeoutNotifies, ReadCallback, EnterCallback,
            LeaveCallback, waiter
<1>1. /\ ready' = ready \/ (ready # <<>> /\ ready' = Tail(ready))
      /\ UNCHANGED <<request, processed_, timer_, mutex_, readBuffer_, device, posted>>
  OBVIOUS
<1>2. waiterNotified_' \in BOOLEAN /\ waiting' \subseteq Callers
  BY DEF TypeInv, ControlTypes
<1>3. pc' = pc \/ \E s \in {"continue", "timeout", "end", "callback", "loop"} : Goto(Worker, s)
  OBVIOUS
<1>4. ready' \in Seq(Handlers)
  BY <1>1, QueueType DEF TypeInv, QueueTypes
<1>5. RequestTypes' /\ QueueTypes'
  BY <1>1, <1>4, SameRequest DEF TypeInv, QueueTypes
<1>6. /\ pc' \in [Threads -> CallerStates \cup WorkerStates]
      /\ \A u \in Threads : Starting(u)' => Starting(u)
  BY <1>3, WorkerState DEF TypeInv, ControlTypes, Goto, WorkerStates, Starting
<1> QED
  BY <1>1, <1>2, <1>5, <1>6, SameIssuing DEF TypeInv, ControlTypes, request

(* The steps of the synchronous calls. *)
LEMMA SyncTypes == ASSUME TypeInv, NEW c \in Callers, SyncSteps(c) \/ SpuriousWake(c)
                   PROVE  TypeInv'
<1> USE DEF SyncSteps, ResetNotified, CheckNotified, Block, Wake, SpuriousWake
<1>1. UNCHANGED <<request, processed_, timer_, readBuffer_, ready, device, posted>>
  OBVIOUS
<1>2. /\ mutex_' \in {mutex_, NoOwner, c}
      /\ waiterNotified_' \in {waiterNotified_, FALSE}
      /\ waiting' \subseteq waiting \cup {c}
  OBVIOUS
<1>3. pc' = pc \/ \E s \in {"check", "idle", "block", "asleep"} : Goto(c, s)
  OBVIOUS
<1>4. /\ pc' \in [Threads -> CallerStates \cup WorkerStates]
      /\ \A u \in Threads : Starting(u)' => Starting(u)
  BY <1>3 DEF TypeInv, ControlTypes, Goto, CallerStates, Threads, Starting
<1>5. ControlTypes'
  BY <1>2, <1>4 DEF TypeInv, ControlTypes
<1>6. QueueTypes'
  BY <1>1 DEF TypeInv, QueueTypes
<1> QED
  BY <1>1, <1>4, <1>5, <1>6, SameRequest, SameIssuing DEF TypeInv, request

LEMMA RefusedTypes == ASSUME TypeInv, NEW t \in Threads, Refused(t)
                      PROVE  TypeInv'
<1>1. UNCHANGED <<request, processed_, timer_, waiter, readBuffer_, ready, device, posted>>
  BY DEF Refused
<1>2. PICK s \in {"loop", "idle"} : Goto(t, s)
  BY DEF Refused
<1>3. QueueTypes'
  BY <1>1 DEF TypeInv, QueueTypes
<1> QED
  BY <1>1, <1>2, <1>3, MovedControl, SameRequest, SameIssuing
  DEF TypeInv, request, CallerStates, WorkerStates

(* flush(), the timers and the device. *)
LEMMA OutsideTypes == ASSUME TypeInv, (\E c \in Callers : Flush(c)) \/ Environment
                      PROVE  TypeInv'
<1>1. UNCHANGED <<request, processed_, waiter, pc, posted>>
  BY DEF Flush, Environment, TimerExpires, DeviceDelivers, DeviceFails, Answer
<1>2. ASSUME device # <<>>, NEW n \in Nat, NEW err \in BOOLEAN,
             Answer([Head(device) EXCEPT !.n = n, !.err = err])
      PROVE  QueueTypes'
  <2>1. Head(device) \in Handlers /\ Tail(device) \in Seq(Handlers)
    BY <1>2, QueueType DEF TypeInv, QueueTypes
  <2>2. [Head(device) EXCEPT !.n = n, !.err = err] \in Handlers
    BY <2>1 DEF Handlers
  <2>3. Append(ready, [Head(device) EXCEPT !.n = n, !.err = err]) \in Seq(Handlers)
    BY <2>2, AppendType, Zenon DEF TypeInv, QueueTypes
  <2> QED
    BY <1>2, <2>1, <2>3 DEF Answer, TypeInv, QueueTypes
<1>3. ASSUME NEW c \in Callers, Flush(c) PROVE QueueTypes'
  BY <1>3 DEF Flush, TypeInv, QueueTypes
<1>4. ASSUME TimerExpires PROVE QueueTypes'
  <2>1. ready \o timer_ \in Seq(Handlers)
    BY ConcatType DEF TypeInv, QueueTypes
  <2> QED
    BY <1>4, <2>1 DEF TimerExpires, TypeInv, QueueTypes
<1>5. ASSUME DeviceDelivers PROVE QueueTypes'
  <2>1. Head(device) \in Handlers
    BY <1>5, QueueType DEF DeviceDelivers, TypeInv, QueueTypes
  <2>2. PICK n \in 0..Head(device).n : Answer([Head(device) EXCEPT !.n = n])
    BY <1>5 DEF DeviceDelivers
  <2>3. n \in Nat /\ Head(device).err \in BOOLEAN
    BY <2>1, <2>2 DEF Handlers
  <2>4. [Head(device) EXCEPT !.n = n] = [Head(device) EXCEPT !.n = n, !.err = Head(device).err]
    BY <2>1 DEF Handlers
  <2> QED
    BY <1>2, <1>5, <2>2, <2>3, <2>4 DEF DeviceDelivers
<1>6. ASSUME DeviceFails PROVE QueueTypes'
  BY <1>2, <1>6 DEF DeviceFails
<1>7. QueueTypes'
  BY <1>3, <1>4, <1>5, <1>6 DEF Environment
<1> QED
  BY <1>1, <1>7, SameRequest, SameControl, SameIssuing DEF TypeInv, request, Starting

-----------------------------------------------------------------------------
(* Between two steps of the worker, handlers join the queue at its end only.   *)

Others ==
    \/ \E t \in Threads : NewRead(t) \/ Refused(t) \/ StartSteps(t)
    \/ \E c \in Callers : SyncSteps(c) \/ SpuriousWake(c) \/ Flush(c)
    \/ Environment

(* A handler that is at the head of the queue stays there. *)
HeadKept == ready # <<>> => ready' # <<>> /\ Head(ready') = Head(ready)

LEMMA HeadStays == ASSUME TypeInv, \/ UNCHANGED ready
                                   \/ \E e : ready' = Append(ready, e)
                                   \/ ready' = ready \o timer_
                   PROVE  HeadKept
<1>1. ready \in Seq(Handlers) /\ timer_ \in Seq(Handlers)
  BY DEF TypeInv, QueueTypes
<1>2. ASSUME NEW S, NEW s \in Seq(S), NEW r \in Seq(S), s # <<>>
      PROVE  s \o r # <<>> /\ Head(s \o r) = Head(s)
  BY <1>2
<1>3. CASE ready' = ready \o timer_
  BY <1>1, <1>2, <1>3, Zenon DEF HeadKept
<1>4. CASE \E e : ready' = Append(ready, e)
  BY <1>1, <1>4 DEF HeadKept
<1> QED
  BY <1>3, <1>4 DEF HeadKept

LEMMA OthersKeepHead == ASSUME TypeInv, Others
                        PROVE  HeadKept
<1>1. ASSUME NEW t \in Threads, NewRead(t) \/ Refused(t)
      PROVE  HeadKept
  BY <1>1, HeadStays DEF NewRead, Refused, Arm
<1>2. ASSUME NEW t \in Threads, Issue(t)
      PROVE  HeadKept
  BY <1>2, HeadStays DEF Issue, DoReadSome
<1>3. ASSUME NEW t \in Threads, FinishInline(t)
      PROVE  HeadKept
  BY <1>3, HeadStays DEF FinishInline, FinishRead
<1>4. ASSUME NEW c \in Callers, SyncSteps(c) \/ SpuriousWake(c) \/ Flush(c)
      PROVE  HeadKept
  BY <1>4, HeadStays
  DEF SyncSteps, ResetNotified, CheckNotified, Block, Wake, SpuriousWake, Flush
<1>5. CASE Environment
  BY <1>5, HeadStays DEF Environment, TimerExpires, DeviceDelivers, DeviceFails, Answer
<1> QED
  BY <1>1, <1>2, <1>3, <1>4, <1>5 DEF Others, StartSteps

(* None of them takes the worker into a handler. *)
LEMMA OthersEnterNone == ASSUME TypeInv, Others
                         PROVE  /\ InHandler' => InHandler
                                /\ InHandler => pc'[Worker] = pc[Worker]
<1>0. pc \in [Threads -> CallerStates \cup WorkerStates] /\ Worker \in Threads /\ Worker \notin Callers
  BY ReaderAssumption DEF TypeInv, ControlTypes, Threads
<1>1. ASSUME NEW t \in Threads,
             NEW s \in {"issue", "finish", "idle", "loop", "reset", "check", "block", "asleep"},
             Goto(t, s), t = Worker => ~InHandler
      PROVE  (InHandler' => InHandler) /\ (InHandler => pc'[Worker] = pc[Worker])
  BY <1>0, <1>1 DEF InHandler, Goto
<1>2. CASE UNCHANGED pc
  BY <1>2 DEF InHandler
<1>3. ASSUME NEW t \in Threads, StartSteps(t)
      PROVE  (InHandler' => InHandler) /\ (InHandler => pc'[Worker] = pc[Worker])
  <2>1. pc[t] \in {"issue", "finish"}
    BY <1>3 DEF StartSteps, Issue, FinishInline
  <2>2. Goto(t, Started(t)) \/ Goto(t, "finish")
    BY <1>3 DEF StartSteps, Issue, FinishInline
  <2>3. Started(t) \in {"idle", "loop", "reset"}
    BY DEF Started
  <2> QED
    BY <1>1, <2>1, <2>2, <2>3 DEF InHandler
<1>4. ASSUME NEW t \in Threads, NewRead(t) \/ Refused(t)
      PROVE  (InHandler' => InHandler) /\ (InHandler => pc'[Worker] = pc[Worker])
  <2>1. t = Worker => pc[t] = "callback"
    BY <1>4 DEF NewRead, Refused, MayCall
  <2>2. PICK s \in {"issue", "idle", "loop"} : Goto(t, s)
    BY <1>4 DEF NewRead, Refused
  <2> QED
    BY <1>1, <2>1, <2>2 DEF InHandler
<1>5. ASSUME NEW c \in Callers, SyncSteps(c) \/ SpuriousWake(c) \/ Flush(c)
      PROVE  (InHandler' => InHandler) /\ (InHandler => pc'[Worker] = pc[Worker])
  <2>1. c \in Threads /\ c # Worker
    BY <1>0 DEF Threads
  <2>2. \/ UNCHANGED pc
        \/ \E s \in {"check", "idle", "block", "asleep"} : Goto(c, s)
    BY <1>5 DEF SyncSteps, ResetNotified, CheckNotified, Block, Wake, SpuriousWake, Flush
  <2> QED
    BY <1>1, <1>2, <2>1, <2>2
<1>6. CASE Environment
  BY <1>2, <1>6 DEF Environment, TimerExpires, DeviceDelivers, DeviceFails, Answer
<1> QED
  BY <1>3, <1>4, <1>5, <1>6 DEF Others

LEMMA StepHandling == ASSUME TypeInv, Handling, [Next]_vars
                      PROVE  Handling'
<1>1. CASE Others
  BY <1>1, OthersKeepHead, OthersEnterNone DEF Handling, HeadKept
<1>2. CASE WorkerSteps
  <2>1. Worker \in Threads /\ pc \in [Threads -> CallerStates \cup WorkerStates]
    BY DEF TypeInv, ControlTypes, Threads
  <2>2. CASE UNCHANGED ready /\ ready # <<>>
    BY <2>2 DEF Handling
  <2>3. CASE pc'[Worker] \in {"loop", "callback"}
    BY <2>3 DEF Handling, InHandler
  <2>4. CASE Continue
    <3>1. \/ UNCHANGED ready /\ ready # <<>>
          \/ Goto(Worker, "loop")
      BY <2>4, ContinueCases
    <3> QED
      BY <2>1, <2>2, <2>3, <3>1 DEF Goto
  <2>5. CASE TimeoutNotifies \/ EnterHandler
    BY <2>2, <2>5 DEF TimeoutNotifies, EnterHandler, Handling, InHandler
  <2>6. CASE DropHandler \/ ReadCallback \/ EnterCallback \/ LeaveCallback \/ FinishHandler
    <3>1. (pc' = pc /\ pc[Worker] = "loop") \/ \E s \in {"loop", "callback"} : Goto(Worker, s)
      BY <2>6 DEF DropHandler, ReadCallback, EnterCallback, LeaveCallback, FinishHandler
    <3> QED
      BY <2>1, <2>3, <3>1 DEF Goto
  <2> QED
    BY <1>2, <2>4, <2>5, <2>6 DEF WorkerSteps
<1>3. CASE UNCHANGED vars
  BY <1>3 DEF vars, Handling, InHandler
<1> QED
  BY <1>1, <1>2, <1>3, Zenon DEF Next, Others

(* Every step keeps the types. *)
LEMMA StepTypes == ASSUME TypeInv, Handling, [Next]_vars
                   PROVE  TypeInv'
<1>1. CASE UNCHANGED vars
  BY <1>1 DEF vars, TypeInv, RequestTypes, QueueTypes, ControlTypes, Issuing, Starting,
              request, waiter
<1> QED
  BY <1>1, NewReadTypes, IssueTypes, FinishInlineTypes, FinishHandlerTypes, ContinueTypes,
     WorkerTypes, SyncTypes, RefusedTypes, OutsideTypes, Zenon
  DEF Next, StartSteps, WorkerSteps

LEMMA InitTypes == Init => TypeInv /\ Handling
<1> SUFFICES ASSUME Init PROVE TypeInv /\ Handling
  OBVIOUS
<1> USE DEF Init
<1>1. QueueTypes
  BY DEF QueueTypes
<1>2. RequestTypes
  BY ReaderAssumption DEF RequestTypes
<1>3. ControlTypes /\ Issuing /\ Handling
  BY ReaderAssumption
  DEF ControlTypes, Issuing, Starting, Handling, InHandler, CallerStates, WorkerStates, Threads
<1> QED
  BY <1>1, <1>2, <1>3 DEF TypeInv

LEMMA TypeInvariance == Spec => [](TypeInv /\ Handling)
<1>1. Init => TypeInv /\ Handling
  BY InitTypes
<1>2. TypeInv /\ Handling /\ [Next]_vars => (TypeInv /\ Handling)'
  BY StepTypes, StepHandling
<1> QED
  BY <1>1, <1>2, PTL DEF Spec

(* Type correctness: ids stay below the width of the counter, only callers     *)
(* lock mutex_, and the bytes counted in readBuffer_ never become negative.   *)
THEOREM ReaderTypes == Spec => []TypeOK
<1>1. TypeInv => TypeOK
  BY DEF TypeInv, RequestTypes, QueueTypes, ControlTypes, TypeOK
<1> QED
  BY <1>1, TypeInvariance, PTL

-----------------------------------------------------------------------------
(* Late handlers.  A handler that is queued, outstanding or armed belongs to   *)
(* one of the first Len(reads) reads, and carries its number; while a thread   *)
(* is starting a read none carries the number of that one.                    *)

Known(n) ==
    {h \in Handlers : IF h.what = "callback" THEN h.id = 0
                      ELSE h.id = h.dst /\ h.id \in 1..n}

AllKnown(n) == ready \in Seq(Known(n)) /\ device \in Seq(Known(n))

StartsLast ==
    \A t \in Threads : Starting(t) =>
        /\ Busy
        /\ AllKnown(Len(reads) - 1)
        /\ \A u \in Threads : Starting(u) => u = t

Current ==
    InHandler => /\ ready # <<>>
                 /\ Busy
                 /\ Head(ready).what # "callback"
                 /\ Head(ready).id = readId_

LateInv ==
    /\ AllKnown(Len(reads))
    /\ timer_ \in Seq(Known(Len(reads)))
    /\ StartsLast
    /\ Current

Assumed == TypeInv /\ Handling /\ OutcomeInv

(* Later reads are known as well. *)
LEMMA KnownGrows == ASSUME NEW n \in Nat
                    PROVE  \A s : s \in Seq(Known(n)) => s \in Seq(Known(n + 1))
<1>1. Known(n) \subseteq Known(n + 1)
  BY DEF Known
<1>2. ASSUME NEW S, NEW T, S \subseteq T, NEW s \in Seq(S)
      PROVE  s \in Seq(T)
  BY <1>2
<1> QED
  BY <1>1, <1>2, Zenon

(* A continuation carries the number of the current read. *)
LEMMA ContinuationKnown ==
    ASSUME Assumed, Busy, NEW kind \in Kinds
    PROVE  \A n \in Nat : [Continuation(readId_, kind) EXCEPT !.n = n] \in Known(Len(reads))
<1> SUFFICES ASSUME NEW n \in Nat
             PROVE  [Continuation(readId_, kind) EXCEPT !.n = n] \in Known(Len(reads))
  OBVIOUS
<1>1. readId_ = Len(reads) /\ dst_ = Len(reads) /\ Len(reads) \in Nat \ {0}
  BY DEF Busy, Assumed, OutcomeInv, Numbered
<1> DEFINE h == [Continuation(readId_, kind) EXCEPT !.n = n]
<1>2. h.what = "continue" /\ h.id = readId_ /\ h.dst = dst_
  BY DEF Continuation
<1>3. h \in Handlers
  BY <1>1, ContinuationType
<1> HIDE DEF h
<1>4. h \in Known(Len(reads))
  BY <1>1, <1>2, <1>3 DEF Known
<1> QED
  BY <1>4 DEF h

LEMMA CallbackKnown == ASSUME TypeInv, NEW n, NEW err \in BOOLEAN
                       PROVE  UserCallback(err) \in Known(n)
<1>1. UserCallback(err) \in Handlers
  BY DEF UserCallback, Handlers, TypeInv, RequestTypes, QueueTypes
<1>2. UserCallback(err).what = "callback" /\ UserCallback(err).id = 0
  BY DEF UserCallback
<1> QED
  BY <1>1, <1>2 DEF Known

(* While a handler is executed, no thread is starting a read: the read of the   *)
(* handler is the last one, and its handler would not be known.               *)
LEMMA NobodyStarts == ASSUME Assumed, LateInv, InHandler
                      PROVE  \A t \in Threads : ~Starting(t)
<1> SUFFICES ASSUME NEW t \in Threads, Starting(t) PROVE FALSE
  OBVIOUS
<1>1. ready # <<>> /\ Head(ready).what # "callback" /\ Head(ready).id = readId_ /\ Busy
  BY DEF LateInv, Current
<1>2. ready \in Seq(Known(Len(reads) - 1))
  BY DEF LateInv, StartsLast, AllKnown
<1>3. Head(ready) \in Known(Len(reads) - 1)
  BY <1>1, <1>2, QueueType
<1>4. readId_ = Len(reads) /\ Len(reads) \in Nat
  BY <1>1 DEF Assumed, OutcomeInv, Numbered, Busy
<1>5. Head(ready).id \in 1..(Len(reads) - 1)
  BY <1>1, <1>3 DEF Known
<1> QED
  BY <1>1, <1>4, <1>5

(* A new read: every handler there is belongs to an earlier one. *)
LEMMA NewReadLate == ASSUME NoWrap, Assumed, LateInv, NEW t \in Threads, NewRead(t)
                     PROVE  LateInv'
<1>0. PICK n \in Nat : n = Len(reads)
  BY DEF Assumed, OutcomeInv, Numbered
<1>1. /\ ~Busy /\ n < MaxReads /\ readId_' = NextId
      /\ \/ Arm(NextId, n + 1)
         \/ UNCHANGED <<ready, timer_>>
      /\ Goto(t, "issue")
      /\ UNCHANGED device
  BY <1>0 DEF NewRead
<1>2. Len(reads') = n + 1
  <2>1. PICK x : reads' = Append(reads, x)
    BY DEF NewRead
  <2> QED
    BY <1>0, <2>1 DEF Assumed, OutcomeInv, Numbered
<1>3. NextId = n + 1
  BY <1>0, <1>1, NextIdCounts DEF NextId, Assumed, OutcomeInv, Numbered
<1>4. timer_ \in Seq(Known(n)) /\ ready \in Seq(Known(n)) /\ device \in Seq(Known(n))
  BY <1>0 DEF LateInv, AllKnown
<1>5. ready' \in Seq(Known(n)) /\ timer_' \in Seq(Known(n + 1))
  <2>1. CASE Arm(NextId, n + 1)
    <3>1. TimeoutReached(NextId, n + 1) \in Known(n + 1)
      BY <1>3 DEF TimeoutReached, Handlers, Known
    <3>2. <<TimeoutReached(NextId, n + 1)>> \in Seq(Known(n + 1))
      BY <3>1
    <3>3. ready \o timer_ \in Seq(Known(n))
      BY <1>4, ConcatType
    <3> QED
      BY <2>1, <3>2, <3>3 DEF Arm
  <2>2. CASE UNCHANGED <<ready, timer_>>
    BY <1>4, <2>2, KnownGrows
  <2> QED
    BY <1>1, <2>1, <2>2
<1>6. /\ ready' \in Seq(Known(n)) /\ device' \in Seq(Known(n))
      /\ ready' \in Seq(Known(n + 1)) /\ device' \in Seq(Known(n + 1))
  <2>1. device' \in Seq(Known(n))
    BY <1>1, <1>4
  <2> QED
    BY <1>5, <2>1, KnownGrows
<1>7. Busy' /\ Len(reads') - 1 = n
  BY <1>1, <1>2, <1>3 DEF Busy
<1>8. \A u \in Threads : ~Starting(u)
  BY <1>1 DEF LateInv, StartsLast
<1>9. \A u \in Threads : Starting(u)' => u = t
  BY <1>1, <1>8 DEF Goto, Starting, Assumed, TypeInv, ControlTypes
<1>10. ~InHandler'
  <2>1. ~InHandler
    BY <1>1 DEF LateInv, Current
  <2>2. Others
    BY DEF Others
  <2> QED
    BY <2>1, <2>2, OthersEnterNone DEF Assumed
<1>11. AllKnown(Len(reads))' /\ AllKnown(Len(reads) - 1)'
  BY <1>2, <1>6, <1>7 DEF AllKnown
<1>12. StartsLast'
  BY <1>7, <1>9, <1>11 DEF StartsLast
<1>13. Current' /\ timer_' \in Seq(Known(Len(reads')))
  BY <1>2, <1>5, <1>10 DEF Current
<1> QED
  BY <1>11, <1>12, <1>13 DEF LateInv

(* The end of the start of a read, which leaves nobody starting. *)
LEMMA StartEndsLate ==
    ASSUME Assumed, LateInv, NEW t \in Threads, StartSteps(t), Goto(t, Started(t)),
           UNCHANGED <<reads, timer_>>, AllKnown(Len(reads))'
    PROVE  LateInv'
<1>1. Starting(t)
  BY DEF StartSteps, Issue, FinishInline, Starting
<1>2. \A u \in Threads : Starting(u) => u = t
  BY <1>1 DEF LateInv, StartsLast
<1>3. Started(t) \notin {"issue", "finish"}
  BY DEF Started
<1>4. \A u \in Threads : ~Starting(u)'
  BY <1>2, <1>3 DEF Goto, Starting, Assumed, TypeInv, ControlTypes
<1>5. ~InHandler'
  <2>1. ~InHandler
    BY <1>1, NobodyStarts
  <2>2. Others
    BY DEF Others
  <2> QED
    BY <2>1, <2>2, OthersEnterNone DEF Assumed
<1> QED
  BY <1>4, <1>5 DEF LateInv, StartsLast, Current

(* Steps that change no request: it is enough that the handlers stay known, of  *)
(* earlier reads if they were, and that a handler in execution stays.         *)
LEMMA SameLate ==
    ASSUME Assumed, LateInv, UNCHANGED request, timer_' \in {timer_, <<>>},
           \A n \in Int : AllKnown(n) => ready' \in Seq(Known(n)) /\ device' \in Seq(Known(n)),
           \A t \in Threads : Starting(t)' => \E u \in Threads : Starting(u),
           \A t \in Threads, u \in Threads : Starting(t)' /\ Starting(u)' => u = t,
           Current'
    PROVE  LateInv'
<1>1. reads' = reads /\ readId_' = readId_ /\ Len(reads) \in Nat
  BY DEF request, Assumed, OutcomeInv, Numbered
<1>2. AllKnown(Len(reads))'
  <2>1. AllKnown(Len(reads)) /\ Len(reads) \in Int
    BY <1>1 DEF LateInv
  <2>2. ready' \in Seq(Known(Len(reads))) /\ device' \in Seq(Known(Len(reads)))
    BY <2>1
  <2> QED
    BY <1>1, <2>2 DEF AllKnown
<1>3. AllKnown(Len(reads) - 1) => AllKnown(Len(reads) - 1)'
  <2>1. ASSUME AllKnown(Len(reads) - 1)
        PROVE  AllKnown(Len(reads) - 1)'
    <3>1. Len(reads) - 1 \in Int
      BY <1>1
    <3>2. /\ ready' \in Seq(Known(Len(reads) - 1))
          /\ device' \in Seq(Known(Len(reads) - 1))
      BY <2>1, <3>1
    <3> QED
      BY <1>1, <3>2 DEF AllKnown
  <2> QED
    BY <2>1
<1>4. StartsLast'
  <2> SUFFICES ASSUME NEW t \in Threads, Starting(t)'
               PROVE  /\ Busy' /\ AllKnown(Len(reads) - 1)'
                      /\ \A u \in Threads : Starting(u)' => u = t
    BY Zenon DEF StartsLast, Threads
  <2>1. PICK u \in Threads : Starting(u)
    OBVIOUS
  <2>2. Busy /\ AllKnown(Len(reads) - 1)
    BY <2>1 DEF LateInv, StartsLast
  <2> QED
    BY <1>1, <1>3, <2>2 DEF Busy
<1>5. timer_' \in Seq(Known(Len(reads)))
  <2>1. <<>> \in Seq(Known(Len(reads)))
    OBVIOUS
  <2> QED
    BY <2>1 DEF LateInv
<1> QED
  BY <1>1, <1>2, <1>4, <1>5 DEF LateInv

(* In most of them, those who start a read were starting it before. *)
LEMMA StartersKept ==
    ASSUME LateInv, \A t \in Threads : Starting(t)' => Starting(t)
    PROVE  /\ \A t \in Threads : Starting(t)' => \E u \in Threads : Starting(u)
           /\ \A t \in Threads, u \in Threads : Starting(t)' /\ Starting(u)' => u = t
<1>1. \A t \in Threads, u \in Threads : Starting(t) /\ Starting(u) => u = t
  BY DEF LateInv, StartsLast
<1> QED
  BY <1>1, Zenon

(* The read is issued: the device or the service now holds a continuation with *)
(* its number, or the delimiter was found in readBuffer_.                     *)
LEMMA IssueLate == ASSUME Assumed, LateInv, NEW t \in Threads, Issue(t)
                   PROVE  LateInv'
<1>1. /\ Starting(t) /\ UNCHANGED <<request, timer_>> /\ reads[mine[t]].kind \in Kinds
      /\ StartSteps(t) /\ reads' = reads
  BY IssueCases DEF Assumed, StartSteps, request
<1>2. Busy /\ \A u \in Threads : Starting(u) => u = t
  BY <1>1 DEF LateInv, StartsLast
<1>3. CASE Goto(t, "finish") /\ UNCHANGED <<ready, device>>
  <2>1. \A u \in Threads : Starting(u)' => Starting(u)
    BY <1>1, <1>3 DEF Goto, Starting, Assumed, TypeInv, ControlTypes
  <2>2. Current'
    <3>1. ~InHandler
      BY <1>1, NobodyStarts
    <3>2. Others
      BY <1>1 DEF Others
    <3> QED
      BY <3>1, <3>2, OthersEnterNone DEF Assumed, Current
  <2> QED
    BY <1>1, <1>3, <2>1, <2>2, StartersKept, SameLate DEF AllKnown
<1>4. ASSUME NEW held \in Nat, Goto(t, Started(t)),
             DoReadSome(requestedSize_, Continuation(readId_, reads[mine[t]].kind), ready, held)
      PROVE  LateInv'
  <2>1. \A n \in Nat : [Continuation(readId_, reads[mine[t]].kind) EXCEPT !.n = n]
                          \in Known(Len(reads))
    BY <1>1, <1>2, ContinuationKnown
  <2>2. /\ ready \in Seq(Known(Len(reads))) /\ device \in Seq(Known(Len(reads)))
        /\ requestedSize_ \in Nat
    BY DEF LateInv, AllKnown, Assumed, TypeInv, RequestTypes
  <2>3. ready' \in Seq(Known(Len(reads))) /\ device' \in Seq(Known(Len(reads)))
    BY <1>4, <2>1, <2>2, DoReadSomeQueues, Zenon
  <2>4. AllKnown(Len(reads))'
    BY <1>1, <2>3 DEF AllKnown
  <2> QED
    BY <1>1, <1>4, <2>4, StartEndsLate
<1> QED
  BY <1>3, <1>4, IssueCases DEF Assumed

LEMMA FinishInlineLate == ASSUME Assumed, LateInv, NEW t \in Threads, FinishInline(t)
                          PROVE  LateInv'
<1>1. /\ ready' = ready \/ ready' = Append(ready, UserCallback(FALSE))
      /\ Goto(t, Started(t))
      /\ UNCHANGED <<reads, timer_, device>>
  BY DEF FinishInline, FinishRead
<1>2. UserCallback(FALSE) \in Known(Len(reads))
  BY CallbackKnown DEF Assumed
<1>3. ready \in Seq(Known(Len(reads))) /\ device \in Seq(Known(Len(reads)))
  BY DEF LateInv, AllKnown
<1>4. Append(ready, UserCallback(FALSE)) \in Seq(Known(Len(reads)))
  BY <1>2, <1>3, AppendType, Zenon
<1>5. AllKnown(Len(reads))'
  BY <1>1, <1>3, <1>4 DEF AllKnown
<1> QED
  BY <1>1, <1>5, StartEndsLate DEF StartSteps

(* The current handler stays current while others act. *)
LEMMA OthersCurrent == ASSUME Assumed, LateInv, Others, readId_' = readId_
                       PROVE  Current'
  BY OthersKeepHead, OthersEnterNone DEF Assumed, LateInv, Current, HeadKept, Busy

(* The device answers what it was asked. *)
LEMMA AnswerKnown ==
    ASSUME TypeInv, NEW n, AllKnown(n), device # <<>>, NEW k \in Nat, NEW err \in BOOLEAN,
           Answer([Head(device) EXCEPT !.n = k, !.err = err])
    PROVE  ready' \in Seq(Known(n)) /\ device' \in Seq(Known(n))
<1> DEFINE h == [Head(device) EXCEPT !.n = k, !.err = err]
<1>1. Head(device) \in Known(n) /\ Tail(device) \in Seq(Known(n))
  BY QueueType DEF AllKnown
<1>2. /\ h \in Handlers /\ h.what = Head(device).what
      /\ h.id = Head(device).id /\ h.dst = Head(device).dst
  BY <1>1 DEF Known, Handlers
<1>3. ready' = Append(ready, h) /\ device' = Tail(device)
  BY DEF Answer
<1> HIDE DEF h
<1>4. h \in Known(n)
  BY <1>1, <1>2 DEF Known
<1>5. Append(ready, h) \in Seq(Known(n))
  BY <1>4, AppendType, Zenon DEF AllKnown
<1> QED
  BY <1>1, <1>3, <1>5

LEMMA DeviceLate == ASSUME Assumed, LateInv, DeviceDelivers \/ DeviceFails
                    PROVE  LateInv'
<1>1. device # <<>> /\ UNCHANGED <<request, timer_, pc>>
  BY DEF DeviceDelivers, DeviceFails, Answer
<1>2. PICK k \in Nat, err \in BOOLEAN : Answer([Head(device) EXCEPT !.n = k, !.err = err])
  <2>1. Head(device) \in Handlers
    BY <1>1, QueueType DEF Assumed, TypeInv, QueueTypes
  <2>2. CASE DeviceDelivers
    <3>1. PICK k \in 0..Head(device).n : Answer([Head(device) EXCEPT !.n = k])
      BY <2>2 DEF DeviceDelivers
    <3>2. k \in Nat /\ Head(device).err \in BOOLEAN
      BY <2>1, <3>1 DEF Handlers
    <3>3. [Head(device) EXCEPT !.n = k] = [Head(device) EXCEPT !.n = k, !.err = Head(device).err]
      BY <2>1 DEF Handlers
    <3> QED
      BY <3>1, <3>2, <3>3
  <2>3. CASE DeviceFails
    BY <2>3 DEF DeviceFails
  <2> QED
    BY <2>2, <2>3
<1>3. \A n : AllKnown(n) => ready' \in Seq(Known(n)) /\ device' \in Seq(Known(n))
  BY <1>1, <1>2, AnswerKnown DEF Assumed
<1>4. Current'
  BY <1>1, OthersCurrent DEF request, Others, Environment
<1>5. \A t \in Threads : Starting(t)' => Starting(t)
  BY <1>1 DEF Starting
<1> QED
  BY <1>1, <1>3, <1>4, <1>5, StartersKept, SameLate

(* The steps of the other threads and of the environment. *)
LEMMA OthersLate == ASSUME NoWrap, ~SlowCaller, Assumed, LateInv, Others
                    PROVE  LateInv'
<1>1. ASSUME UNCHANGED <<request, timer_, ready, device>>,
             \A t \in Threads : Starting(t)' => Starting(t)
      PROVE  LateInv'
  <2>1. Current'
    BY <1>1, OthersCurrent DEF request
  <2> QED
    BY <1>1, <2>1, StartersKept, SameLate DEF AllKnown
<1>2. ASSUME NEW t \in Threads, Refused(t)
      PROVE  LateInv'
  <2>1. UNCHANGED <<request, timer_, ready, device>>
    BY <1>2 DEF Refused
  <2>2. \E s \in {"loop", "idle"} : Goto(t, s)
    BY <1>2 DEF Refused
  <2>3. \A u \in Threads : Starting(u)' => Starting(u)
    BY <2>2 DEF Goto, Starting, Assumed, TypeInv, ControlTypes
  <2> QED
    BY <1>1, <2>1, <2>3
<1>3. ASSUME NEW c \in Callers, SyncSteps(c) \/ SpuriousWake(c) \/ Flush(c)
      PROVE  LateInv'
  <2>1. UNCHANGED <<request, timer_, ready, device>>
    BY <1>3 DEF SyncSteps, ResetNotified, CheckNotified, Block, Wake, SpuriousWake, Flush
  <2>2. pc' = pc \/ \E s \in {"check", "idle", "block", "asleep"} : Goto(c, s)
    BY <1>3 DEF SyncSteps, ResetNotified, CheckNotified, Block, Wake, SpuriousWake, Flush
  <2>3. \A u \in Threads : Starting(u)' => Starting(u)
    BY <2>2 DEF Goto, Starting, Assumed, TypeInv, ControlTypes, Threads
  <2> QED
    BY <1>1, <2>1, <2>3
<1>4. CASE TimerExpires
  <2>1. /\ ready' = ready \o timer_ /\ timer_' = <<>>
        /\ UNCHANGED <<request, device, pc>>
        /\ \A t \in Threads : ~Starting(t)
    BY <1>4 DEF TimerExpires, Starting
  <2>2. /\ ready \o timer_ \in Seq(Known(Len(reads)))
        /\ device \in Seq(Known(Len(reads)))
    BY ConcatType DEF LateInv, AllKnown
  <2>3. AllKnown(Len(reads))'
    BY <2>1, <2>2 DEF AllKnown, request
  <2>4. Current'
    BY <1>4, <2>1, OthersCurrent DEF request
  <2>5. timer_' \in Seq(Known(Len(reads')))
    BY <2>1
  <2>6. \A t \in Threads : ~Starting(t)'
    BY <2>1 DEF Starting
  <2> QED
    BY <2>3, <2>4, <2>5, <2>6 DEF LateInv, StartsLast
<1> QED
  BY <1>2, <1>3, <1>4, NewReadLate, IssueLate, FinishInlineLate, DeviceLate, Zenon
  DEF Others, StartSteps, Environment

(* The end of a read, and its continuation with what is missing. *)
LEMMA FinishHandlerLate == ASSUME Assumed, LateInv, FinishHandler
                           PROVE  LateInv'
<1>1. /\ InHandler
      /\ ready' = Tail(ready) \/ ready' = Append(Tail(ready), UserCallback(Head(ready).err))
      /\ Goto(Worker, "loop")
      /\ UNCHANGED <<device, reads, timer_>>
  BY DEF FinishHandler, FinishRead, InHandler
<1>2. ready # <<>>
  BY <1>1 DEF LateInv, Current
<1>3. /\ Tail(ready) \in Seq(Known(Len(reads))) /\ Head(ready) \in Handlers
      /\ device \in Seq(Known(Len(reads)))
  BY <1>2, QueueType DEF LateInv, AllKnown, Assumed, TypeInv, QueueTypes
<1>4. UserCallback(Head(ready).err) \in Known(Len(reads))
  <2>1. Head(ready).err \in BOOLEAN
    BY <1>3 DEF Handlers
  <2> QED
    BY <2>1, CallbackKnown DEF Assumed
<1>5. Append(Tail(ready), UserCallback(Head(ready).err)) \in Seq(Known(Len(reads)))
  BY <1>3, <1>4, AppendType, Zenon
<1>6. AllKnown(Len(reads))'
  BY <1>1, <1>3, <1>5 DEF AllKnown
<1>7. (\A t \in Threads : ~Starting(t)') /\ ~InHandler'
  BY <1>1, NobodyStarts, WorkerState
  DEF Goto, Starting, InHandler, Assumed, TypeInv, ControlTypes
<1> QED
  BY <1>1, <1>6, <1>7 DEF LateInv, StartsLast, Current

LEMMA ContinueLate == ASSUME Assumed, LateInv, Continue
                      PROVE  LateInv'
<1>1. /\ ready # <<>> /\ UNCHANGED <<request, timer_>> /\ InHandler /\ pc[Worker] = "continue"
  BY ContinueCases DEF Assumed, Continue, InHandler
<1>2. /\ Busy /\ Head(ready).what # "callback" /\ Head(ready).id = readId_
      /\ AllKnown(Len(reads))
  BY <1>1 DEF LateInv, Current
<1>3. \A s : Goto(Worker, s) => pc'[Worker] = s
  BY WorkerState DEF Goto, Assumed, TypeInv, ControlTypes
<1>4. CASE Goto(Worker, "end") /\ UNCHANGED <<ready, device>>
  <2>1. Current'
    BY <1>1, <1>2, <1>4 DEF Current, Busy, request
  <2>2. \A t \in Threads : Starting(t)' => Starting(t)
    BY <1>4 DEF Goto, Starting, Assumed, TypeInv, ControlTypes
  <2> QED
    BY <1>1, <1>4, <2>1, <2>2, StartersKept, SameLate DEF AllKnown
<1>5. ASSUME NEW count \in Nat, Head(ready).kind \in Kinds, Goto(Worker, "loop"),
             DoReadSome(count, Continuation(Head(ready).id, Head(ready).kind), Tail(ready),
                        readBuffer_)
      PROVE  LateInv'
  <2>1. \A n \in Nat : [Continuation(readId_, Head(ready).kind) EXCEPT !.n = n]
                          \in Known(Len(reads))
    BY <1>2, <1>5, ContinuationKnown
  <2>2. /\ Tail(ready) \in Seq(Known(Len(reads))) /\ device \in Seq(Known(Len(reads)))
        /\ readBuffer_ \in Nat
    BY <1>1, <1>2, QueueType DEF AllKnown, Assumed, TypeInv, QueueTypes
  <2>3. DoReadSome(count, Continuation(readId_, Head(ready).kind), Tail(ready), readBuffer_)
    BY <1>2, <1>5
  <2>4. ready' \in Seq(Known(Len(reads))) /\ device' \in Seq(Known(Len(reads)))
    BY <2>1, <2>2, <2>3, DoReadSomeQueues, Zenon
  <2>5. AllKnown(Len(reads))'
    BY <1>1, <2>4 DEF AllKnown, request
  <2>6. ~InHandler'
    BY <1>3, <1>5 DEF InHandler
  <2>7. timer_' \in Seq(Known(Len(reads')))
    BY <1>1 DEF request, LateInv
  <2>8. \A t \in Threads : ~Starting(t)'
    BY <1>1, <1>5, NobodyStarts DEF Goto, Starting, Assumed, TypeInv, ControlTypes
  <2> QED
    BY <2>5, <2>6, <2>7, <2>8 DEF LateInv, StartsLast, Current
<1> QED
  BY <1>4, <1>5, ContinueCases DEF Assumed

(* The other steps of the worker: readid_ok lets only the current read in. *)
LEMMA WorkerLate == ASSUME Assumed, LateInv, WorkerSteps
                    PROVE  LateInv'
<1>1. \A s : Goto(Worker, s) => pc'[Worker] = s
  BY WorkerState DEF Goto, Assumed, TypeInv, ControlTypes
<1>2. ASSUME NEW s \in {"continue", "timeout", "end", "callback", "loop"}, Goto(Worker, s)
      PROVE  \A t \in Threads : Starting(t)' => Starting(t)
  BY <1>2 DEF Goto, Starting, Assumed, TypeInv, ControlTypes
<1>3. ASSUME UNCHANGED <<request, timer_, device>>, ready # <<>>, ready' = Tail(ready),
             pc' = pc \/ Goto(Worker, "callback"), pc[Worker] = "loop"
      PROVE  LateInv'
  <2>1. \A n : AllKnown(n) => ready' \in Seq(Known(n)) /\ device' \in Seq(Known(n))
    BY <1>3, QueueType DEF AllKnown
  <2>2. ~InHandler'
    BY <1>1, <1>3 DEF InHandler
  <2>3. \A t \in Threads : Starting(t)' => Starting(t)
    BY <1>2, <1>3 DEF Starting
  <2> QED
    BY <1>3, <2>1, <2>2, <2>3, StartersKept, SameLate DEF Current
<1>4. CASE DropHandler \/ ReadCallback \/ EnterCallback
  BY <1>3, <1>4 DEF DropHandler, ReadCallback, EnterCallback
<1>5. ASSUME UNCHANGED <<request, timer_, device, ready>>, Current',
             NEW s \in {"continue", "timeout", "end", "callback", "loop"}, Goto(Worker, s)
      PROVE  LateInv'
  BY <1>2, <1>5, StartersKept, SameLate DEF AllKnown
<1>6. CASE EnterHandler
  <2>1. /\ ready # <<>> /\ Head(ready).what # "callback" /\ Head(ready).id = readId_
        /\ UNCHANGED <<request, timer_, device, ready>>
        /\ \E s \in {"continue", "timeout"} : Goto(Worker, s)
    BY <1>6 DEF EnterHandler, ReadIdOk
  <2>2. Head(ready) \in Known(Len(reads))
    BY <2>1, QueueType DEF LateInv, AllKnown
  <2>3. Busy
    BY <2>1, <2>2 DEF Known, Busy
  <2>4. Current'
    BY <2>1, <2>3 DEF Current, Busy, request
  <2> QED
    BY <1>5, <2>1, <2>4
<1>7. CASE TimeoutNotifies
  <2>1. /\ UNCHANGED <<request, timer_, device, ready>> /\ Goto(Worker, "end") /\ InHandler
    BY <1>7 DEF TimeoutNotifies, InHandler
  <2>2. Current'
    BY <2>1 DEF LateInv, Current, Busy, request
  <2> QED
    BY <1>5, <2>1, <2>2
<1>8. CASE LeaveCallback
  <2>1. UNCHANGED <<request, timer_, device, ready>> /\ Goto(Worker, "loop")
    BY <1>8 DEF LeaveCallback
  <2>2. ~InHandler'
    BY <1>1, <2>1 DEF InHandler
  <2> QED
    BY <1>5, <2>1, <2>2 DEF Current
<1> QED
  BY <1>4, <1>6, <1>7, <1>8, FinishHandlerLate, ContinueLate DEF WorkerSteps

LEMMA StepLate == NoWrap /\ ~SlowCaller /\ Assumed /\ LateInv /\ [Next]_vars => LateInv'
<1> SUFFICES ASSUME NoWrap, ~SlowCaller, Assumed, LateInv, [Next]_vars PROVE LateInv'
  OBVIOUS
<1>1. CASE UNCHANGED vars
  <2>1. UNCHANGED <<request, timer_, ready, device, pc>>
    BY <1>1 DEF vars
  <2>2. Current'
    BY <2>1 DEF LateInv, Current, InHandler, Busy, request
  <2>3. \A t \in Threads : Starting(t)' => Starting(t)
    BY <2>1 DEF Starting
  <2> QED
    BY <2>1, <2>2, <2>3, StartersKept, SameLate DEF AllKnown
<1>2. Next => Others \/ WorkerSteps
  BY Zenon DEF Next, Others
<1> QED
  BY <1>1, <1>2, OthersLate, WorkerLate

(* LateInv holds along with what it needs. *)
LEMMA LateInvariance == ASSUME NoWrap, ~SlowCaller PROVE Spec => [](Assumed /\ LateInv)
<1>1. Init => LateInv /\ OutcomeInv
  <2> SUFFICES ASSUME Init PROVE LateInv /\ OutcomeInv
    OBVIOUS
  <2>1. ready = <<>> /\ device = <<>> /\ timer_ = <<>>
    BY DEF Init
  <2>2. (\A t \in Threads : ~Starting(t)) /\ ~InHandler
    BY DEF Init, InHandler, Threads, Starting
  <2>3. LateInv
    BY <2>1, <2>2 DEF LateInv, AllKnown, StartsLast, Current
  <2> QED
    BY <2>3, ReaderAssumption DEF Init, OutcomeInv, Numbered, OneOutcome, Busy
<1>2. OutcomeInv /\ [Next]_vars => OutcomeInv'
  BY StepOutcome
<1>3. Assumed /\ LateInv /\ [Next]_vars => LateInv'
  BY StepLate
<1>4. Assumed <=> TypeInv /\ Handling /\ OutcomeInv
  BY DEF Assumed
<1> QED
  BY <1>1, <1>2, <1>3, <1>4, TypeInvariance, PTL DEF Spec

(* As long as no timeout expires within the call that armed it, and until the  *)
(* counter wraps, a handler that passed readid_ok acts on the read it was made *)
(* for: the answers and timeouts of earlier reads, which nothing cancels when  *)
(* a read times out, never end a later one.                                   *)
THEOREM LateAnswersIgnored == ASSUME NoWrap, ~SlowCaller PROVE Spec => []LateIsIgnored
<1>1. Assumed /\ LateInv => LateIsIgnored
  <2> SUFFICES ASSUME Assumed, LateInv, InHandler PROVE Busy /\ Head(ready).dst = dst_
    BY DEF LateIsIgnored
  <2>1. /\ ready # <<>> /\ Busy /\ Head(ready).what # "callback"
        /\ Head(ready).id = readId_
    BY DEF LateInv, Current
  <2>2. Head(ready) \in Known(Len(reads))
    BY <2>1, QueueType DEF LateInv, AllKnown
  <2> QED
    BY <2>1, <2>2 DEF Known, Busy, Assumed, OutcomeInv, Numbered
<1> QED
  BY <1>1, LateInvariance, PTL

-----------------------------------------------------------------------------
(* When a synchronous read returns.  Without timeouts a caller is notified by  *)
(* the callback of a synchronous read only; with one synchronous caller that   *)
(* read is its own, because the callback is posted when the read is over and   *)
(* the caller does not return before it has run.                              *)

NoTimeouts == Timeouts \subseteq {FALSE}

OneSyncCaller == \A c, d \in SyncCallers : c = d

Untimed == {h \in Handlers : h.what # "timeout"}

UntimedInv ==
    /\ timer_ = <<>>
    /\ device \in Seq({h \in Handlers : h.what = "continue"})
    /\ ready \in Seq(Untimed)
    /\ pc[Worker] # "timeout"

Waits(c) == pc[c] \in {"check", "block", "asleep"}

IsCallback(h) == h.what = "callback"

(* The caller of a synchronous read waits, or is about to, unnotified. *)
Awaited(h) ==
    \E c \in SyncCallers :
        mine[c] = h.dst /\ pc[c] # "idle" /\ (Waits(c) => ~waiterNotified_)

SyncInv ==
    /\ \A t \in Threads : Starting(t) /\ reads[mine[t]].sync => t \in SyncCallers
    /\ \A c \in Callers : InSync(c) => c \in SyncCallers
    /\ \A c \in SyncCallers : Waits(c) /\ waiterNotified_ => Over(mine[c])
    /\ Busy /\ reads[dst_].sync => \E c \in SyncCallers : mine[c] = dst_ /\ pc[c] # "idle"
    /\ \A i \in 1..Len(ready) : IsCallback(ready[i]) =>
          /\ ready[i].dst \in 1..Len(posted)
          /\ reads[ready[i].dst].sync => Awaited(ready[i])
    /\ \A i, j \in 1..Len(ready) :
          i < j /\ IsCallback(ready[i]) /\ IsCallback(ready[j]) => ready[i].dst < ready[j].dst

(* A queue whose callbacks are those of another, in the same order. *)
SameCallbacks(queue) ==
    /\ \A i \in 1..Len(queue) : IsCallback(queue[i]) =>
          \E k \in 1..Len(ready) : queue[i] = ready[k]
    /\ \A i, j \in 1..Len(queue) :
          i < j /\ IsCallback(queue[i]) /\ IsCallback(queue[j]) =>
              \E k, l \in 1..Len(ready) : k < l /\ queue[i] = ready[k] /\ queue[j] = ready[l]

LEMMA QueueCallbacks ==
    ASSUME ready \in Seq(Handlers)
    PROVE  /\ SameCallbacks(ready)
           /\ ready # <<>> => SameCallbacks(Tail(ready))
           /\ \A h \in Handlers : ~IsCallback(h) =>
                 /\ SameCallbacks(Append(ready, h))
                 /\ ready # <<>> => SameCallbacks(Append(Tail(ready), h))
<1> DEFINE n == Len(ready)
<1>1. n \in Nat /\ \A i \in 1..n : ready[i] \in Handlers
  BY LenType
<1>2. SameCallbacks(ready)
  BY DEF SameCallbacks
<1>3. ASSUME ready # <<>>
      PROVE  /\ SameCallbacks(Tail(ready)) /\ Tail(ready) \in Seq(Handlers)
             /\ Len(Tail(ready)) = n - 1
             /\ \A i \in 1..(n - 1) : i + 1 \in 1..n /\ Tail(ready)[i] = ready[i + 1]
  <2>1. Len(Tail(ready)) = n - 1 /\ Tail(ready) \in Seq(Handlers)
    BY <1>3
  <2>2. \A i \in 1..(n - 1) : i + 1 \in 1..n /\ Tail(ready)[i] = ready[i + 1]
    BY <1>3, <1>1
  <2>3. ASSUME NEW i \in 1..(n - 1), NEW j \in 1..(n - 1), i < j
        PROVE  \E k, l \in 1..n : k < l /\ Tail(ready)[i] = ready[k] /\ Tail(ready)[j] = ready[l]
    <3>1. i + 1 < j + 1
      BY <1>1, <2>3
    <3> QED
      BY <2>2, <3>1
  <2> QED
    BY <2>1, <2>2, <2>3 DEF SameCallbacks
<1>4. ASSUME NEW queue \in Seq(Handlers), SameCallbacks(queue), NEW h \in Handlers, ~IsCallback(h)
      PROVE  SameCallbacks(Append(queue, h))
  <2> DEFINE more == Append(queue, h)
  <2>1. /\ Len(queue) \in Nat /\ Len(more) = Len(queue) + 1
        /\ \A i \in 1..Len(queue) : more[i] = queue[i]
        /\ more[Len(queue) + 1] = h
    BY <1>4
  <2> HIDE DEF more
  <2>2. \A i \in 1..Len(more) : IsCallback(more[i]) => i \in 1..Len(queue) /\ more[i] = queue[i]
    BY <1>4, <2>1
  <2> QED
    BY <1>4, <2>2 DEF SameCallbacks, more
<1> QED
  BY <1>2, <1>3, <1>4

(* How a step may move the threads. *)
Stays ==
    /\ \A t \in Threads : Starting(t)' => Starting(t)
    /\ \A c \in Callers :
          /\ Waits(c)' => Waits(c)
          /\ InSync(c)' => InSync(c) \/ c \in SyncCallers
          /\ pc[c] # "idle" /\ pc'[c] = "idle" => ~reads[mine[c]].sync

LEMMA CallersSync == SyncCallers \subseteq Callers /\ Callers \subseteq Threads
  BY ReaderAssumption DEF Threads

LEMMA KeptSync ==
    ASSUME SyncInv, Stays, SameCallbacks(ready'), UNCHANGED <<request, waiterNotified_, posted>>
    PROVE  SyncInv'
<1> USE CallersSync
<1>1. UNCHANGED <<readId_, dst_, reads, mine>>
  BY DEF request
<1>2. \A t \in Threads : Starting(t)' /\ reads'[mine'[t]].sync => t \in SyncCallers
  BY <1>1 DEF SyncInv, Stays
<1>3. \A c \in Callers : InSync(c)' => c \in SyncCallers
  BY DEF SyncInv, Stays
<1>4. \A c \in SyncCallers : Waits(c)' /\ waiterNotified_' => Over(mine[c])'
  BY <1>1 DEF SyncInv, Stays, Over
<1>5. ASSUME NEW c \in SyncCallers, pc[c] # "idle", reads[mine[c]].sync
      PROVE  pc'[c] # "idle"
  BY <1>5 DEF Stays
<1>6. Busy' /\ reads'[dst_'].sync => \E c \in SyncCallers : mine'[c] = dst_' /\ pc'[c] # "idle"
  BY <1>1, <1>5 DEF SyncInv, Busy
<1>7. ASSUME NEW h, reads[h.dst].sync, Awaited(h)
      PROVE  Awaited(h)'
  <2>1. PICK c \in SyncCallers : mine[c] = h.dst /\ pc[c] # "idle" /\ (Waits(c) => ~waiterNotified_)
    BY <1>7 DEF Awaited
  <2>2. pc'[c] # "idle" /\ (Waits(c)' => ~waiterNotified_')
    BY <1>5, <1>7, <2>1 DEF Stays
  <2> QED
    BY <1>1, <2>1, <2>2 DEF Awaited
<1>8. \A i \in 1..Len(ready') : IsCallback(ready'[i]) =>
         /\ ready'[i].dst \in 1..Len(posted')
         /\ reads'[ready'[i].dst].sync => Awaited(ready[i])'
  <2> SUFFICES ASSUME NEW i \in 1..Len(ready'), IsCallback(ready'[i])
               PROVE  /\ ready'[i].dst \in 1..Len(posted')
                      /\ reads'[ready'[i].dst].sync => Awaited(ready[i])'
    OBVIOUS
  <2>1. PICK k \in 1..Len(ready) : ready'[i] = ready[k]
    BY DEF SameCallbacks
  <2>2. /\ ready[k].dst \in 1..Len(posted)
        /\ reads[ready[k].dst].sync => Awaited(ready[k])
    BY <2>1 DEF SyncInv
  <2>3. reads[ready[k].dst].sync => \E c \in SyncCallers :
           mine'[c] = ready[k].dst /\ pc'[c] # "idle" /\ (Waits(c)' => ~waiterNotified_')
    BY <1>7, <2>2 DEF Awaited
  <2> QED
    BY <1>1, <2>1, <2>2, <2>3 DEF Awaited
<1>9. \A i, j \in 1..Len(ready') :
         i < j /\ IsCallback(ready'[i]) /\ IsCallback(ready'[j]) => ready'[i].dst < ready'[j].dst
  BY DEF SyncInv, SameCallbacks
<1> QED
  BY <1>2, <1>3, <1>4, <1>6, <1>8, <1>9 DEF SyncInv, IsCallback

(* A thread that goes from one place in the code to another. *)
LEMMA Moved ==
    ASSUME ControlTypes, NEW t \in Threads, NEW s, Goto(t, s)
    PROVE  /\ pc'[t] = s
           /\ \A u \in Threads : u # t => pc'[u] = pc[u]
           /\ s \notin {"issue", "finish", "reset", "check", "block", "asleep"}
              /\ (t \in Callers /\ s = "idle" /\ pc[t] # "idle" => ~reads[mine[t]].sync)
                   => Stays
<1>1. pc'[t] = s /\ \A u \in Threads : u # t => pc'[u] = pc[u]
  BY DEF Goto, ControlTypes
<1>2. \A c \in Callers : c \in Threads
  BY CallersSync
<1> QED
  BY <1>1, <1>2 DEF Stays, Starting, Waits, InSync

LEMMA StillStays == pc' = pc => Stays
  BY CallersSync DEF Stays, Starting, Waits, InSync

(* A start takes a synchronous caller on to its wait. *)
LEMMA StartedStays ==
    ASSUME SyncInv, ControlTypes, NEW t \in Threads, Starting(t), Goto(t, Started(t)) \/ Goto(t, "finish")
    PROVE  Stays
<1> USE CallersSync
<1>1. Worker \notin Callers
  BY ReaderAssumption
<1>2. CASE Goto(t, "finish")
  <2>1. pc'[t] = "finish" /\ \A u \in Threads : u # t => pc'[u] = pc[u]
    BY <1>2 DEF Goto, ControlTypes
  <2> QED
    BY <2>1 DEF Stays, Starting, Waits, InSync
<1>3. CASE Goto(t, Started(t))
  <2>1. pc'[t] = Started(t) /\ \A u \in Threads : u # t => pc'[u] = pc[u]
    BY <1>3 DEF Goto, ControlTypes
  <2>2. /\ Started(t) \in {"loop", "reset", "idle"}
        /\ Started(t) = "reset" => t \in SyncCallers
        /\ t \in Callers /\ Started(t) = "idle" => ~reads[mine[t]].sync
    BY <1>1 DEF Started, SyncInv
  <2> QED
    BY <2>1, <2>2 DEF Stays, Starting, Waits, InSync
<1> QED
  BY <1>2, <1>3

LEMMA NewReadSync == ASSUME NoTimeouts, Assumed, UntimedInv, SyncInv, NEW t \in Threads, NewRead(t)
                     PROVE  SyncInv' /\ UntimedInv'
<1> USE CallersSync
<1> DEFINE n == Len(reads)
<1>0. /\ n \in Nat /\ reads \in Seq(Reads) /\ dst_ = n /\ Len(posted) = n
      /\ mine \in [Threads -> Nat] /\ ControlTypes /\ ready \in Seq(Handlers)
  BY DEF Assumed, TypeInv, RequestTypes, QueueTypes, OutcomeInv, Numbered, OneOutcome, NewRead
<1>1. PICK kind \in Kinds, size \in Sizes, sync \in BOOLEAN :
         /\ MayCall(t, sync)
         /\ reads' = Append(reads, [kind |-> kind, size |-> size, timed |-> FALSE, sync |-> sync])
         /\ UNCHANGED <<ready, timer_, waiterNotified_, device, posted>>
         /\ dst_' = n + 1 /\ mine' = [mine EXCEPT ![t] = n + 1]
         /\ Goto(t, "issue")
  BY DEF NewRead, NoTimeouts
<1>2. /\ \A k \in 1..n : reads'[k] = reads[k]
      /\ reads'[n + 1].sync = sync
  BY <1>0, <1>1
<1>3. /\ pc'[t] = "issue" /\ \A u \in Threads : u # t => pc'[u] = pc[u]
      /\ mine'[t] = n + 1 /\ \A u \in Threads : u # t => mine'[u] = mine[u]
  BY <1>0, <1>1 DEF Goto, ControlTypes
<1>4. /\ sync => t \in SyncCallers
      /\ t \in Callers => pc[t] = "idle"
      /\ pc[t] \in {"idle", "callback"}
  BY <1>1, ReaderAssumption DEF MayCall
<1>5. \A u \in Threads : Starting(u)' /\ reads'[mine'[u]].sync => u \in SyncCallers
  <2> SUFFICES ASSUME NEW u \in Threads, Starting(u)', reads'[mine'[u]].sync
               PROVE  u \in SyncCallers
    OBVIOUS
  <2>1. CASE u = t
    BY <1>2, <1>3, <1>4, <2>1
  <2>2. CASE u # t
    <3>1. Starting(u) /\ mine'[u] = mine[u]
      BY <1>3, <2>2 DEF Starting
    <3>2. mine[u] \in 1..n
      BY <3>1 DEF Assumed, TypeInv, Issuing
    <3> QED
      BY <1>2, <3>1, <3>2 DEF SyncInv
  <2> QED
    BY <2>1, <2>2
<1>6. \A c \in Callers : InSync(c)' => c \in SyncCallers
  BY <1>3 DEF SyncInv, InSync
<1>7. \A c \in SyncCallers : Waits(c)' /\ waiterNotified_' => Over(mine[c])'
  BY <1>1, <1>3 DEF SyncInv, Waits, Over
<1>8. Busy' /\ reads'[dst_'].sync => \E c \in SyncCallers : mine'[c] = dst_' /\ pc'[c] # "idle"
  BY <1>1, <1>2, <1>3, <1>4
<1>9. ASSUME NEW i \in 1..Len(ready), IsCallback(ready[i])
      PROVE  /\ ready[i].dst \in 1..Len(posted)
             /\ reads'[ready[i].dst].sync =>
                   \E c \in SyncCallers :
                      mine'[c] = ready[i].dst /\ pc'[c] # "idle" /\ (Waits(c)' => ~waiterNotified_')
  <2>1. ready[i].dst \in 1..Len(posted) /\ (reads[ready[i].dst].sync => Awaited(ready[i]))
    BY <1>9 DEF SyncInv
  <2>2. reads'[ready[i].dst] = reads[ready[i].dst]
    BY <1>0, <1>2, <2>1
  <2>3. ASSUME reads[ready[i].dst].sync
        PROVE  \E c \in SyncCallers :
                  mine'[c] = ready[i].dst /\ pc'[c] # "idle" /\ (Waits(c)' => ~waiterNotified_')
    <3>1. PICK c \in SyncCallers :
             mine[c] = ready[i].dst /\ pc[c] # "idle" /\ (Waits(c) => ~waiterNotified_)
      BY <2>1, <2>3 DEF Awaited
    <3>2. c # t /\ c \in Threads
      BY <1>4, <3>1
    <3>3. pc'[c] = pc[c] /\ mine'[c] = mine[c]
      BY <1>3, <3>2
    <3> QED
      BY <1>1, <3>1, <3>3 DEF Waits
  <2> QED
    BY <2>1, <2>2, <2>3
<1>10. SyncInv'
  BY <1>1, <1>5, <1>6, <1>7, <1>8, <1>9 DEF SyncInv, Awaited, IsCallback
<1>11. pc'[Worker] # "timeout"
  BY <1>3, WorkerState DEF UntimedInv
<1> QED
  BY <1>1, <1>10, <1>11 DEF UntimedInv

(* The end of a read queues its callback, for a caller that still waits. *)
LEMMA FinishReadSync ==
    ASSUME Assumed, SyncInv, Stays, NEW err \in BOOLEAN, NEW queue \in Seq(Handlers),
           SameCallbacks(queue), FinishRead(err, queue),
           UNCHANGED <<readCounter_, requestedSize_, dst_, reads, mine, waiterNotified_>>
    PROVE  SyncInv'
<1> USE CallersSync
<1>1. CASE ~Busy
  <2>1. SameCallbacks(ready') /\ UNCHANGED <<readId_, posted>>
    BY <1>1 DEF FinishRead
  <2> QED
    BY <2>1, KeptSync DEF request
<1>2. CASE Busy
  <2> DEFINE h    == UserCallback(err)
             n    == Len(posted)
             last == Len(queue) + 1
  <2>1. /\ readId_' = 0 /\ ready' = Append(queue, h) /\ posted' = Append(posted, dst_)
        /\ dst_ = n + 1 /\ n \in Nat /\ Len(posted') = n + 1
    BY <1>2 DEF FinishRead, Assumed, OutcomeInv, Numbered, OneOutcome
  <2>2. h.dst = dst_ /\ IsCallback(h)
    BY DEF UserCallback, IsCallback
  <2> HIDE DEF h
  <2>3. /\ Len(queue) \in Nat /\ Len(ready') = last
        /\ \A i \in 1..Len(queue) : ready'[i] = queue[i]
        /\ ready'[last] = h
    BY <2>1
  <2>4. \A i \in 1..last : i \in 1..Len(queue) \/ i = last
    BY <2>3
  <2>5. ASSUME NEW c \in SyncCallers, pc[c] # "idle", reads[mine[c]].sync
        PROVE  pc'[c] # "idle"
    BY <2>5 DEF Stays
  <2>6. ASSUME NEW i \in 1..Len(queue), IsCallback(queue[i])
        PROVE  /\ queue[i].dst \in 1..n
               /\ reads[queue[i].dst].sync =>
                     \E c \in SyncCallers :
                        mine[c] = queue[i].dst /\ pc'[c] # "idle" /\ (Waits(c)' => ~waiterNotified_)
    <3>1. PICK k \in 1..Len(ready) : queue[i] = ready[k]
      BY <2>6 DEF SameCallbacks
    <3>2. queue[i].dst \in 1..n /\ (reads[queue[i].dst].sync => Awaited(queue[i]))
      BY <2>6, <3>1 DEF SyncInv
    <3> QED
      BY <2>5, <3>2 DEF Awaited, Stays
  <2>7. reads[dst_].sync =>
           \E c \in SyncCallers :
              mine[c] = dst_ /\ pc'[c] # "idle" /\ (Waits(c)' => ~waiterNotified_)
    <3> SUFFICES ASSUME reads[dst_].sync
                 PROVE  \E c \in SyncCallers :
                           mine[c] = dst_ /\ pc'[c] # "idle" /\ (Waits(c)' => ~waiterNotified_)
      OBVIOUS
    <3>1. PICK c \in SyncCallers : mine[c] = dst_ /\ pc[c] # "idle"
      BY <1>2 DEF SyncInv
    <3>2. ~Over(mine[c])
      BY <2>1, <3>1 DEF Over
    <3>3. Waits(c)' => ~waiterNotified_
      BY <3>2 DEF SyncInv, Stays
    <3> QED
      BY <2>5, <3>1, <3>3
  <2>8. \A i \in 1..Len(ready') : IsCallback(ready'[i]) =>
           /\ ready'[i].dst \in 1..Len(posted')
           /\ reads'[ready'[i].dst].sync =>
                 \E c \in SyncCallers :
                    mine'[c] = ready'[i].dst /\ pc'[c] # "idle" /\ (Waits(c)' => ~waiterNotified_')
    <3> SUFFICES ASSUME NEW i \in 1..last, IsCallback(ready'[i])
                 PROVE  /\ ready'[i].dst \in 1..(n + 1)
                        /\ reads[ready'[i].dst].sync =>
                              \E c \in SyncCallers :
                                 /\ mine[c] = ready'[i].dst /\ pc'[c] # "idle"
                                 /\ Waits(c)' => ~waiterNotified_
      BY <2>1, <2>3
    <3>1. CASE i \in 1..Len(queue)
      <4>1. ready'[i] = queue[i]
        BY <2>3, <3>1
      <4>2. \A d \in 1..n : d \in 1..(n + 1)
        BY <2>1
      <4> QED
        BY <2>6, <3>1, <4>1, <4>2
    <3>2. CASE i = last
      BY <2>1, <2>2, <2>3, <2>7, <3>2
    <3> QED
      BY <2>4, <3>1, <3>2
  <2>9. ASSUME NEW i \in 1..last, NEW j \in 1..last, i < j,
               IsCallback(ready'[i]), IsCallback(ready'[j])
        PROVE  ready'[i].dst < ready'[j].dst
    <3>1. i \in 1..Len(queue) /\ ready'[i] = queue[i]
      BY <2>3, <2>9
    <3>2. CASE j \in 1..Len(queue)
      <4>1. ready'[j] = queue[j]
        BY <2>3, <3>2
      <4>2. PICK k \in 1..Len(ready), l \in 1..Len(ready) :
               k < l /\ queue[i] = ready[k] /\ queue[j] = ready[l]
        BY <2>9, <3>1, <3>2, <4>1 DEF SameCallbacks
      <4> QED
        BY <2>9, <3>1, <4>1, <4>2 DEF SyncInv
    <3>3. CASE j = last
      <4>1. queue[i].dst \in 1..n
        BY <2>6, <2>9, <3>1
      <4> QED
        BY <2>1, <2>2, <2>3, <3>1, <3>3, <4>1
    <3> QED
      BY <2>4, <3>2, <3>3
  <2>10. \A c \in SyncCallers : Waits(c)' /\ waiterNotified_' => Over(mine[c])'
    <3> SUFFICES ASSUME NEW c \in SyncCallers, Waits(c)', waiterNotified_'
                 PROVE  mine'[c] <= n + 1
      BY <2>1 DEF Over
    <3>1. mine[c] <= n
      BY DEF SyncInv, Stays, Over
    <3>2. mine[c] \in Nat
      BY DEF Assumed, TypeInv, RequestTypes
    <3> QED
      BY <2>1, <3>1, <3>2
  <2>11. \A t \in Threads : Starting(t)' /\ reads'[mine'[t]].sync => t \in SyncCallers
    BY DEF SyncInv, Stays
  <2>12. \A c \in Callers : InSync(c)' => c \in SyncCallers
    BY DEF SyncInv, Stays
  <2>13. ~Busy'
    BY <2>1 DEF Busy
  <2> QED
    BY <2>3, <2>8, <2>9, <2>10, <2>11, <2>12, <2>13 DEF SyncInv, Awaited, IsCallback
<1> QED
  BY <1>1, <1>2

(* A callback notifies the only synchronous caller, whose read it is. *)
LEMMA ReadCallbackSync ==
    ASSUME OneSyncCaller, Assumed, SyncInv, ReadCallback
    PROVE  SyncInv'
<1> USE CallersSync
<1> DEFINE h == Head(ready)
<1>1. /\ ready # <<>> /\ IsCallback(h) /\ reads[h.dst].sync /\ waiterNotified_'
      /\ ready' = Tail(ready) /\ UNCHANGED <<request, pc, posted>>
  BY DEF ReadCallback, IsCallback
<1>2. UNCHANGED <<readId_, dst_, reads, mine>>
  BY <1>1 DEF request
<1>3. /\ ready \in Seq(Handlers) /\ h = ready[1] /\ 1 \in 1..Len(ready)
      /\ Len(Tail(ready)) = Len(ready) - 1 /\ Len(ready) \in Nat
      /\ \A i \in 1..Len(Tail(ready)) :
            i + 1 \in 1..Len(ready) /\ 1 < i + 1 /\ Tail(ready)[i] = ready[i + 1]
  BY <1>1 DEF Assumed, TypeInv, QueueTypes
<1> HIDE DEF h
<1>4. h.dst \in 1..Len(posted) /\ Awaited(h)
  BY <1>1, <1>3 DEF SyncInv
<1>5. PICK c \in SyncCallers : mine[c] = h.dst /\ pc[c] # "idle"
  BY <1>4 DEF Awaited
<1>6. \A d \in SyncCallers : d = c
  BY DEF OneSyncCaller
<1>7. Over(mine[c])
  BY <1>4, <1>5 DEF Over
<1>8. ASSUME NEW i \in 1..Len(Tail(ready)), IsCallback(Tail(ready)[i])
      PROVE  /\ Tail(ready)[i].dst \in 1..Len(posted)
             /\ ~reads[Tail(ready)[i].dst].sync
  <2>1. Tail(ready)[i] = ready[i + 1] /\ i + 1 \in 1..Len(ready) /\ 1 < i + 1
    BY <1>3
  <2>2. /\ ready[i + 1].dst \in 1..Len(posted)
        /\ reads[ready[i + 1].dst].sync => Awaited(ready[i + 1])
    BY <1>8, <2>1 DEF SyncInv
  <2>3. h.dst < ready[i + 1].dst
    BY <1>1, <1>3, <1>8, <2>1 DEF SyncInv
  <2>4. Awaited(ready[i + 1]) => mine[c] = ready[i + 1].dst
    BY <1>6 DEF Awaited
  <2>5. h.dst \in Nat /\ ready[i + 1].dst \in Nat
    BY <1>4, <2>2
  <2> QED
    BY <1>5, <2>1, <2>2, <2>3, <2>4, <2>5
<1>9. \A i, j \in 1..Len(Tail(ready)) :
         i < j /\ IsCallback(Tail(ready)[i]) /\ IsCallback(Tail(ready)[j])
            => Tail(ready)[i].dst < Tail(ready)[j].dst
  BY <1>3 DEF SyncInv
<1>10. \A d \in SyncCallers : Over(mine[d])'
  BY <1>1, <1>2, <1>6, <1>7 DEF Over
<1>11. /\ \A t \in Threads : Starting(t)' /\ reads'[mine'[t]].sync => t \in SyncCallers
       /\ \A d \in Callers : InSync(d)' => d \in SyncCallers
       /\ Busy' /\ reads'[dst_'].sync => \E d \in SyncCallers : mine'[d] = dst_' /\ pc'[d] # "idle"
  BY <1>1, <1>2 DEF SyncInv, Starting, InSync, Busy
<1> QED
  BY <1>1, <1>2, <1>8, <1>9, <1>10, <1>11 DEF SyncInv, IsCallback

LEMMA NotifiedSync ==
    ASSUME Assumed, SyncInv, NEW c \in Callers, ResetNotified(c) \/ CheckNotified(c)
    PROVE  SyncInv'
<1> USE CallersSync
<1>1. /\ UNCHANGED <<request, ready, posted>> /\ InSync(c) /\ c \in SyncCallers
      /\ UNCHANGED <<readId_, dst_, reads, mine>>
  BY DEF ResetNotified, CheckNotified, InSync, SyncInv, request
<1>2. PICK s \in {"check", "idle", "block"} : Goto(c, s)
  BY DEF ResetNotified, CheckNotified
<1>3. pc'[c] = s /\ \A u \in Threads : u # c => pc'[u] = pc[u]
  BY <1>2 DEF Goto, Assumed, TypeInv, ControlTypes
<1>4. ~waiterNotified_' \/ (waiterNotified_' = waiterNotified_ /\ pc[c] = "check")
  BY DEF ResetNotified, CheckNotified
<1>5. s = "idle" => Waits(c) /\ waiterNotified_
  BY <1>3, <1>4 DEF ResetNotified, CheckNotified, Waits, Goto, Assumed, TypeInv, ControlTypes
<1>6. /\ \A t \in Threads : Starting(t)' => Starting(t)
      /\ \A d \in Callers : InSync(d)' => InSync(d)
      /\ \A d \in SyncCallers : Waits(d)' /\ waiterNotified_' => Waits(d) /\ waiterNotified_
  BY <1>1, <1>3, <1>4 DEF Starting, InSync, Waits
<1>7. ASSUME NEW d \in SyncCallers, pc[d] # "idle", ~(Waits(d) /\ waiterNotified_)
      PROVE  pc'[d] # "idle" /\ (Waits(d)' => ~waiterNotified_')
  BY <1>3, <1>5, <1>6, <1>7
<1>8. Busy' /\ reads'[dst_'].sync => \E d \in SyncCallers : mine'[d] = dst_' /\ pc'[d] # "idle"
  <2> SUFFICES ASSUME Busy, reads[dst_].sync
               PROVE  \E d \in SyncCallers : mine[d] = dst_ /\ pc'[d] # "idle"
    BY <1>1 DEF Busy
  <2>1. PICK d \in SyncCallers : mine[d] = dst_ /\ pc[d] # "idle"
    BY DEF SyncInv
  <2>2. ~Over(dst_)
    BY DEF Over, Assumed, OutcomeInv, Numbered, OneOutcome
  <2>3. ~(Waits(d) /\ waiterNotified_)
    BY <2>1, <2>2 DEF SyncInv
  <2> QED
    BY <1>7, <2>1, <2>3
<1>9. ASSUME NEW h, Awaited(h)
      PROVE  \E d \in SyncCallers : mine[d] = h.dst /\ pc'[d] # "idle" /\ (Waits(d)' => ~waiterNotified_')
  BY <1>7, <1>9 DEF Awaited
<1>10. \A i \in 1..Len(ready') : IsCallback(ready'[i]) =>
          /\ ready'[i].dst \in 1..Len(posted')
          /\ reads'[ready'[i].dst].sync =>
                \E d \in SyncCallers :
                   mine'[d] = ready'[i].dst /\ pc'[d] # "idle" /\ (Waits(d)' => ~waiterNotified_')
  BY <1>1, <1>9 DEF SyncInv
<1>11. \A d \in SyncCallers : Waits(d)' /\ waiterNotified_' => Over(mine[d])'
  BY <1>1, <1>6 DEF SyncInv, Over
<1> QED
  BY <1>1, <1>6, <1>8, <1>10, <1>11 DEF SyncInv, Awaited, IsCallback

(* do_read_some queues a continuation, or leaves it to the device. *)
LEMMA DoReadSomeSync ==
    ASSUME dst_ \in Nat, NEW count \in Nat, NEW id \in Nat, NEW kind \in Kinds, NEW held \in Nat,
           NEW queue \in Seq(Untimed), device \in Seq({h \in Handlers : h.what = "continue"}),
           SameCallbacks(queue),
           \A h \in Handlers : ~IsCallback(h) => SameCallbacks(Append(queue, h)),
           DoReadSome(count, Continuation(id, kind), queue, held)
    PROVE  /\ ready' \in Seq(Untimed) /\ SameCallbacks(ready')
           /\ device' \in Seq({h \in Handlers : h.what = "continue"})
<1> DEFINE handler == Continuation(id, kind)
<1>1. ASSUME NEW n \in Nat
      PROVE  /\ [handler EXCEPT !.n = n] \in Handlers
             /\ [handler EXCEPT !.n = n].what = "continue"
  BY ContinuationType DEF Continuation
<1>2. CASE held > 0
  <2> DEFINE n == IF held < count THEN held ELSE count
             e == [handler EXCEPT !.n = n]
  <2>1. e \in Handlers /\ e.what = "continue"
    <3>1. n \in Nat
      OBVIOUS
    <3> QED
      BY <1>1, <3>1
  <2>2. ready' = Append(queue, e) /\ UNCHANGED device
    BY <1>2 DEF DoReadSome
  <2> HIDE DEF e
  <2>3. e \in Untimed /\ ~IsCallback(e)
    BY <2>1 DEF Untimed, IsCallback
  <2> QED
    BY <2>1, <2>2, <2>3, AppendType
<1>3. CASE held = 0
  <2> DEFINE e == [handler EXCEPT !.n = count]
  <2>1. e \in {h \in Handlers : h.what = "continue"}
    BY <1>1
  <2>2. ready' = queue /\ device' = Append(device, e)
    BY <1>3 DEF DoReadSome
  <2> HIDE DEF e
  <2> QED
    BY <2>1, <2>2, AppendType
<1> QED
  BY <1>2, <1>3

LEMMA UntimedQueues ==
    ASSUME UntimedInv
    PROVE  /\ ready \in Seq(Handlers)
           /\ ready # <<>> => /\ Tail(ready) \in Seq(Untimed) /\ Head(ready) \in Untimed
                              /\ Tail(ready) \in Seq(Handlers)
<1>1. ready \in Seq(Untimed)
  BY DEF UntimedInv
<1>2. \A s : s \in Seq(Untimed) => s \in Seq(Handlers)
  BY DEF Untimed
<1> QED
  BY <1>1, <1>2, QueueType

LEMMA IssueSync == ASSUME Assumed, UntimedInv, SyncInv, NEW t \in Threads, Issue(t)
                   PROVE  SyncInv' /\ UntimedInv'
<1>1. /\ Starting(t) /\ UNCHANGED <<request, timer_, waiter, posted>>
      /\ reads[mine[t]].kind \in Kinds
      /\ \/ Goto(t, "finish") /\ UNCHANGED <<ready, device>>
         \/ \E held \in Nat :
               /\ DoReadSome(requestedSize_, Continuation(readId_, reads[mine[t]].kind), ready, held)
               /\ Goto(t, Started(t))
  BY IssueCases DEF Assumed
<1>2. Stays /\ pc'[Worker] # "timeout"
  <2>1. ControlTypes
    BY DEF Assumed, TypeInv
  <2>2. Stays
    BY <1>1, <2>1, StartedStays
  <2>3. PICK s : Goto(t, s) /\ s \in {"finish", "loop", "reset", "idle"}
    BY <1>1 DEF Started
  <2> QED
    BY <2>1, <2>2, <2>3, WorkerState DEF Goto, ControlTypes, UntimedInv
<1>3. /\ ready' \in Seq(Untimed) /\ SameCallbacks(ready')
      /\ device' \in Seq({h \in Handlers : h.what = "continue"})
  <2>1. CASE UNCHANGED <<ready, device>>
    BY <2>1, QueueCallbacks, UntimedQueues DEF UntimedInv
  <2>2. ASSUME NEW held \in Nat,
               DoReadSome(requestedSize_, Continuation(readId_, reads[mine[t]].kind), ready, held)
        PROVE  /\ ready' \in Seq(Untimed) /\ SameCallbacks(ready')
               /\ device' \in Seq({h \in Handlers : h.what = "continue"})
    <3>1. requestedSize_ \in Nat /\ readId_ \in Nat /\ dst_ \in Nat
      BY ReaderAssumption DEF Assumed, TypeInv, RequestTypes
    <3> QED
      BY <1>1, <2>2, <3>1, DoReadSomeSync, QueueCallbacks, UntimedQueues DEF UntimedInv
  <2> QED
    BY <1>1, <2>1, <2>2
<1> QED
  BY <1>1, <1>2, <1>3, KeptSync DEF UntimedInv, waiter

LEMMA ContinueSync == ASSUME Assumed, UntimedInv, SyncInv, Continue
                      PROVE  SyncInv' /\ UntimedInv'
<1>1. /\ ready # <<>> /\ UNCHANGED <<request, timer_, waiter, posted>>
      /\ \/ Goto(Worker, "end") /\ UNCHANGED <<ready, device>>
         \/ /\ Head(ready).kind \in Kinds
            /\ \E count \in Nat :
                  DoReadSome(count, Continuation(Head(ready).id, Head(ready).kind),
                             Tail(ready), readBuffer_)
            /\ Goto(Worker, "loop")
  BY ContinueCases DEF Assumed
<1>2. PICK s \in {"end", "loop"} : Goto(Worker, s)
  BY <1>1
<1>3. Stays /\ pc'[Worker] # "timeout"
  <2>1. ControlTypes /\ Worker \notin Callers
    BY ReaderAssumption DEF Assumed, TypeInv
  <2> QED
    BY <1>2, <2>1, Moved, WorkerState
<1>4. /\ ready' \in Seq(Untimed) /\ SameCallbacks(ready')
      /\ device' \in Seq({h \in Handlers : h.what = "continue"})
  <2>1. CASE UNCHANGED <<ready, device>>
    BY <2>1, QueueCallbacks, UntimedQueues DEF UntimedInv
  <2>2. ASSUME NEW count \in Nat, Head(ready).kind \in Kinds,
               DoReadSome(count, Continuation(Head(ready).id, Head(ready).kind), Tail(ready),
                          readBuffer_)
        PROVE  /\ ready' \in Seq(Untimed) /\ SameCallbacks(ready')
               /\ device' \in Seq({h \in Handlers : h.what = "continue"})
    <3>1. Head(ready).id \in Nat /\ dst_ \in Nat /\ readBuffer_ \in Nat
      BY <1>1, UntimedQueues DEF Untimed, Handlers, Assumed, TypeInv, RequestTypes, QueueTypes
    <3> QED
      BY <1>1, <2>2, <3>1, DoReadSomeSync, QueueCallbacks, UntimedQueues DEF UntimedInv
  <2> QED
    BY <1>1, <2>1, <2>2
<1> QED
  BY <1>1, <1>3, <1>4, KeptSync DEF UntimedInv, waiter

LEMMA EndSync ==
    ASSUME Assumed, UntimedInv, SyncInv, FinishHandler \/ \E t \in Threads : FinishInline(t)
    PROVE  SyncInv' /\ UntimedInv'
<1>1. PICK err \in BOOLEAN, queue \in {ready, Tail(ready)} :
         /\ FinishRead(err, queue)
         /\ UNCHANGED <<readCounter_, requestedSize_, dst_, reads, mine, waiterNotified_, timer_, device>>
         /\ queue \in Seq(Untimed) /\ queue \in Seq(Handlers) /\ SameCallbacks(queue)
         /\ Stays /\ pc'[Worker] # "timeout"
  <2>0. ControlTypes /\ ready \in Seq(Handlers) /\ ready \in Seq(Untimed) /\ Worker \notin Callers
    BY UntimedQueues, ReaderAssumption DEF Assumed, TypeInv, UntimedInv
  <2>1. CASE FinishHandler
    <3>1. ready # <<>>
      BY <2>1 DEF Assumed, Handling, InHandler, FinishHandler
    <3>2. Head(ready).err \in BOOLEAN
      BY <3>1, UntimedQueues DEF Untimed, Handlers
    <3>3. Stays /\ pc'[Worker] # "timeout"
      BY <2>0, <2>1, Moved, WorkerState DEF FinishHandler
    <3> QED
      BY <2>0, <2>1, <3>1, <3>2, <3>3, QueueCallbacks, UntimedQueues DEF FinishHandler, waiter
  <2>2. ASSUME NEW t \in Threads, FinishInline(t)
        PROVE  /\ FinishRead(FALSE, ready) /\ Stays /\ pc'[Worker] # "timeout"
               /\ UNCHANGED <<readCounter_, requestedSize_, dst_, reads, mine, waiterNotified_, timer_,
                              device>>
    <3>1. Starting(t) /\ Goto(t, Started(t)) /\ Started(t) \in {"loop", "reset", "idle"}
      BY <2>2 DEF FinishInline, Starting, Started
    <3>2. Stays
      BY <2>0, <3>1, StartedStays
    <3>3. pc'[Worker] # "timeout"
      BY <2>0, <3>1, WorkerState DEF Goto, ControlTypes, UntimedInv
    <3> QED
      BY <2>2, <3>2, <3>3 DEF FinishInline, waiter
  <2> QED
    BY <2>0, <2>1, <2>2, QueueCallbacks
<1>2. SyncInv'
  BY <1>1, FinishReadSync
<1>3. ready' \in Seq(Untimed)
  <2>1. UserCallback(err) \in Untimed
    BY DEF UserCallback, Untimed, Handlers, Assumed, TypeInv, RequestTypes, QueueTypes
  <2> QED
    BY <1>1, <2>1, AppendType DEF FinishRead
<1> QED
  BY <1>1, <1>2, <1>3 DEF UntimedInv

LEMMA WorkerSync ==
    ASSUME OneSyncCaller, Assumed, UntimedInv, SyncInv, WorkerSteps
    PROVE  SyncInv' /\ UntimedInv'
<1>0. ControlTypes /\ Worker \notin Callers /\ Worker \in Threads
  BY ReaderAssumption, WorkerState DEF Assumed, TypeInv
<1>1. CASE DropHandler \/ EnterHandler \/ EnterCallback \/ LeaveCallback
  <2>1. /\ UNCHANGED <<request, timer_, waiter, posted, device>>
        /\ UNCHANGED ready \/ (ready # <<>> /\ ready' = Tail(ready))
    BY <1>1 DEF DropHandler, EnterHandler, EnterCallback, LeaveCallback
  <2>2. Stays /\ pc'[Worker] # "timeout"
    <3>1. CASE DropHandler
      BY <3>1, StillStays DEF DropHandler, UntimedInv
    <3>2. CASE EnterHandler
      <4>1. Goto(Worker, Head(ready).what) /\ Head(ready).what = "continue"
        BY <3>2, UntimedQueues DEF EnterHandler, Untimed
      <4> QED
        BY <1>0, <4>1, Moved
    <3>3. CASE EnterCallback \/ LeaveCallback
      BY <1>0, <3>3, Moved DEF EnterCallback, LeaveCallback
    <3> QED
      BY <1>1, <3>1, <3>2, <3>3
  <2>3. SameCallbacks(ready') /\ ready' \in Seq(Untimed)
    BY <2>1, QueueCallbacks, UntimedQueues DEF UntimedInv
  <2> QED
    BY <2>1, <2>2, <2>3, KeptSync DEF UntimedInv, waiter
<1>2. CASE ReadCallback
  <2>1. /\ UNCHANGED <<timer_, device, pc>> /\ ready # <<>> /\ ready' = Tail(ready)
    BY <1>2 DEF ReadCallback
  <2> QED
    BY <1>2, <2>1, ReadCallbackSync, UntimedQueues DEF UntimedInv
<1>3. ~TimeoutNotifies
  BY DEF TimeoutNotifies, UntimedInv
<1> QED
  BY <1>1, <1>2, <1>3, ContinueSync, EndSync DEF WorkerSteps

LEMMA OthersSync ==
    ASSUME NoTimeouts, Assumed, UntimedInv, SyncInv, Others
    PROVE  SyncInv' /\ UntimedInv'
<1>0. ControlTypes /\ ready \in Seq(Handlers) /\ SameCallbacks(ready)
      /\ Worker \notin Callers /\ ready \in Seq(Untimed)
  BY ReaderAssumption, UntimedQueues, QueueCallbacks DEF Assumed, TypeInv, UntimedInv
<1>1. ASSUME UNCHANGED <<request, timer_, waiterNotified_, posted, ready, device>>, Stays,
             pc'[Worker] # "timeout"
      PROVE  SyncInv' /\ UntimedInv'
  BY <1>0, <1>1, KeptSync DEF UntimedInv
<1>2. ASSUME NEW t \in Threads, Refused(t)
      PROVE  SyncInv' /\ UntimedInv'
  <2>1. /\ Goto(t, IF t = Worker THEN "loop" ELSE "idle")
        /\ t # Worker => pc[t] = "idle"
        /\ UNCHANGED <<request, timer_, waiter, posted, ready, device>>
    BY <1>2 DEF Refused, MayCall
  <2>2. Stays
    BY <1>0, <2>1, Moved
  <2>3. pc'[Worker] # "timeout"
    BY <1>0, <2>1, WorkerState DEF Goto, ControlTypes, UntimedInv
  <2> QED
    BY <1>1, <2>1, <2>2, <2>3 DEF waiter
<1>3. ASSUME NEW c \in Callers, Block(c) \/ Wake(c)
      PROVE  SyncInv' /\ UntimedInv'
  <2>1. PICK s \in {"asleep", "check"} : Goto(c, s)
    BY <1>3 DEF Block, Wake
  <2>2. pc'[c] = s /\ \A u \in Threads : u # c => pc'[u] = pc[u]
    BY <1>0, <2>1 DEF Goto, ControlTypes, Threads
  <2>3. Waits(c)
    BY <1>3 DEF Block, Wake, Waits
  <2>4. Stays
    BY <2>2, <2>3, CallersSync DEF Stays, Starting, Waits, InSync
  <2>5. pc'[Worker] # "timeout"
    BY <1>0, <2>2, WorkerState DEF UntimedInv
  <2> QED
    BY <1>1, <1>3, <2>4, <2>5 DEF Block, Wake
<1>4. ASSUME NEW c \in Callers, ResetNotified(c) \/ CheckNotified(c)
      PROVE  SyncInv' /\ UntimedInv'
  <2>1. UNCHANGED <<timer_, device, ready>> /\ \E s : Goto(c, s)
    BY <1>4 DEF ResetNotified, CheckNotified
  <2>2. pc'[Worker] = pc[Worker]
    BY <1>0, <2>1, WorkerState DEF Goto, ControlTypes
  <2> QED
    BY <1>4, <2>1, <2>2, NotifiedSync DEF UntimedInv
<1>5. ASSUME NEW c \in Callers, SpuriousWake(c) \/ Flush(c)
      PROVE  SyncInv' /\ UntimedInv'
  BY <1>1, <1>5, StillStays DEF SpuriousWake, Flush, waiter, UntimedInv
<1>6. CASE Environment
  <2>1. ASSUME NEW op \in Handlers, op.what = "continue", Answer(op), device # <<>>
        PROVE  SyncInv' /\ UntimedInv'
    <3>1. /\ ready' = Append(ready, op) /\ device' = Tail(device)
          /\ UNCHANGED <<request, timer_, waiter, pc, posted>>
      BY <2>1 DEF Answer
    <3>2. op \in Untimed /\ ~IsCallback(op)
      BY <2>1 DEF Untimed, IsCallback
    <3>3. ready' \in Seq(Untimed) /\ SameCallbacks(ready')
      BY <1>0, <3>1, <3>2, AppendType, QueueCallbacks
    <3>4. device' \in Seq({h \in Handlers : h.what = "continue"})
      BY <2>1, <3>1, QueueType DEF UntimedInv
    <3> QED
      BY <3>1, <3>3, <3>4, StillStays, KeptSync DEF UntimedInv, waiter
  <2>2. device # <<>> => Head(device) \in Handlers /\ Head(device).what = "continue"
    BY QueueType DEF UntimedInv
  <2>3. CASE DeviceDelivers
    <3>1. PICK n \in 0..Head(device).n : Answer([Head(device) EXCEPT !.n = n])
      BY <2>3 DEF DeviceDelivers
    <3>2. device # <<>> /\ n \in Nat
      BY <2>2, <2>3, <3>1 DEF DeviceDelivers, Handlers
    <3>3. /\ [Head(device) EXCEPT !.n = n] \in Handlers
          /\ [Head(device) EXCEPT !.n = n].what = "continue"
      BY <2>2, <3>2 DEF Handlers
    <3> QED
      BY <2>1, <3>1, <3>2, <3>3
  <2>4. CASE DeviceFails
    <3>1. Answer([Head(device) EXCEPT !.n = 0, !.err = TRUE]) /\ device # <<>>
      BY <2>4 DEF DeviceFails
    <3>2. /\ [Head(device) EXCEPT !.n = 0, !.err = TRUE] \in Handlers
          /\ [Head(device) EXCEPT !.n = 0, !.err = TRUE].what = "continue"
      BY <2>2, <3>1 DEF Handlers
    <3> QED
      BY <2>1, <3>1, <3>2
  <2>5. ~TimerExpires
    BY DEF TimerExpires, UntimedInv
  <2> QED
    BY <1>6, <2>3, <2>4, <2>5 DEF Environment
<1> QED
  BY <1>2, <1>3, <1>4, <1>5, <1>6, NewReadSync, IssueSync, EndSync DEF Others, StartSteps, SyncSteps

LEMMA StepSync ==
    NoTimeouts /\ OneSyncCaller /\ Assumed /\ UntimedInv /\ SyncInv /\ [Next]_vars
        => SyncInv' /\ UntimedInv'
<1> SUFFICES ASSUME NoTimeouts, OneSyncCaller, Assumed, UntimedInv, SyncInv, [Next]_vars
             PROVE  SyncInv' /\ UntimedInv'
  OBVIOUS
<1>1. CASE UNCHANGED vars
  <2>1. /\ UNCHANGED <<request, timer_, waiterNotified_, posted, ready, device, pc>>
        /\ ready \in Seq(Handlers)
    BY <1>1, UntimedQueues DEF vars, waiter
  <2> QED
    BY <2>1, StillStays, QueueCallbacks, KeptSync DEF UntimedInv
<1>2. Next => Others \/ WorkerSteps
  BY Zenon DEF Next, Others
<1> QED
  BY <1>1, <1>2, OthersSync, WorkerSync

(* A synchronous call returns by its predicate only. *)
LEMMA ReturnsNotified ==
    ASSUME ControlTypes, NEW c \in Callers, [Next]_vars, Returns(c)
    PROVE  waiterNotified_
<1> USE DEF Returns
<1>0. Worker \notin Callers /\ Worker \in Threads /\ c \in Threads
  BY ReaderAssumption, WorkerState, CallersSync
<1>1. ASSUME NEW t \in Threads, NEW s, Goto(t, s)
      PROVE  t = c /\ s = "idle"
  BY <1>0, <1>1 DEF Goto, ControlTypes
<1>2. pc' # pc
  OBVIOUS
<1>3. ASSUME NEW t \in Threads, NewRead(t) \/ Refused(t) \/ StartSteps(t)
      PROVE  FALSE
  <2>1. pc[t] # "check" /\ \E s : Goto(t, s)
    BY <1>3
    DEF NewRead, Refused, StartSteps, Issue, FinishInline, MayCall
  <2> QED
    BY <1>1, <2>1
<1>4. ASSUME WorkerSteps PROVE FALSE
  <2>1. pc' = pc \/ \E s : Goto(Worker, s)
    BY <1>4
    DEF WorkerSteps, DropHandler, EnterHandler, TimeoutNotifies, Continue, ContinueSome,
        ContinueAll, ContinueUntil, GoOn, FinishHandler, ReadCallback, EnterCallback, LeaveCallback
  <2> QED
    BY <1>0, <1>1, <1>2, <2>1
<1>5. ~Environment
  BY <1>2 DEF Environment, TimerExpires, DeviceDelivers, DeviceFails, Answer
<1>6. ASSUME NEW d \in Callers, SyncSteps(d) \/ SpuriousWake(d) \/ Flush(d)
      PROVE  waiterNotified_
  <2>1. d \in Threads
    BY CallersSync
  <2>2. ~SpuriousWake(d) /\ ~Flush(d)
    BY <1>2 DEF SpuriousWake, Flush
  <2>3. ~ResetNotified(d) /\ ~Block(d) /\ ~Wake(d)
    BY <1>1, <2>1 DEF ResetNotified, Block, Wake
  <2>4. CheckNotified(d) => waiterNotified_
    BY <1>1, <2>1 DEF CheckNotified
  <2> QED
    BY <1>6, <2>2, <2>3, <2>4 DEF SyncSteps
<1>7. ~UNCHANGED vars
  BY <1>2 DEF vars
<1> QED
  BY <1>3, <1>4, <1>5, <1>6, <1>7 DEF Next

(* Without timeouts, and with one synchronous caller beside any asynchronous   *)
(* ones, read and read_until return only when the callback of their own read   *)
(* has been posted: until then nothing notifies waiter_, spurious wake-ups go   *)
(* back to sleep, and the notification of an earlier read cannot be left over, *)
(* since its caller returned by it.                                           *)
THEOREM ReturnsOver ==
    ASSUME NoWrap, NoTimeouts, OneSyncCaller
    PROVE  Spec => ReturnsWhenOver
<1>1. Init => OutcomeInv /\ UntimedInv /\ SyncInv
  <2> SUFFICES ASSUME Init PROVE OutcomeInv /\ UntimedInv /\ SyncInv
    OBVIOUS
  <2>1. /\ ready = <<>> /\ device = <<>> /\ timer_ = <<>> /\ readId_ = 0
        /\ pc = [t \in Threads |-> IF t = Worker THEN "loop" ELSE "idle"]
    BY DEF Init
  <2>2. UntimedInv
    BY <2>1, WorkerState DEF UntimedInv
  <2>3. SyncInv
    BY <2>1, CallersSync, ReaderAssumption DEF SyncInv, Starting, InSync, Waits, Busy
  <2> QED
    BY <2>2, <2>3, ReaderAssumption DEF Init, OutcomeInv, Numbered, OneOutcome, Busy
<1>2. OutcomeInv /\ [Next]_vars => OutcomeInv'
  BY StepOutcome
<1>3. Assumed /\ UntimedInv /\ SyncInv /\ [Next]_vars => UntimedInv' /\ SyncInv'
  BY StepSync
<1>4. Assumed /\ SyncInv /\ [Next]_vars
         => [\A c \in Callers : Returns(c) => Over(mine[c])]_vars
  <2> SUFFICES ASSUME Assumed, SyncInv, [Next]_vars, NEW c \in Callers, Returns(c)
               PROVE  Over(mine[c])
    OBVIOUS
  <2>1. waiterNotified_ /\ Waits(c) /\ InSync(c)
    BY ReturnsNotified DEF Assumed, TypeInv, Returns, Waits, InSync
  <2> QED
    BY <2>1 DEF SyncInv
<1>5. Assumed <=> TypeInv /\ Handling /\ OutcomeInv
  BY DEF Assumed
<1> QED
  BY <1>1, <1>2, <1>3, <1>4, <1>5, TypeInvariance, PTL DEF Spec, ReturnsWhenOver

=============================================================================
