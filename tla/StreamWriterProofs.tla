------------------------- MODULE StreamWriterProofs -------------------------
(***************************************************************************)
(* Proofs about StreamWriter, for any device, any set of threads and any    *)
(* mix of writes.                                                           *)
(***************************************************************************)
EXTENDS StreamWriter, Integers, TLAPS

(* The counter does not wrap: with the 32 bits of the build, up to 2^32 - 1  *)
(* writes.                                                                   *)
NoWrap == MaxWrites < Modulus

(* Accepted writes are numbered: the id of a write, and its buffer, are its   *)
(* place in the order of acceptance.                                         *)
Numbered ==
    /\ writes \in Seq(Writes)
    /\ posted \in Seq(Nat)
    /\ Len(writes) <= MaxWrites
    /\ writeCounter_ = Len(writes)
    /\ writeId_ \in {0, Len(writes)}
    /\ src_ = Len(writes)

OutcomeInv == Numbered /\ OneOutcome

-----------------------------------------------------------------------------
(* Short of wrapping, the counter counts. *)
LEMMA NextIdCounts == ASSUME NEW n \in Nat, n < MaxWrites, NoWrap
                      PROVE  (n + 1) % Modulus = n + 1
  BY WriterAssumption DEF NoWrap

(* new_write accepts a write only when every earlier one has its callback     *)
(* posted, and numbers it next.                                              *)
LEMMA NewWriteOutcome == ASSUME NoWrap, OutcomeInv, NEW t \in Threads, NewWrite(t)
                         PROVE  OutcomeInv'
<1> USE WriterAssumption
<1>1. PICK kind \in Kinds, size \in Sizes, timed \in Timeouts, sync \in BOOLEAN :
         writes' = Append(writes, [kind |-> kind, size |-> size, timed |-> timed, sync |-> sync])
  BY DEF NewWrite
<1>2. [kind |-> kind, size |-> size, timed |-> timed, sync |-> sync] \in Writes
  BY DEF Writes
<1>3. writes' \in Seq(Writes) /\ Len(writes') = Len(writes) + 1
  BY <1>1, <1>2 DEF OutcomeInv, Numbered
<1>4. /\ ~Busy
      /\ Len(writes) < MaxWrites
      /\ writeCounter_' = (writeCounter_ + 1) % Modulus
      /\ writeId_' = writeCounter_'
      /\ src_' = Len(writes) + 1
      /\ posted' = posted
  BY DEF NewWrite, NextId
<1>5. writeCounter_' = Len(writes) + 1
  BY <1>4, NextIdCounts DEF OutcomeInv, Numbered
<1>6. Numbered'
  BY <1>3, <1>4, <1>5 DEF OutcomeInv, Numbered
<1>7. OneOutcome'
  BY <1>3, <1>4, <1>5 DEF OutcomeInv, Numbered, OneOutcome, Busy
<1> QED
  BY <1>6, <1>7 DEF OutcomeInv

(* finish_write posts the callback of the only write that lacks one, or       *)
(* nothing.                                                                  *)
LEMMA FinishWriteOutcome ==
    ASSUME OutcomeInv, NEW err, NEW queue, FinishWrite(err, queue),
           UNCHANGED <<writeCounter_, src_, writes>>
    PROVE  OutcomeInv'
<1>1. CASE ~Busy
  BY <1>1 DEF FinishWrite, OutcomeInv, Numbered, OneOutcome, Busy
<1>2. CASE Busy
  <2>1. writeId_' = 0 /\ posted' = Append(posted, src_)
    BY <1>2 DEF FinishWrite
  <2>2. Len(writes) = Len(posted) + 1 /\ src_ = Len(posted) + 1
    BY <1>2 DEF OutcomeInv, Numbered, OneOutcome
  <2>3. posted' \in Seq(Nat) /\ Len(posted') = Len(posted) + 1
    BY <2>1, <2>2 DEF OutcomeInv, Numbered
  <2>4. \A i \in 1..Len(posted') : posted'[i] = i
    BY <2>1, <2>2, <2>3 DEF OutcomeInv, Numbered, OneOutcome
  <2> QED
    BY <2>1, <2>2, <2>3, <2>4 DEF OutcomeInv, Numbered, OneOutcome, Busy
<1> QED
  BY <1>1, <1>2

(* The other steps touch neither the identity of a write nor its outcome. *)
LEMMA SameOutcome == ASSUME OutcomeInv, UNCHANGED <<request, posted>>
                     PROVE  OutcomeInv'
  BY DEF request, OutcomeInv, Numbered, OneOutcome, Busy

(* Every step keeps the writes numbered and their outcomes unique. *)
LEMMA StepOutcome == NoWrap /\ OutcomeInv /\ [Next]_vars => OutcomeInv'
<1> SUFFICES ASSUME NoWrap, OutcomeInv, [Next]_vars PROVE OutcomeInv'
  OBVIOUS
<1>1. ASSUME NEW t \in Threads, NewWrite(t) PROVE OutcomeInv'
  BY <1>1, NewWriteOutcome
<1>2. CASE FinishHandler
  BY <1>2, FinishWriteOutcome DEF FinishHandler
<1>3. ASSUME NEW t \in Threads, Refused(t) \/ Issue(t) PROVE OutcomeInv'
  BY <1>3, SameOutcome DEF Refused, Issue
<1>4. ASSUME NEW t \in Threads, Reset(t) \/ Flush(t) \/ CloseLink(t) PROVE OutcomeInv'
  BY <1>4, SameOutcome DEF Reset, Flush, CloseLink
<1>5. ASSUME NEW t \in Threads, EnableDump(t) \/ DisableDump(t) PROVE OutcomeInv'
  BY <1>5, SameOutcome DEF EnableDump, DisableDump
<1>6. ASSUME NEW c \in Callers, SyncSteps(c) \/ SpuriousWake(c) PROVE OutcomeInv'
  BY <1>6, SameOutcome DEF SyncSteps, ResetNotified, CheckNotified, Block, Wake, SpuriousWake
<1>7. CASE DropHandler \/ EnterHandler \/ TimeoutNotifies \/ Continue
  BY <1>7, SameOutcome DEF DropHandler, EnterHandler, TimeoutNotifies, Continue
<1>8. CASE WriteCallback \/ EnterCallback \/ LeaveCallback
  BY <1>8, SameOutcome DEF WriteCallback, EnterCallback, LeaveCallback
<1>9. CASE TimerExpires \/ DeviceSteps
  BY <1>9, SameOutcome DEF TimerExpires, DeviceSteps
<1>10. CASE UNCHANGED vars
  BY <1>10, SameOutcome DEF vars
<1> QED
  BY <1>1, <1>2, <1>3, <1>4, <1>5, <1>6, <1>7, <1>8, <1>9, <1>10, Zenon
  DEF Next, UserSteps, WorkerSteps

(* Until writeCounter_ wraps, the callbacks of the accepted writes are posted *)
(* in the order of acceptance, each exactly once, whatever the threads, the   *)
(* device, its closing and the timers do: new_write and finish_write see to   *)
(* it by themselves.                                                         *)
THEOREM EachWriteOnce == ASSUME NoWrap PROVE Spec => []OneOutcome
<1>1. Init => OutcomeInv
  BY WriterAssumption DEF Init, OutcomeInv, Numbered, OneOutcome, Busy
<1>2. OutcomeInv /\ [Next]_vars => OutcomeInv'
  BY StepOutcome
<1>3. OutcomeInv => OneOutcome
  BY DEF OutcomeInv
<1> QED
  BY <1>1, <1>2, <1>3, PTL DEF Spec

-----------------------------------------------------------------------------
(* Type correctness.  TypeInv is TypeOK, in parts, and the fact that a thread  *)
(* that has to start a write knows which one; it needs Handling.              *)

DeviceTypes ==
    /\ transport \in Transports
    /\ link \in {"none", "open", "broken", "crashed"}
    /\ outgoing \in Seq(Handlers)
    /\ buffer_ \in Seq(ByteNames) /\ Len(buffer_) <= Capacity
    /\ wire \in Seq(ByteNames)
    /\ ready \in Seq(Handlers)

RequestTypes ==
    /\ writeCounter_ \in 0..(Modulus - 1)
    /\ writeId_ \in 0..(Modulus - 1)
    /\ requestedSize_ \in Nat
    /\ processed_ \in Nat
    /\ src_ \in Nat
    /\ timer_ \in Seq(Handlers)
    /\ mine \in [Threads -> Nat]
    /\ writes \in Seq(Writes)
    /\ posted \in Seq(Nat)

ControlTypes ==
    /\ mutex_ \in Callers \cup {NoOwner}
    /\ waiterNotified_ \in BOOLEAN
    /\ waiting \subseteq Callers
    /\ pc \in [Threads -> CallerStates \cup WorkerStates]

DumpTypes ==
    /\ dumping \in BOOLEAN
    /\ dumped \in Seq(ByteNames)

Issuing == \A t \in Threads : pc[t] = "issue" => mine[t] \in 1..Len(writes)

(* A handler stays at the head of the queue while it is executed. *)
Handling == InHandler => ready # <<>>

TypeInv == DeviceTypes /\ RequestTypes /\ ControlTypes /\ DumpTypes /\ Issuing

(* The sequence operations used on queues keep the type of their elements. *)
LEMMA AppendType == ASSUME NEW S, NEW s \in Seq(S), NEW e \in S
                    PROVE  Append(s, e) \in Seq(S)
  OBVIOUS

LEMMA ConcatType == ASSUME NEW S, NEW s \in Seq(S), NEW t \in Seq(S)
                    PROVE  s \o t \in Seq(S) /\ Len(s \o t) = Len(s) + Len(t)
  OBVIOUS

LEMMA QueueType == ASSUME NEW S, NEW s \in Seq(S), s # <<>>
                   PROVE  Head(s) \in S /\ Tail(s) \in Seq(S)
  OBVIOUS

LEMMA LenType == ASSUME NEW S, NEW s \in Seq(S)
                 PROVE  Len(s) \in Nat /\ \A i \in 1..Len(s) : s[i] \in S
  OBVIOUS

LEMMA FunctionType == ASSUME NEW S, NEW n \in Nat, NEW f \in [1..n -> S]
                      PROVE  f \in Seq(S)
  OBVIOUS

(* An answer is an operation again. *)
LEMMA AnsweredType == ASSUME NEW op \in Handlers, NEW n \in Nat, NEW err \in BOOLEAN
                      PROVE  Answered(op, n, err) \in Handlers
  BY DEF Answered, Handlers

(* The bytes of an operation are as many as it says, and are bytes. *)
LEMMA BytesType == ASSUME NEW op \in Handlers, NEW n \in Nat
                   PROVE  Bytes(op, n) \in Seq(ByteNames) /\ Len(Bytes(op, n)) = n
<1>1. \A i \in 1..n : <<op.src, op.from + i>> \in ByteNames
  BY DEF Handlers, ByteNames
<1>2. Bytes(op, n) \in [1..n -> ByteNames]
  BY <1>1 DEF Bytes
<1> QED
  BY <1>2

(* A device that is given an operation keeps its types. *)
LEMMA WriteSomeTypes ==
    ASSUME DeviceTypes, NEW op \in Handlers, NEW queue \in Seq(Handlers),
           AsyncWriteSome(op, queue), transport' = transport
    PROVE  DeviceTypes'
<1> USE DEF DeviceTypes
<1>1. CASE transport = "string" /\ StringWrite(op, queue) /\ UNCHANGED <<link, outgoing>>
  <2> DEFINE room == Capacity - Len(buffer_)
             n    == IF op.n < room THEN op.n ELSE room
  <2>1. n \in Nat /\ Len(buffer_) + n <= Capacity
    BY DevicesAssumption DEF Handlers
  <2>2. /\ buffer_' = buffer_ \o Bytes(op, n)
        /\ wire' = wire \o Bytes(op, n)
        /\ ready' = Append(queue, Answered(op, n, FALSE))
    BY <1>1 DEF StringWrite
  <2> HIDE DEF n
  <2>3. Bytes(op, n) \in Seq(ByteNames) /\ Len(Bytes(op, n)) = n
    BY <2>1, BytesType
  <2>4. Answered(op, n, FALSE) \in Handlers
    BY <2>1, AnsweredType
  <2>5. /\ buffer_ \o Bytes(op, n) \in Seq(ByteNames)
        /\ Len(buffer_ \o Bytes(op, n)) = Len(buffer_) + n
        /\ wire \o Bytes(op, n) \in Seq(ByteNames)
    BY <2>3, ConcatType, Zenon
  <2>6. Append(queue, Answered(op, n, FALSE)) \in Seq(Handlers)
    BY <2>4, AppendType, Zenon
  <2> QED
    BY <1>1, <2>1, <2>2, <2>5, <2>6, Zenon
<1>2. CASE /\ outgoing' = Append(outgoing, op) /\ ready' = queue
           /\ UNCHANGED <<link, buffer_, wire>>
  BY <1>2
<1>3. CASE /\ link' = "crashed" /\ ready' = queue
           /\ UNCHANGED <<outgoing, buffer_, wire>>
  BY <1>3
<1> QED
  BY <1>1, <1>2, <1>3 DEF AsyncWriteSome

(* So does cancel(), which moves what was outstanding to the service. *)
LEMMA CancelTypes == ASSUME DeviceTypes, Cancel
                     PROVE  ready' \in Seq(Handlers) /\ outgoing' \in Seq(Handlers)
<1> DEFINE answers == [i \in 1..Len(outgoing) |-> Answered(outgoing[i], 0, TRUE)]
<1>1. ready' = ready \o answers /\ outgoing' = <<>>
  BY DEF Cancel
<1>2. \A i \in 1..Len(outgoing) : Answered(outgoing[i], 0, TRUE) \in Handlers
  <2> SUFFICES ASSUME NEW i \in 1..Len(outgoing)
               PROVE  Answered(outgoing[i], 0, TRUE) \in Handlers
    OBVIOUS
  <2>1. outgoing[i] \in Handlers
    BY LenType DEF DeviceTypes
  <2> QED
    BY <2>1, AnsweredType
<1>3. Len(outgoing) \in Nat
  BY LenType DEF DeviceTypes
<1>4. answers \in [1..Len(outgoing) -> Handlers]
  BY <1>2, Zenon
<1> HIDE DEF answers
<1>5. answers \in Seq(Handlers)
  BY <1>3, <1>4, FunctionType, Zenon
<1>7. ready \o answers \in Seq(Handlers)
  BY <1>5, ConcatType, Zenon DEF DeviceTypes
<1>6. <<>> \in Seq(Handlers)
  OBVIOUS
<1> QED
  BY <1>1, <1>6, <1>7, Zenon

(* close(), reset() and flush(). *)
LEMMA ControlDeviceTypes == ASSUME DeviceTypes, Close \/ ResetDevice \/ FlushDevice
                            PROVE  DeviceTypes'
<1>1. CASE Close
  <2>1. /\ Cancel /\ link' \in {"broken", "none"}
        /\ UNCHANGED <<transport, buffer_, wire>>
    BY <1>1 DEF Close, CloseTCP, CloseSerial
  <2> QED
    BY <2>1, CancelTypes DEF DeviceTypes
<1>2. CASE ResetDevice
  <2>1. CASE ResetTCP \/ ResetSerial
    <3>1. /\ Cancel /\ link' \in {"open", "broken", "none"}
          /\ UNCHANGED <<transport, buffer_, wire>>
      BY <1>2, <2>1 DEF ResetDevice, ResetTCP, ResetSerial
    <3> QED
      BY <3>1, CancelTypes DEF DeviceTypes
  <2>2. CASE ResetString
    BY <1>2, <2>2, DevicesAssumption DEF ResetDevice, ResetString, DeviceTypes
  <2> QED
    BY <1>2, <2>1, <2>2 DEF ResetDevice
<1>3. CASE FlushDevice
  <2>1. <<>> \in Seq(ByteNames) /\ Len(<<>>) <= Capacity
    BY DevicesAssumption
  <2>2. UNCHANGED <<transport, outgoing, wire, ready>>
    BY <1>3 DEF FlushDevice
  <2>3. link' \in {"none", "open", "broken", "crashed"}
    BY <1>3 DEF FlushDevice, FlushSerial, FlushString, DeviceTypes
  <2>4. buffer_' = buffer_ \/ buffer_' = <<>>
    BY <1>3 DEF FlushDevice, FlushSerial, FlushString
  <2> QED
    BY <2>1, <2>2, <2>3, <2>4 DEF DeviceTypes
<1> QED
  BY <1>1, <1>2, <1>3

(* The answers of the device and the breaking of its link. *)
LEMMA DeviceStepTypes == ASSUME DeviceTypes, DeviceTakes \/ DeviceFails \/ LinkBreaks
                         PROVE  DeviceTypes'
<1>1. ASSUME outgoing # <<>>, NEW n \in Nat, NEW err \in BOOLEAN, Answer(n, err)
      PROVE  DeviceTypes'
  <2>1. Head(outgoing) \in Handlers /\ Tail(outgoing) \in Seq(Handlers)
    BY <1>1 DEF DeviceTypes
  <2>2. Answered(Head(outgoing), n, err) \in Handlers
    BY <2>1 DEF Answered, Handlers
  <2>3. Bytes(Head(outgoing), n) \in Seq(ByteNames)
    BY <2>1, BytesType
  <2> QED
    BY <1>1, <2>1, <2>2, <2>3 DEF Answer, lifecycle, DeviceTypes
<1>2. CASE DeviceTakes
  <2>1. outgoing # <<>> /\ Head(outgoing) \in Handlers
    BY <1>2 DEF DeviceTakes, DeviceTypes
  <2>2. PICK n \in 0..Head(outgoing).n : Answer(n, FALSE)
    BY <1>2 DEF DeviceTakes
  <2>3. n \in Nat
    BY <2>1, <2>2 DEF Handlers
  <2> QED
    BY <1>1, <2>1, <2>2, <2>3
<1>3. CASE DeviceFails
  BY <1>1, <1>3 DEF DeviceFails
<1>4. CASE LinkBreaks
  BY <1>4 DEF LinkBreaks, DeviceTypes
<1> QED
  BY <1>2, <1>3, <1>4

(* So is what do_write_some gives to the device. *)
LEMMA WriteSomeOp ==
    ASSUME DumpTypes, NEW n \in Nat, NEW src \in Nat, NEW from \in Nat, NEW id \in Nat,
           NEW kind \in Kinds
    PROVE  [Handler("continue", id, src, kind) EXCEPT !.from = from, !.n = n, !.dump = dumping]
              \in Handlers
  BY DEF DumpTypes, Handler, Handlers

LEMMA DoWriteSomeTypes ==
    ASSUME DeviceTypes, DumpTypes, NEW n \in Nat, NEW src \in Nat, NEW from \in Nat,
           NEW id \in Nat, NEW kind \in Kinds, NEW queue \in Seq(Handlers),
           DoWriteSome(n, src, from, id, kind, queue), transport' = transport
    PROVE  DeviceTypes'
  BY WriteSomeOp, WriteSomeTypes, Zenon DEF DoWriteSome

(* What a step leaves alone keeps its types. *)
LEMMA SameDevice == ASSUME DeviceTypes, UNCHANGED <<device, ready>> PROVE DeviceTypes'
  BY DEF DeviceTypes, device, lifecycle

LEMMA NewQueue == ASSUME DeviceTypes, UNCHANGED device, ready' \in Seq(Handlers)
                  PROVE  DeviceTypes'
  BY DEF DeviceTypes, device, lifecycle

LEMMA SameRequest == ASSUME RequestTypes, UNCHANGED <<request, processed_, timer_, posted>>
                     PROVE  RequestTypes'
  BY DEF RequestTypes, request

LEMMA SameControl == ASSUME ControlTypes, UNCHANGED <<waiter, pc>> PROVE ControlTypes'
  BY DEF ControlTypes, waiter

LEMMA SameDump == ASSUME DumpTypes, UNCHANGED <<dumping, dumped>> PROVE DumpTypes'
  BY DEF DumpTypes

LEMMA SameIssuing ==
    ASSUME Issuing, UNCHANGED <<mine, writes>>,
           \A t \in Threads : pc'[t] = "issue" => pc[t] = "issue"
    PROVE  Issuing'
  BY DEF Issuing, Threads

(* A thread that goes on, to a state in which nothing is to be issued. *)
LEMMA MovedControl ==
    ASSUME ControlTypes, UNCHANGED waiter, NEW t \in Threads,
           NEW s \in CallerStates \cup WorkerStates, Goto(t, s)
    PROVE  /\ ControlTypes'
           /\ s # "issue" => \A u \in Threads : pc'[u] = "issue" => pc[u] = "issue"
  BY DEF ControlTypes, waiter, Goto

(* The start of a write. *)
LEMMA NewWriteTypes == ASSUME TypeInv, NEW t \in Threads, NewWrite(t)
                       PROVE  TypeInv'
<1> USE WriterAssumption
<1>1. PICK kind \in Kinds, size \in Sizes, timed \in Timeouts, sync \in BOOLEAN :
         /\ MayCall(t, sync)
         /\ requestedSize_' = size
         /\ writes' = Append(writes, [kind |-> kind, size |-> size, timed |-> timed,
                                      sync |-> sync])
         /\ IF timed THEN Arm(NextId, Len(writes) + 1) ELSE UNCHANGED <<ready, timer_>>
         /\ mutex_' = IF sync THEN t ELSE mutex_
  BY Zenon DEF NewWrite
<1>2. /\ writeCounter_' = NextId
      /\ writeId_' = NextId
      /\ processed_' = 0
      /\ src_' = Len(writes) + 1
      /\ mine' = [mine EXCEPT ![t] = Len(writes) + 1]
      /\ Goto(t, "issue")
      /\ UNCHANGED <<waiterNotified_, waiting, device, dump, posted>>
  BY Zenon DEF NewWrite
<1>3. NextId \in 0..(Modulus - 1) /\ NextId \in Nat
  BY DEF NextId, TypeInv, RequestTypes
<1>4. Len(writes) + 1 \in Nat /\ Len(writes) \in Nat
  BY DEF TypeInv, RequestTypes
<1>5. writes' \in Seq(Writes) /\ Len(writes') = Len(writes) + 1
  <2>1. [kind |-> kind, size |-> size, timed |-> timed, sync |-> sync] \in Writes
    BY DEF Writes
  <2> QED
    BY <1>1, <2>1 DEF TypeInv, RequestTypes
<1>6. ready' \in Seq(Handlers) /\ timer_' \in Seq(Handlers)
  <2>1. TimeoutReached(NextId, Len(writes) + 1) \in Handlers
    BY <1>3, <1>4 DEF TimeoutReached, Handler, Handlers
  <2>2. <<TimeoutReached(NextId, Len(writes) + 1)>> \in Seq(Handlers)
    BY <2>1
  <2>3. ready \o timer_ \in Seq(Handlers)
    BY ConcatType DEF TypeInv, RequestTypes, DeviceTypes
  <2>4. CASE timed
    BY <1>1, <2>2, <2>3, <2>4 DEF Arm
  <2>5. CASE ~timed
    BY <1>1, <2>5 DEF TypeInv, RequestTypes, DeviceTypes
  <2> QED
    BY <2>4, <2>5
<1>7. DeviceTypes' /\ DumpTypes'
  BY <1>2, <1>6, NewQueue, SameDump DEF TypeInv, dump
<1>8. RequestTypes'
  BY <1>1, <1>2, <1>3, <1>4, <1>5, <1>6 DEF TypeInv, RequestTypes
<1>9. ControlTypes'
  BY <1>1, <1>2 DEF TypeInv, ControlTypes, Goto, MayCall, CallerStates
<1>10. Issuing'
  <2> SUFFICES ASSUME NEW u \in Threads, pc'[u] = "issue"
               PROVE  mine'[u] \in 1..Len(writes')
    BY DEF Issuing
  <2>1. CASE u = t
    BY <1>2, <1>4, <1>5, <2>1 DEF TypeInv, RequestTypes
  <2>2. CASE u # t
    <3>1. pc[u] = "issue" /\ mine'[u] = mine[u]
      BY <1>2, <2>2 DEF Goto, TypeInv, ControlTypes, RequestTypes
    <3>2. mine[u] \in 1..Len(writes)
      BY <3>1 DEF TypeInv, Issuing
    <3> QED
      BY <1>4, <1>5, <3>1, <3>2
  <2> QED
    BY <2>1, <2>2
<1> QED
  BY <1>7, <1>8, <1>9, <1>10 DEF TypeInv

LEMMA IssueTypes == ASSUME TypeInv, NEW t \in Threads, Issue(t)
                    PROVE  TypeInv'
<1>1. /\ pc[t] = "issue"
      /\ DoWriteSome(requestedSize_, src_, 0, writeId_, writes[mine[t]].kind, ready)
      /\ Goto(t, Started(t))
      /\ UNCHANGED <<transport, resets, request, processed_, timer_, waiter, dump, posted>>
  BY Zenon DEF Issue
<1>2. writes[mine[t]].kind \in Kinds
  <2>1. mine[t] \in 1..Len(writes) /\ writes \in Seq(Writes)
    BY <1>1 DEF TypeInv, Issuing, RequestTypes
  <2>2. writes[mine[t]] \in Writes
    BY <2>1, LenType
  <2> QED
    BY <2>2 DEF Writes
<1>3. /\ requestedSize_ \in Nat /\ src_ \in Nat /\ writeId_ \in Nat /\ 0 \in Nat
      /\ ready \in Seq(Handlers)
  BY WriterAssumption DEF TypeInv, RequestTypes, DeviceTypes
<1>4. DeviceTypes'
  BY <1>1, <1>2, <1>3, DoWriteSomeTypes, Zenon DEF TypeInv
<1>5. Started(t) \in (CallerStates \cup WorkerStates) \ {"issue"}
  BY DEF Started, CallerStates, WorkerStates
<1> QED
  BY <1>1, <1>4, <1>5, SameRequest, MovedControl, SameDump, SameIssuing
  DEF TypeInv, dump, request

(* The end of a write. *)
LEMMA FinishWriteTypes ==
    ASSUME DeviceTypes, RequestTypes, NEW err \in BOOLEAN, NEW queue \in Seq(Handlers),
           FinishWrite(err, queue), UNCHANGED <<device, writeCounter_, requestedSize_, src_,
                                                writes, mine, processed_, timer_>>
    PROVE  DeviceTypes' /\ RequestTypes'
<1>1. CASE ~Busy
  BY <1>1, NewQueue, SameRequest DEF FinishWrite, Busy, request
<1>2. CASE Busy
  <2>1. /\ writeId_' = 0
        /\ ready' = Append(queue, UserCallback(err))
        /\ posted' = Append(posted, src_)
    BY <1>2 DEF FinishWrite
  <2>2. UserCallback(err) \in Handlers
    BY DEF UserCallback, Handler, Handlers, RequestTypes
  <2>3. ready' \in Seq(Handlers) /\ posted' \in Seq(Nat)
    BY <2>1, <2>2, AppendType DEF RequestTypes
  <2>4. 0 \in 0..(Modulus - 1)
    BY WriterAssumption
  <2> QED
    BY <2>1, <2>3, <2>4, NewQueue DEF RequestTypes
<1> QED
  BY <1>1, <1>2

(* The handlers. *)
LEMMA WorkerState == Worker \in Threads /\ \A s \in WorkerStates : s \in CallerStates \cup WorkerStates
  BY DEF Threads

(* dump_callback. *)
LEMMA DumpedTypes == ASSUME DumpTypes, NEW handler \in Handlers, DumpCallback(handler),
                            dumping' = dumping
                     PROVE  DumpTypes'
<1>1. handler.n \in Nat
  BY DEF Handlers
<1>2. Bytes(handler, handler.n) \in Seq(ByteNames)
  BY <1>1, BytesType
<1>3. dumped \o Bytes(handler, handler.n) \in Seq(ByteNames)
  BY <1>2, ConcatType DEF DumpTypes
<1> QED
  BY <1>3 DEF DumpCallback, DumpTypes

LEMMA DispatchTypes == ASSUME TypeInv, DropHandler \/ EnterHandler
                       PROVE  TypeInv'
<1>1. /\ ready # <<>>
      /\ DumpCallback(Head(ready))
      /\ ready' = Tail(ready) \/ ready' = ready
      /\ UNCHANGED <<device, request, processed_, timer_, waiter, dumping, dumps, posted>>
  BY Zenon DEF DropHandler, EnterHandler
<1>2. Head(ready) \in Handlers /\ Tail(ready) \in Seq(Handlers)
  BY <1>1, QueueType DEF TypeInv, DeviceTypes
<1>3. DeviceTypes' /\ RequestTypes' /\ DumpTypes'
  BY <1>1, <1>2, NewQueue, SameRequest, DumpedTypes DEF TypeInv, DeviceTypes
<1>4. ControlTypes' /\ \A u \in Threads : pc'[u] = "issue" => pc[u] = "issue"
  <2>1. CASE DropHandler
    BY <2>1, SameControl DEF DropHandler, TypeInv
  <2>2. CASE EnterHandler
    <3>1. PICK s \in {"continue", "timeout"} : Goto(Worker, s)
      BY <2>2 DEF EnterHandler
    <3> QED
      BY <1>1, <3>1, MovedControl, WorkerState DEF TypeInv, WorkerStates
  <2> QED
    BY <2>1, <2>2
<1> QED
  BY <1>1, <1>3, <1>4, SameIssuing DEF TypeInv, request

LEMMA FinishHandlerTypes == ASSUME TypeInv, Handling, FinishHandler
                            PROVE  TypeInv'
<1>1. /\ FinishWrite(Head(ready).err, Tail(ready))
      /\ Goto(Worker, "loop")
      /\ UNCHANGED <<device, writeCounter_, requestedSize_, src_, writes, mine, processed_,
                     timer_, waiter, dump>>
  BY Zenon DEF FinishHandler
<1>2. ready # <<>>
  BY DEF FinishHandler, Handling, InHandler
<1>3. Head(ready) \in Handlers /\ Tail(ready) \in Seq(Handlers)
  BY <1>2, QueueType DEF TypeInv, DeviceTypes
<1>4. Head(ready).err \in BOOLEAN
  BY <1>3 DEF Handlers
<1>5. DeviceTypes' /\ RequestTypes'
  BY <1>1, <1>3, <1>4, FinishWriteTypes DEF TypeInv
<1>6. ControlTypes' /\ \A u \in Threads : pc'[u] = "issue" => pc[u] = "issue"
  BY <1>1, MovedControl, WorkerState DEF TypeInv, WorkerStates
<1> QED
  BY <1>1, <1>5, <1>6, SameDump, SameIssuing DEF TypeInv, dump

LEMMA ContinueTypes == ASSUME TypeInv, Handling, Continue
                       PROVE  TypeInv'
<1> DEFINE handler == Head(ready)
           total   == processed_ + handler.n
<1>1. ready # <<>> /\ UNCHANGED <<transport, resets, request, timer_, waiter, dump, posted>>
  BY DEF Continue, Handling, InHandler
<1>2. handler \in Handlers /\ Tail(ready) \in Seq(Handlers)
  BY <1>1, QueueType DEF TypeInv, DeviceTypes
<1>3. /\ handler.n \in Nat /\ handler.id \in Nat /\ total \in Nat /\ requestedSize_ \in Nat
      /\ src_ \in Nat
  <2>1. handler.n \in Nat /\ handler.id \in Nat
    BY <1>2 DEF Handlers
  <2>2. processed_ \in Nat /\ requestedSize_ \in Nat /\ src_ \in Nat
    BY DEF TypeInv, RequestTypes
  <2> HIDE DEF handler
  <2> QED
    BY <2>1, <2>2
<1>4. \/ /\ processed_' \in {handler.n, total}
         /\ Goto(Worker, "end")
         /\ UNCHANGED <<link, outgoing, buffer_, wire, ready>>
      \/ /\ handler.kind = "all" /\ processed_' = total /\ total < requestedSize_
         /\ DoWriteSome(requestedSize_ - total, src_, total, handler.id, handler.kind,
                        Tail(ready))
         /\ Goto(Worker, "loop")
  BY Zenon DEF Continue, ContinueSome, ContinueAll
<1> HIDE DEF handler, total
<1>5. processed_' \in Nat
  BY <1>3, <1>4
<1>6. RequestTypes' /\ DumpTypes'
  BY <1>1, <1>5, SameDump DEF TypeInv, RequestTypes, request, dump
<1>7. DeviceTypes'
  <2>1. CASE UNCHANGED <<link, outgoing, buffer_, wire, ready>>
    BY <1>1, <2>1 DEF TypeInv, DeviceTypes
  <2>2. CASE /\ handler.kind = "all" /\ total < requestedSize_
             /\ DoWriteSome(requestedSize_ - total, src_, total, handler.id, handler.kind,
                            Tail(ready))
    <3>1. requestedSize_ - total \in Nat
      BY <1>3, <2>2
    <3>2. handler.kind \in Kinds
      BY <1>2, <2>2 DEF Handlers
    <3> QED
      BY <1>1, <1>2, <1>3, <2>2, <3>1, <3>2, DoWriteSomeTypes, Zenon DEF TypeInv
  <2> QED
    BY <1>4, <2>1, <2>2
<1>8. ControlTypes' /\ \A u \in Threads : pc'[u] = "issue" => pc[u] = "issue"
  <2>1. PICK s \in {"end", "loop"} : Goto(Worker, s)
    BY <1>4
  <2> QED
    BY <1>1, <2>1, MovedControl, WorkerState DEF TypeInv, WorkerStates
<1> QED
  BY <1>1, <1>6, <1>7, <1>8, SameIssuing DEF TypeInv, request

LEMMA CallbackTypes ==
    ASSUME TypeInv, TimeoutNotifies \/ WriteCallback \/ EnterCallback \/ LeaveCallback
    PROVE  TypeInv'
<1>1. /\ ready' = ready \/ (ready # <<>> /\ ready' = Tail(ready))
      /\ UNCHANGED <<device, request, processed_, timer_, mutex_, dump, posted>>
  BY DEF TimeoutNotifies, WriteCallback, EnterCallback, LeaveCallback, waiter
<1>2. ready' \in Seq(Handlers)
  BY <1>1, QueueType DEF TypeInv, DeviceTypes
<1>3. DeviceTypes' /\ RequestTypes' /\ DumpTypes'
  BY <1>1, <1>2, NewQueue, SameRequest, SameDump DEF TypeInv, dump
<1>4. waiterNotified_' \in BOOLEAN /\ waiting' \subseteq Callers
  BY DEF TimeoutNotifies, WriteCallback, EnterCallback, LeaveCallback, waiter, TypeInv,
         ControlTypes
<1>5. pc' = pc \/ \E s \in {"end", "callback", "loop"} : Goto(Worker, s)
  BY DEF TimeoutNotifies, WriteCallback, EnterCallback, LeaveCallback
<1>6. /\ pc' \in [Threads -> CallerStates \cup WorkerStates]
      /\ \A u \in Threads : pc'[u] = "issue" => pc[u] = "issue"
  BY <1>5, WorkerState DEF TypeInv, ControlTypes, Goto, WorkerStates
<1> QED
  BY <1>1, <1>3, <1>4, <1>6, SameIssuing DEF TypeInv, ControlTypes, request

(* The steps of write(). *)
LEMMA SyncTypes == ASSUME TypeInv, NEW c \in Callers, SyncSteps(c) \/ SpuriousWake(c)
                   PROVE  TypeInv'
<1>1. UNCHANGED <<device, ready, request, processed_, timer_, dump, posted>>
  BY DEF SyncSteps, ResetNotified, CheckNotified, Block, Wake, SpuriousWake
<1>2. /\ mutex_' \in {mutex_, NoOwner, c}
      /\ waiterNotified_' \in {waiterNotified_, FALSE}
      /\ waiting' \subseteq waiting \cup {c}
  BY DEF SyncSteps, ResetNotified, CheckNotified, Block, Wake, SpuriousWake
<1>3. pc' = pc \/ \E s \in {"check", "idle", "block", "asleep"} : Goto(c, s)
  BY DEF SyncSteps, ResetNotified, CheckNotified, Block, Wake, SpuriousWake
<1>4. /\ pc' \in [Threads -> CallerStates \cup WorkerStates]
      /\ \A u \in Threads : pc'[u] = "issue" => pc[u] = "issue"
  BY <1>3 DEF TypeInv, ControlTypes, Goto, CallerStates, Threads
<1>5. ControlTypes'
  BY <1>2, <1>4 DEF TypeInv, ControlTypes
<1> QED
  BY <1>1, <1>4, <1>5, SameDevice, SameRequest, SameDump, SameIssuing
  DEF TypeInv, request, dump

(* The other calls of the user, and the environment. *)
LEMMA UserTypes ==
    ASSUME TypeInv, NEW t \in Threads,
           \/ Refused(t) \/ Reset(t) \/ Flush(t) \/ CloseLink(t)
           \/ EnableDump(t) \/ DisableDump(t)
    PROVE  TypeInv'
<1>1. UNCHANGED <<request, processed_, timer_, waiter, posted>>
  BY DEF Refused, Reset, Flush, CloseLink, EnableDump, DisableDump
<1>2. DeviceTypes'
  BY ControlDeviceTypes, SameDevice
  DEF Refused, Reset, Flush, CloseLink, EnableDump, DisableDump, TypeInv
<1>3. DumpTypes'
  <2>1. <<>> \in Seq(ByteNames)
    OBVIOUS
  <2>2. dumping' \in {dumping, TRUE, FALSE} /\ dumped' \in {dumped, <<>>}
    BY DEF Refused, Reset, Flush, CloseLink, EnableDump, DisableDump, dump
  <2> QED
    BY <2>1, <2>2, Zenon DEF TypeInv, DumpTypes
<1>4. pc' = pc \/ \E s \in {"loop", "idle"} : Goto(t, s)
  BY DEF Refused, Reset, Flush, CloseLink, EnableDump, DisableDump
<1>5. ControlTypes' /\ \A u \in Threads : pc'[u] = "issue" => pc[u] = "issue"
  BY <1>1, <1>4, SameControl, MovedControl DEF TypeInv, CallerStates, WorkerStates
<1> QED
  BY <1>1, <1>2, <1>3, <1>5, SameRequest, SameIssuing DEF TypeInv, request

LEMMA EnvironmentTypes == ASSUME TypeInv, TimerExpires \/ DeviceSteps
                          PROVE  TypeInv'
<1>1. CASE TimerExpires
  <2>1. /\ ready' = ready \o timer_ /\ timer_' = <<>>
        /\ UNCHANGED <<device, request, processed_, waiter, dump, pc, posted>>
    BY <1>1 DEF TimerExpires
  <2>2. ready' \in Seq(Handlers)
    BY <2>1, ConcatType DEF TypeInv, DeviceTypes, RequestTypes
  <2>3. RequestTypes'
    BY <2>1 DEF TypeInv, RequestTypes, request
  <2> QED
    BY <2>1, <2>2, <2>3, NewQueue, SameControl, SameDump, SameIssuing
    DEF TypeInv, request, dump
<1>2. CASE DeviceSteps
  <2>1. /\ DeviceTakes \/ DeviceFails \/ LinkBreaks
        /\ UNCHANGED <<request, processed_, timer_, waiter, dump, pc, posted>>
    BY <1>2 DEF DeviceSteps
  <2> QED
    BY <2>1, DeviceStepTypes, SameRequest, SameControl, SameDump, SameIssuing
    DEF TypeInv, request, dump
<1> QED
  BY <1>1, <1>2

-----------------------------------------------------------------------------
(* Between two steps of the worker, handlers join the queue at its end only.   *)

Others ==
    \/ \E t \in Threads : \/ Issue(t) \/ Reset(t) \/ Flush(t) \/ CloseLink(t)
                          \/ EnableDump(t) \/ DisableDump(t) \/ NewWrite(t) \/ Refused(t)
    \/ \E c \in Callers : SyncSteps(c) \/ SpuriousWake(c)
    \/ TimerExpires
    \/ DeviceSteps

Joins(new) == new \in Seq(Handlers) /\ ready' = ready \o new

LEMMA KeptQueue == ASSUME TypeInv, UNCHANGED ready PROVE Joins(<<>>)
  BY DEF TypeInv, DeviceTypes, Joins

LEMMA AppendedQueue == ASSUME TypeInv, NEW op \in Handlers, ready' = Append(ready, op)
                       PROVE  Joins(<<op>>)
<1>1. <<op>> \in Seq(Handlers)
  OBVIOUS
<1>2. Append(ready, op) = ready \o <<op>>
  BY DEF TypeInv, DeviceTypes
<1> QED
  BY <1>1, <1>2 DEF Joins

(* A handler that is at the head of the queue stays there. *)
HeadKept == ready # <<>> => ready' # <<>> /\ Head(ready') = Head(ready)

LEMMA HeadStays == ASSUME TypeInv, NEW new, Joins(new)
                   PROVE  HeadKept
<1>1. /\ ready \in Seq(Handlers) /\ new \in Seq(Handlers)
      /\ ready' = ready \o new
  BY DEF TypeInv, DeviceTypes, Joins
<1>2. ASSUME NEW S, NEW s \in Seq(S), NEW r \in Seq(S), s # <<>>
      PROVE  s \o r # <<>> /\ Head(s \o r) = Head(s)
  BY <1>2
<1> QED
  BY <1>1, <1>2, Zenon DEF HeadKept

LEMMA CancelJoins == ASSUME TypeInv, Cancel, NEW S, outgoing \in Seq(S), S \subseteq Handlers,
                            \A op \in S : Answered(op, 0, TRUE) \in S
                     PROVE  /\ \E new \in Seq(S) : Joins(new)
                            /\ outgoing' = <<>>
<1> DEFINE answers == [i \in 1..Len(outgoing) |-> Answered(outgoing[i], 0, TRUE)]
<1>1. ready' = ready \o answers /\ outgoing' = <<>>
  BY DEF Cancel
<1>2. Len(outgoing) \in Nat /\ \A i \in 1..Len(outgoing) : Answered(outgoing[i], 0, TRUE) \in S
  BY LenType
<1>3. answers \in [1..Len(outgoing) -> S]
  BY <1>2, Zenon
<1> HIDE DEF answers
<1>4. answers \in Seq(S)
  BY <1>2, <1>3, FunctionType, Zenon
<1>5. \A s \in Seq(S) : s \in Seq(Handlers)
  OBVIOUS
<1> QED
  BY <1>1, <1>4, <1>5, Zenon DEF Joins

LEMMA ControlHead == ASSUME TypeInv, Close \/ ResetDevice \/ FlushDevice
                     PROVE  HeadKept
<1>1. CASE Cancel
  <2>1. \A op \in Handlers : Answered(op, 0, TRUE) \in Handlers
    BY AnsweredType
  <2>2. \E new \in Seq(Handlers) : Joins(new)
    BY <1>1, <2>1, CancelJoins, Zenon DEF TypeInv, DeviceTypes
  <2> QED
    BY <2>2, HeadStays
<1>2. CASE UNCHANGED ready
  BY <1>2 DEF HeadKept
<1>3. Cancel \/ UNCHANGED ready
  BY DEF Close, CloseTCP, CloseSerial, ResetDevice, ResetTCP, ResetSerial, ResetString,
         FlushDevice
<1> QED
  BY <1>1, <1>2, <1>3

LEMMA OthersKeepHead == ASSUME TypeInv, Others
                        PROVE  HeadKept
<1>1. ASSUME NEW t \in Threads, Issue(t)
      PROVE  HeadKept
  <2>1. PICK op : AsyncWriteSome(op, ready) /\ op = [Handler("continue", writeId_, src_, writes[mine[t]].kind)
                       EXCEPT !.from = 0, !.n = requestedSize_, !.dump = dumping]
    BY <1>1 DEF Issue, DoWriteSome
  <2>2. CASE UNCHANGED ready
    BY <2>2 DEF HeadKept
  <2>3. CASE \E e : ready' = Append(ready, e)
    BY <2>3 DEF TypeInv, DeviceTypes, HeadKept
  <2> QED
    BY <2>1, <2>2, <2>3 DEF AsyncWriteSome, StringWrite
<1>2. ASSUME NEW t \in Threads, Reset(t) \/ Flush(t) \/ CloseLink(t)
      PROVE  HeadKept
  BY <1>2, ControlHead DEF Reset, Flush, CloseLink
<1>3. CASE ready' = ready \o timer_
  BY <1>3, HeadStays DEF Joins, TypeInv, RequestTypes
<1>4. CASE UNCHANGED ready
  BY <1>4 DEF HeadKept
<1>5. ASSUME NEW t \in Threads, EnableDump(t) \/ DisableDump(t) \/ NewWrite(t) \/ Refused(t)
      PROVE  HeadKept
  BY <1>3, <1>4, <1>5 DEF EnableDump, DisableDump, NewWrite, Refused, Arm
<1>6. ASSUME NEW c \in Callers, SyncSteps(c) \/ SpuriousWake(c)
      PROVE  HeadKept
  BY <1>4, <1>6 DEF SyncSteps, ResetNotified, CheckNotified, Block, Wake, SpuriousWake
<1>7. CASE TimerExpires
  BY <1>3, <1>7 DEF TimerExpires
<1>8. CASE DeviceSteps
  <2>1. CASE \E e : ready' = Append(ready, e)
    BY <2>1 DEF TypeInv, DeviceTypes, HeadKept
  <2> QED
    BY <1>4, <1>8, <2>1 DEF DeviceSteps, DeviceTakes, DeviceFails, LinkBreaks, Answer
<1> QED
  BY <1>1, <1>2, <1>5, <1>6, <1>7, <1>8 DEF Others

(* None of them takes the worker into a handler. *)
LEMMA OthersEnterNone == ASSUME TypeInv, Others
                         PROVE  /\ InHandler' => InHandler
                                /\ InHandler => pc'[Worker] = pc[Worker]
<1>0. pc \in [Threads -> CallerStates \cup WorkerStates] /\ Worker \in Threads /\ Worker \notin Callers
  BY WriterAssumption DEF TypeInv, ControlTypes, Threads
<1>1. ASSUME NEW t \in Threads,
             NEW s \in {"issue", "idle", "loop", "reset", "check", "block", "asleep"},
             Goto(t, s), t = Worker => ~InHandler
      PROVE  (InHandler' => InHandler) /\ (InHandler => pc'[Worker] = pc[Worker])
  BY <1>0, <1>1 DEF InHandler, Goto
<1>2. CASE UNCHANGED pc
  BY <1>2 DEF InHandler
<1>3. ASSUME NEW t \in Threads, Issue(t)
      PROVE  (InHandler' => InHandler) /\ (InHandler => pc'[Worker] = pc[Worker])
  <2>1. Started(t) \in {"idle", "loop", "reset"} /\ Goto(t, Started(t)) /\ pc[t] = "issue"
    BY <1>3 DEF Issue, Started
  <2> QED
    BY <1>1, <2>1 DEF InHandler
<1>4. ASSUME NEW t \in Threads, NewWrite(t) \/ Refused(t)
      PROVE  (InHandler' => InHandler) /\ (InHandler => pc'[Worker] = pc[Worker])
  <2>1. t = Worker => pc[t] = "callback"
    BY <1>4 DEF NewWrite, Refused, MayCall, InUserCode
  <2>2. PICK s \in {"issue", "idle", "loop"} : Goto(t, s)
    BY <1>4 DEF NewWrite, Refused
  <2> QED
    BY <1>1, <2>1, <2>2 DEF InHandler
<1>5. ASSUME NEW t \in Threads, \/ Reset(t) \/ Flush(t) \/ CloseLink(t)
                                \/ EnableDump(t) \/ DisableDump(t)
      PROVE  UNCHANGED pc
  BY <1>5 DEF Reset, Flush, CloseLink, EnableDump, DisableDump
<1>6. ASSUME NEW c \in Callers, SyncSteps(c) \/ SpuriousWake(c)
      PROVE  (InHandler' => InHandler) /\ (InHandler => pc'[Worker] = pc[Worker])
  <2>1. c \in Threads /\ c # Worker
    BY <1>0 DEF Threads
  <2>2. \/ UNCHANGED pc
        \/ \E s \in {"check", "idle", "block", "asleep"} : Goto(c, s)
    BY <1>6 DEF SyncSteps, ResetNotified, CheckNotified, Block, Wake, SpuriousWake
  <2> QED
    BY <1>1, <1>2, <2>1, <2>2
<1>7. CASE TimerExpires \/ DeviceSteps
  BY <1>2, <1>7 DEF TimerExpires, DeviceSteps
<1> QED
  BY <1>2, <1>3, <1>4, <1>5, <1>6, <1>7 DEF Others

LEMMA StepHandling == ASSUME TypeInv, Handling, [Next]_vars
                      PROVE  Handling'
<1>1. CASE Others
  BY <1>1, OthersKeepHead, OthersEnterNone DEF Handling, HeadKept
<1>2. CASE WorkerSteps
  <2>1. Worker \in Threads /\ pc \in [Threads -> CallerStates \cup WorkerStates]
    BY DEF TypeInv, ControlTypes, Threads
  <2>2. \/ UNCHANGED ready /\ (InHandler => ready # <<>>)
        \/ UNCHANGED ready /\ ready # <<>>
        \/ pc'[Worker] \in {"loop", "callback"}
    BY <1>2, <2>1
    DEF WorkerSteps, DropHandler, EnterHandler, TimeoutNotifies, Continue, ContinueSome,
        ContinueAll, FinishHandler, WriteCallback, EnterCallback, LeaveCallback, Goto,
        Handling, InHandler
  <2>3. InHandler' => pc'[Worker] \notin {"loop", "callback"}
    BY DEF InHandler
  <2>4. CASE UNCHANGED ready /\ (InHandler => ready # <<>>)
    BY <1>2, <2>1, <2>3, <2>4
    DEF WorkerSteps, DropHandler, EnterHandler, TimeoutNotifies, Continue, ContinueSome,
        ContinueAll, FinishHandler, WriteCallback, EnterCallback, LeaveCallback, Goto,
        Handling, InHandler
  <2> QED
    BY <2>2, <2>3, <2>4 DEF Handling
<1>3. CASE UNCHANGED vars
  BY <1>3 DEF vars, Handling, InHandler
<1> QED
  BY <1>1, <1>2, <1>3, Zenon DEF Next, UserSteps, Others

(* Every step keeps the types. *)
LEMMA StepTypes == ASSUME TypeInv, Handling, [Next]_vars
                   PROVE  TypeInv'
<1>1. CASE UNCHANGED vars
  BY <1>1, SameDevice, SameRequest, SameControl, SameDump, SameIssuing
  DEF vars, TypeInv, request, waiter, dump
<1> QED
  BY <1>1, NewWriteTypes, IssueTypes, DispatchTypes, FinishHandlerTypes, ContinueTypes,
     CallbackTypes, SyncTypes, UserTypes, EnvironmentTypes, Zenon
  DEF Next, UserSteps, WorkerSteps

LEMMA InitTypes == Init => TypeInv /\ Handling
<1> SUFFICES ASSUME Init PROVE TypeInv /\ Handling
  OBVIOUS
<1> USE DEF Init
<1>1. DeviceTypes
  BY DevicesAssumption DEF DevicesInit, DeviceTypes
<1>2. RequestTypes
  BY WriterAssumption DEF RequestTypes
<1>3. ControlTypes /\ Issuing /\ Handling
  BY WriterAssumption
  DEF ControlTypes, Issuing, Handling, InHandler, CallerStates, WorkerStates, Threads
<1>4. DumpTypes
  BY WriterAssumption DEF DumpTypes
<1> QED
  BY <1>1, <1>2, <1>3, <1>4 DEF TypeInv

LEMMA TypeInvariance == Spec => [](TypeInv /\ Handling)
<1>1. Init => TypeInv /\ Handling
  BY InitTypes
<1>2. TypeInv /\ Handling /\ [Next]_vars => (TypeInv /\ Handling)'
  BY StepTypes, StepHandling
<1> QED
  BY <1>1, <1>2, PTL DEF Spec

(* Type correctness: the memory of a StringStream never exceeds its capacity, *)
(* ids stay below the width of the counter, and only callers lock mutex_.     *)
THEOREM WriterTypes == Spec => []TypeOK
<1>1. TypeInv => TypeOK
  BY DEF TypeInv, DeviceTypes, RequestTypes, ControlTypes, DumpTypes, TypeOK
<1> QED
  BY <1>1, TypeInvariance, PTL

-----------------------------------------------------------------------------
(* Late handlers.  A handler that is queued, outstanding or armed belongs to   *)
(* one of the first Len(writes) writes, and carries its number; while a write  *)
(* has not been issued none carries the number of that one.                   *)

Known(n) ==
    {h \in Handlers : IF h.what = "callback" THEN h.id = 0
                      ELSE h.id = h.src /\ h.id \in 1..n}

AllKnown(n) == ready \in Seq(Known(n)) /\ outgoing \in Seq(Known(n))

IssuedLast ==
    \A t \in Threads : pc[t] = "issue" =>
        /\ Busy
        /\ AllKnown(Len(writes) - 1)
        /\ \A u \in Threads : pc[u] = "issue" => u = t

Current ==
    InHandler => /\ ready # <<>>
                 /\ Busy
                 /\ Head(ready).what # "callback"
                 /\ Head(ready).id = writeId_

LateInv ==
    /\ AllKnown(Len(writes))
    /\ timer_ \in Seq(Known(Len(writes)))
    /\ IssuedLast
    /\ Current

Assumed == TypeInv /\ Handling /\ OutcomeInv

(* Later writes are known as well. *)
LEMMA KnownGrows == ASSUME NEW n \in Nat
                    PROVE  /\ Known(n - 1) \subseteq Known(n)
                           /\ Known(n) \subseteq Known(n + 1)
                           /\ \A s : s \in Seq(Known(n)) => s \in Seq(Known(n + 1))
                           /\ \A s : s \in Seq(Known(n - 1)) => s \in Seq(Known(n))
<1>1. Known(n - 1) \subseteq Known(n) /\ Known(n) \subseteq Known(n + 1)
  BY DEF Known
<1>2. ASSUME NEW S, NEW T, S \subseteq T, NEW s \in Seq(S)
      PROVE  s \in Seq(T)
  BY <1>2
<1> QED
  BY <1>1, <1>2, Zenon

(* An answer is known for what was asked. *)
LEMMA AnsweredKnown == ASSUME NEW n, NEW op \in Known(n), NEW k \in Nat, NEW err \in BOOLEAN
                       PROVE  Answered(op, k, err) \in Known(n)
<1>1. op \in Handlers
  BY DEF Known
<1>2. /\ Answered(op, k, err) \in Handlers
      /\ Answered(op, k, err).what = op.what
      /\ Answered(op, k, err).id = op.id
      /\ Answered(op, k, err).src = op.src
  BY <1>1, AnsweredType DEF Answered, Handlers
<1> QED
  BY <1>2 DEF Known

(* The device passes on what it was given. *)
LEMMA WriteSomeKnown ==
    ASSUME TypeInv, NEW n, NEW op \in Known(n), NEW queue \in Seq(Known(n)),
           outgoing \in Seq(Known(n)), AsyncWriteSome(op, queue)
    PROVE  AllKnown(n)'
<1>1. CASE StringWrite(op, queue) /\ UNCHANGED outgoing
  <2> DEFINE room == Capacity - Len(buffer_)
             k    == IF op.n < room THEN op.n ELSE room
  <2>1. k \in Nat
    BY DevicesAssumption DEF Known, Handlers, TypeInv, DeviceTypes
  <2>2. ready' = Append(queue, Answered(op, k, FALSE))
    BY <1>1 DEF StringWrite
  <2> HIDE DEF k
  <2>3. Answered(op, k, FALSE) \in Known(n)
    BY <2>1, AnsweredKnown
  <2>4. Append(queue, Answered(op, k, FALSE)) \in Seq(Known(n))
    BY <2>3, AppendType, Zenon
  <2> QED
    BY <1>1, <2>2, <2>4 DEF AllKnown
<1>2. CASE outgoing' = Append(outgoing, op) /\ ready' = queue
  BY <1>2, AppendType DEF AllKnown
<1>3. CASE ready' = queue /\ UNCHANGED outgoing
  BY <1>3 DEF AllKnown
<1> QED
  BY <1>1, <1>2, <1>3 DEF AsyncWriteSome

LEMMA DeviceKnown ==
    ASSUME TypeInv, NEW n, AllKnown(n),
           \/ Close \/ ResetDevice \/ FlushDevice
           \/ DeviceTakes \/ DeviceFails \/ LinkBreaks
    PROVE  AllKnown(n)'
<1>1. CASE Cancel
  <2>1. Known(n) \subseteq Handlers /\ \A op \in Known(n) : Answered(op, 0, TRUE) \in Known(n)
    BY AnsweredKnown DEF Known
  <2>2. (\E new \in Seq(Known(n)) : Joins(new)) /\ outgoing' = <<>>
    BY <1>1, <2>1, CancelJoins DEF AllKnown
  <2>3. PICK new \in Seq(Known(n)) : ready' = ready \o new
    BY <2>2 DEF Joins
  <2>4. ready \o new \in Seq(Known(n)) /\ <<>> \in Seq(Known(n))
    BY ConcatType DEF AllKnown
  <2> QED
    BY <2>2, <2>3, <2>4 DEF AllKnown
<1>2. CASE UNCHANGED <<ready, outgoing>>
  BY <1>2 DEF AllKnown
<1>3. ASSUME NEW k \in Nat, NEW err \in BOOLEAN, outgoing # <<>>, Answer(k, err)
      PROVE  AllKnown(n)'
  <2>1. Head(outgoing) \in Known(n) /\ Tail(outgoing) \in Seq(Known(n))
    BY <1>3, QueueType DEF AllKnown
  <2>2. Answered(Head(outgoing), k, err) \in Known(n)
    BY <2>1, AnsweredKnown
  <2>3. Append(ready, Answered(Head(outgoing), k, err)) \in Seq(Known(n))
    BY <2>2, AppendType, Zenon DEF AllKnown
  <2> QED
    BY <1>3, <2>1, <2>3, Zenon DEF Answer, AllKnown
<1>4. CASE DeviceTakes
  <2>1. outgoing # <<>> /\ Head(outgoing) \in Handlers
    BY <1>4 DEF DeviceTakes, TypeInv, DeviceTypes
  <2>2. PICK k \in 0..Head(outgoing).n : Answer(k, FALSE)
    BY <1>4 DEF DeviceTakes
  <2>3. k \in Nat
    BY <2>1, <2>2 DEF Handlers
  <2> QED
    BY <1>3, <2>1, <2>2, <2>3
<1>5. CASE DeviceFails
  BY <1>3, <1>5 DEF DeviceFails
<1>6. CASE Close \/ ResetDevice \/ FlushDevice
  BY <1>1, <1>2, <1>6
  DEF Close, CloseTCP, CloseSerial, ResetDevice, ResetTCP, ResetSerial, ResetString,
      FlushDevice, FlushSerial, FlushString
<1>7. CASE LinkBreaks
  BY <1>2, <1>7 DEF LinkBreaks
<1> QED
  BY <1>4, <1>5, <1>6, <1>7

(* While a handler is executed, no thread has a write to issue: the write of    *)
(* the handler is the last one, and its handler would not be known.           *)
LEMMA NobodyIssues == ASSUME Assumed, LateInv, InHandler
                      PROVE  \A t \in Threads : pc[t] # "issue"
<1> SUFFICES ASSUME NEW t \in Threads, pc[t] = "issue" PROVE FALSE
  OBVIOUS
<1>1. ready # <<>> /\ Head(ready).what # "callback" /\ Head(ready).id = writeId_ /\ Busy
  BY DEF LateInv, Current
<1>2. ready \in Seq(Known(Len(writes) - 1))
  BY DEF LateInv, IssuedLast, AllKnown
<1>3. Head(ready) \in Known(Len(writes) - 1)
  BY <1>1, <1>2, QueueType
<1>4. writeId_ = Len(writes) /\ Len(writes) \in Nat
  BY <1>1 DEF Assumed, OutcomeInv, Numbered, Busy
<1>5. Head(ready).id \in 1..(Len(writes) - 1)
  BY <1>1, <1>3 DEF Known
<1> QED
  BY <1>1, <1>4, <1>5

(* A new write: every handler there is belongs to an earlier one. *)
LEMMA NewWriteLate == ASSUME NoWrap, Assumed, LateInv, NEW t \in Threads, NewWrite(t)
                      PROVE  LateInv'
<1>0. PICK n \in Nat : n = Len(writes)
  BY DEF Assumed, OutcomeInv, Numbered
<1>1. /\ ~Busy /\ n < MaxWrites /\ writeId_' = NextId
      /\ \/ Arm(NextId, n + 1)
         \/ UNCHANGED <<ready, timer_>>
      /\ Goto(t, "issue")
      /\ UNCHANGED outgoing
  BY <1>0 DEF NewWrite, device
<1>2. Len(writes') = n + 1
  <2>1. PICK x : writes' = Append(writes, x)
    BY DEF NewWrite
  <2> QED
    BY <1>0, <2>1 DEF Assumed, OutcomeInv, Numbered
<1>3. NextId = n + 1
  BY <1>0, <1>1, NextIdCounts DEF NextId, Assumed, OutcomeInv, Numbered
<1>4. timer_ \in Seq(Known(n)) /\ ready \in Seq(Known(n)) /\ outgoing \in Seq(Known(n))
  BY <1>0 DEF LateInv, AllKnown
<1>5. ready' \in Seq(Known(n)) /\ timer_' \in Seq(Known(n + 1))
  <2>1. CASE Arm(NextId, n + 1)
    <3>1. TimeoutReached(NextId, n + 1) \in Known(n + 1)
      BY <1>3 DEF TimeoutReached, Handler, Handlers, Known
    <3>2. <<TimeoutReached(NextId, n + 1)>> \in Seq(Known(n + 1))
      BY <3>1
    <3>3. ready \o timer_ \in Seq(Known(n))
      BY <1>4, ConcatType
    <3> QED
      BY <2>1, <3>2, <3>3 DEF Arm
  <2>2. CASE UNCHANGED <<ready, timer_>>
    BY <1>4, <2>2, KnownGrows
  <2> QED
    BY <1>1, <2>1, <2>2
<1>6. /\ ready' \in Seq(Known(n)) /\ outgoing' \in Seq(Known(n))
      /\ ready' \in Seq(Known(n + 1)) /\ outgoing' \in Seq(Known(n + 1))
  <2>1. outgoing' \in Seq(Known(n))
    BY <1>1, <1>4
  <2> QED
    BY <1>5, <2>1, KnownGrows
<1>7. Busy' /\ Len(writes') - 1 = n
  BY <1>1, <1>2, <1>3 DEF Busy
<1>8. \A u \in Threads : pc[u] # "issue"
  BY <1>1 DEF LateInv, IssuedLast
<1>9. \A u \in Threads : pc'[u] = "issue" => u = t
  BY <1>1, <1>8 DEF Goto, Assumed, TypeInv, ControlTypes
<1>10. ~InHandler'
  <2>1. ~InHandler
    BY <1>1 DEF LateInv, Current
  <2>2. Others
    BY DEF Others
  <2> QED
    BY <2>1, <2>2, OthersEnterNone DEF Assumed
<1>11. AllKnown(Len(writes))' /\ AllKnown(Len(writes) - 1)'
  BY <1>2, <1>6, <1>7 DEF AllKnown
<1>12. IssuedLast'
  BY <1>7, <1>9, <1>11 DEF IssuedLast
<1>13. Current' /\ timer_' \in Seq(Known(Len(writes')))
  BY <1>2, <1>5, <1>10 DEF Current
<1> QED
  BY <1>11, <1>12, <1>13 DEF LateInv

(* The write is issued: the device now holds an operation with its number. *)
LEMMA IssueLate == ASSUME Assumed, LateInv, NEW t \in Threads, Issue(t)
                   PROVE  LateInv'
<1>1. /\ pc[t] = "issue" /\ Goto(t, Started(t)) /\ Started(t) # "issue"
      /\ DoWriteSome(requestedSize_, src_, 0, writeId_, writes[mine[t]].kind, ready)
      /\ UNCHANGED <<writes, writeId_, timer_>>
  BY DEF Issue, Started, request
<1>2. Busy /\ \A u \in Threads : pc[u] = "issue" => u = t
  BY <1>1 DEF LateInv, IssuedLast
<1>3. writeId_ = Len(writes) /\ src_ = Len(writes) /\ Len(writes) \in Nat \ {0}
  BY <1>2 DEF Busy, Assumed, OutcomeInv, Numbered
<1>4. writes[mine[t]].kind \in Kinds
  <2>1. mine[t] \in 1..Len(writes) /\ writes \in Seq(Writes)
    BY <1>1 DEF Assumed, TypeInv, Issuing, RequestTypes
  <2>2. writes[mine[t]] \in Writes
    BY <2>1, LenType
  <2> QED
    BY <2>2 DEF Writes
<1> DEFINE op == [Handler("continue", writeId_, src_, writes[mine[t]].kind)
                     EXCEPT !.from = 0, !.n = requestedSize_, !.dump = dumping]
<1>5. op \in Handlers
  BY <1>3, <1>4, WriteSomeOp DEF Assumed, TypeInv, RequestTypes
<1>6. op.what = "continue" /\ op.id = writeId_ /\ op.src = src_
  BY DEF Handler
<1>7. AsyncWriteSome(op, ready)
  BY <1>1 DEF DoWriteSome
<1> HIDE DEF op
<1>8. op \in Known(Len(writes))
  BY <1>3, <1>5, <1>6 DEF Known
<1>9. AllKnown(Len(writes))'
  <2>1. ready \in Seq(Known(Len(writes))) /\ outgoing \in Seq(Known(Len(writes))) /\ TypeInv
    BY DEF LateInv, AllKnown, Assumed
  <2>2. ready' \in Seq(Known(Len(writes))) /\ outgoing' \in Seq(Known(Len(writes)))
    BY <1>7, <1>8, <2>1, WriteSomeKnown DEF AllKnown
  <2> QED
    BY <1>1, <2>2 DEF AllKnown
<1>10. \A u \in Threads : pc'[u] # "issue"
  BY <1>1, <1>2 DEF Goto, Assumed, TypeInv, ControlTypes
<1>11. ~InHandler'
  <2>1. ~InHandler
    BY <1>1, NobodyIssues
  <2>2. Others
    BY DEF Others
  <2> QED
    BY <2>1, <2>2, OthersEnterNone DEF Assumed
<1> QED
  BY <1>1, <1>9, <1>10, <1>11 DEF LateInv, IssuedLast, Current

(* Steps that change no request: it is enough that the handlers stay known, of  *)
(* earlier writes if they were, and that a handler in execution stays.        *)
LEMMA SameLate ==
    ASSUME Assumed, LateInv, UNCHANGED request, timer_' \in {timer_, <<>>},
           \A n \in Int : AllKnown(n) => ready' \in Seq(Known(n)) /\ outgoing' \in Seq(Known(n)),
           \A t \in Threads : pc'[t] = "issue" => pc[t] = "issue",
           Current'
    PROVE  LateInv'
<1>1. writes' = writes /\ writeId_' = writeId_ /\ Len(writes) \in Nat
  BY DEF request, Assumed, OutcomeInv, Numbered
<1>2. AllKnown(Len(writes))'
  <2>1. AllKnown(Len(writes)) /\ Len(writes) \in Int
    BY <1>1 DEF LateInv
  <2>2. ready' \in Seq(Known(Len(writes))) /\ outgoing' \in Seq(Known(Len(writes)))
    BY <2>1
  <2> QED
    BY <1>1, <2>2 DEF AllKnown
<1>3. AllKnown(Len(writes) - 1) => AllKnown(Len(writes) - 1)'
  <2>1. ASSUME AllKnown(Len(writes) - 1)
        PROVE  AllKnown(Len(writes) - 1)'
    <3>1. Len(writes) - 1 \in Int
      BY <1>1
    <3>2. /\ ready' \in Seq(Known(Len(writes) - 1))
          /\ outgoing' \in Seq(Known(Len(writes) - 1))
      BY <2>1, <3>1
    <3> QED
      BY <1>1, <3>2 DEF AllKnown
  <2> QED
    BY <2>1
<1>4. IssuedLast'
  BY <1>1, <1>3 DEF LateInv, IssuedLast, Busy, Threads
<1>5. timer_' \in Seq(Known(Len(writes)))
  <2>1. <<>> \in Seq(Known(Len(writes)))
    OBVIOUS
  <2> QED
    BY <2>1 DEF LateInv
<1> QED
  BY <1>1, <1>2, <1>4, <1>5 DEF LateInv

(* The current handler stays current while others act. *)
LEMMA OthersCurrent == ASSUME Assumed, LateInv, Others, writeId_' = writeId_
                       PROVE  Current'
  BY OthersKeepHead, OthersEnterNone DEF Assumed, LateInv, Current, HeadKept, Busy

(* The steps of the other threads and of the environment. *)
LEMMA OthersLate == ASSUME NoWrap, ~SlowCaller, Assumed, LateInv, Others
                    PROVE  LateInv'
<1>1. ASSUME NEW t \in Threads, Reset(t) \/ Flush(t) \/ CloseLink(t)
      PROVE  LateInv'
  <2>1. /\ Close \/ ResetDevice \/ FlushDevice
        /\ UNCHANGED <<request, timer_, pc>>
    BY <1>1 DEF Reset, Flush, CloseLink
  <2>2. \A n : AllKnown(n) => ready' \in Seq(Known(n)) /\ outgoing' \in Seq(Known(n))
    BY <2>1, DeviceKnown DEF Assumed, AllKnown
  <2>3. Current'
    BY <2>1, OthersCurrent DEF request
  <2> QED
    BY <2>1, <2>2, <2>3, SameLate
<1>2. CASE DeviceSteps
  <2>1. /\ DeviceTakes \/ DeviceFails \/ LinkBreaks
        /\ UNCHANGED <<request, timer_, pc>>
    BY <1>2 DEF DeviceSteps
  <2>2. \A n : AllKnown(n) => ready' \in Seq(Known(n)) /\ outgoing' \in Seq(Known(n))
    BY <2>1, DeviceKnown DEF Assumed, AllKnown
  <2>3. Current'
    BY <2>1, OthersCurrent DEF request
  <2> QED
    BY <2>1, <2>2, <2>3, SameLate
<1>3. ASSUME UNCHANGED <<request, timer_, ready, outgoing>>,
             \A t \in Threads : pc'[t] = "issue" => pc[t] = "issue"
      PROVE  LateInv'
  <2>1. Current'
    BY <1>3, OthersCurrent DEF request
  <2> QED
    BY <1>3, <2>1, SameLate DEF AllKnown
<1>4. ASSUME NEW t \in Threads, EnableDump(t) \/ DisableDump(t) \/ Refused(t)
      PROVE  LateInv'
  <2>1. UNCHANGED <<request, timer_, ready, outgoing>>
    BY <1>4 DEF EnableDump, DisableDump, Refused, device
  <2>2. pc' = pc \/ \E s \in {"loop", "idle"} : Goto(t, s)
    BY <1>4 DEF EnableDump, DisableDump, Refused
  <2>3. \A u \in Threads : pc'[u] = "issue" => pc[u] = "issue"
    BY <2>2 DEF Goto, Assumed, TypeInv, ControlTypes
  <2> QED
    BY <1>3, <2>1, <2>3
<1>5. ASSUME NEW c \in Callers, SyncSteps(c) \/ SpuriousWake(c)
      PROVE  LateInv'
  <2>1. UNCHANGED <<request, timer_, ready, outgoing>>
    BY <1>5 DEF SyncSteps, ResetNotified, CheckNotified, Block, Wake, SpuriousWake, device
  <2>2. pc' = pc \/ \E s \in {"check", "idle", "block", "asleep"} : Goto(c, s)
    BY <1>5 DEF SyncSteps, ResetNotified, CheckNotified, Block, Wake, SpuriousWake
  <2>3. \A u \in Threads : pc'[u] = "issue" => pc[u] = "issue"
    BY <2>2 DEF Goto, Assumed, TypeInv, ControlTypes, Threads
  <2> QED
    BY <1>3, <2>1, <2>3
<1>6. CASE TimerExpires
  <2>1. /\ ready' = ready \o timer_ /\ timer_' = <<>>
        /\ UNCHANGED <<request, outgoing, pc>>
        /\ \A t \in Threads : pc[t] # "issue"
    BY <1>6 DEF TimerExpires, device
  <2>2. /\ ready \o timer_ \in Seq(Known(Len(writes)))
        /\ outgoing \in Seq(Known(Len(writes)))
    BY ConcatType DEF LateInv, AllKnown
  <2>3. AllKnown(Len(writes))'
    BY <2>1, <2>2 DEF AllKnown, request
  <2>4. Current'
    BY <1>6, <2>1, OthersCurrent DEF request
  <2>5. timer_' \in Seq(Known(Len(writes')))
    BY <2>1
  <2> QED
    BY <2>1, <2>3, <2>4, <2>5 DEF LateInv, IssuedLast
<1> QED
  BY <1>1, <1>2, <1>4, <1>5, <1>6, NewWriteLate, IssueLate DEF Others

(* The end of a write, and its continuation with what is missing. *)
LEMMA FinishHandlerLate == ASSUME Assumed, LateInv, FinishHandler
                           PROVE  LateInv'
<1>1. /\ InHandler
      /\ ready' = Tail(ready) \/ ready' = Append(Tail(ready), UserCallback(Head(ready).err))
      /\ Goto(Worker, "loop")
      /\ UNCHANGED <<outgoing, writes, timer_>>
  BY DEF FinishHandler, FinishWrite, InHandler, device
<1>2. ready # <<>>
  BY <1>1 DEF LateInv, Current
<1>3. /\ Tail(ready) \in Seq(Known(Len(writes))) /\ Head(ready) \in Handlers
      /\ outgoing \in Seq(Known(Len(writes)))
  BY <1>2, QueueType DEF LateInv, AllKnown, Assumed, TypeInv, DeviceTypes
<1>4. UserCallback(Head(ready).err) \in Known(Len(writes))
  <2>1. Head(ready).err \in BOOLEAN /\ src_ \in Nat /\ processed_ \in Nat
    BY <1>3 DEF Handlers, Assumed, TypeInv, RequestTypes
  <2>2. UserCallback(Head(ready).err) \in Handlers
    BY <2>1 DEF UserCallback, Handler, Handlers
  <2>3. UserCallback(Head(ready).err).what = "callback" /\ UserCallback(Head(ready).err).id = 0
    BY DEF UserCallback, Handler
  <2> QED
    BY <2>2, <2>3 DEF Known
<1>5. Append(Tail(ready), UserCallback(Head(ready).err)) \in Seq(Known(Len(writes)))
  BY <1>3, <1>4, AppendType, Zenon
<1>6. AllKnown(Len(writes))'
  BY <1>1, <1>3, <1>5 DEF AllKnown
<1>7. (\A t \in Threads : pc'[t] # "issue") /\ ~InHandler'
  BY <1>1, NobodyIssues, WorkerState DEF Goto, InHandler, Assumed, TypeInv, ControlTypes
<1> QED
  BY <1>1, <1>6, <1>7 DEF LateInv, IssuedLast, Current

LEMMA ContinueLate == ASSUME Assumed, LateInv, Continue
                      PROVE  LateInv'
<1>1. /\ pc[Worker] = "continue" /\ InHandler /\ UNCHANGED <<request, timer_>>
      /\ \/ Goto(Worker, "end") /\ UNCHANGED <<outgoing, ready>>
         \/ /\ Head(ready).kind = "all"
            /\ processed_ + Head(ready).n < requestedSize_
            /\ DoWriteSome(requestedSize_ - (processed_ + Head(ready).n), src_,
                           processed_ + Head(ready).n, Head(ready).id, Head(ready).kind,
                           Tail(ready))
            /\ Goto(Worker, "loop")
  BY DEF Continue, ContinueSome, ContinueAll, InHandler
<1>2. /\ ready # <<>> /\ Busy /\ Head(ready).what # "callback" /\ Head(ready).id = writeId_
      /\ AllKnown(Len(writes))
  BY <1>1 DEF LateInv, Current
<1>3. \A s : Goto(Worker, s) => pc'[Worker] = s
  BY WorkerState DEF Goto, Assumed, TypeInv, ControlTypes
<1>4. \A t \in Threads : pc'[t] # "issue"
  BY <1>1, NobodyIssues DEF Goto, Assumed, TypeInv, ControlTypes
<1>5. CASE Goto(Worker, "end") /\ UNCHANGED <<outgoing, ready>>
  <2>1. Current'
    BY <1>1, <1>2, <1>5 DEF Current, Busy, request
  <2> QED
    BY <1>1, <1>4, <1>5, <2>1, SameLate DEF AllKnown
<1>6. CASE /\ Head(ready).kind = "all"
           /\ processed_ + Head(ready).n < requestedSize_
           /\ DoWriteSome(requestedSize_ - (processed_ + Head(ready).n), src_,
                          processed_ + Head(ready).n, Head(ready).id, Head(ready).kind,
                          Tail(ready))
           /\ Goto(Worker, "loop")
  <2> DEFINE handler == Head(ready)
             total   == processed_ + handler.n
             op      == [Handler("continue", handler.id, src_, handler.kind)
                            EXCEPT !.from = total, !.n = requestedSize_ - total,
                                   !.dump = dumping]
  <2>1. handler \in Known(Len(writes)) /\ Tail(ready) \in Seq(Known(Len(writes)))
    BY <1>2, QueueType DEF AllKnown
  <2>2. handler.n \in Nat /\ handler.id \in Nat /\ handler.kind \in Kinds
    BY <1>6, <2>1 DEF Known, Handlers
  <2>3. /\ handler.id = writeId_ /\ src_ = writeId_ /\ handler.id \in 1..Len(writes)
        /\ src_ \in Nat
    BY <1>2, <2>1 DEF Known, Busy, Assumed, OutcomeInv, Numbered
  <2>4. AsyncWriteSome(op, Tail(ready))
    BY <1>6 DEF DoWriteSome
  <2>5. processed_ \in Nat /\ requestedSize_ \in Nat /\ DumpTypes /\ TypeInv
    BY DEF Assumed, TypeInv, RequestTypes
  <2>6. op.what = "continue" /\ op.id = handler.id /\ op.src = src_
    BY DEF Handler
  <2>7. total < requestedSize_
    BY <1>6
  <2> HIDE DEF handler
  <2>8. total \in Nat /\ requestedSize_ - total \in Nat
    BY <2>2, <2>5, <2>7
  <2> HIDE DEF total
  <2>9. op \in Handlers
    BY <2>2, <2>3, <2>5, <2>8, WriteSomeOp
  <2> HIDE DEF op
  <2>10. op \in Known(Len(writes))
    BY <2>3, <2>6, <2>9 DEF Known
  <2>11. ready' \in Seq(Known(Len(writes))) /\ outgoing' \in Seq(Known(Len(writes)))
    BY <1>2, <2>1, <2>4, <2>5, <2>10, WriteSomeKnown DEF AllKnown
  <2>12. AllKnown(Len(writes))'
    BY <1>1, <2>11 DEF AllKnown, request
  <2>13. ~InHandler'
    BY <1>3, <1>6 DEF InHandler
  <2>14. timer_' \in Seq(Known(Len(writes')))
    BY <1>1 DEF request, LateInv
  <2> QED
    BY <1>4, <2>12, <2>13, <2>14 DEF LateInv, IssuedLast, Current
<1> QED
  BY <1>1, <1>5, <1>6

(* The other steps of the worker: writeid_ok lets only the current write in. *)
LEMMA WorkerLate == ASSUME Assumed, LateInv, WorkerSteps
                    PROVE  LateInv'
<1>1. \A s : Goto(Worker, s) => pc'[Worker] = s
  BY WorkerState DEF Goto, Assumed, TypeInv, ControlTypes
<1>2. ASSUME NEW s \in {"continue", "timeout", "end", "callback", "loop"}, Goto(Worker, s)
      PROVE  \A t \in Threads : pc'[t] = "issue" => pc[t] = "issue"
  BY <1>2 DEF Goto, Assumed, TypeInv, ControlTypes
<1>3. ASSUME UNCHANGED <<request, timer_, outgoing>>, ready # <<>>, ready' = Tail(ready),
             pc' = pc \/ Goto(Worker, "callback"), pc[Worker] = "loop"
      PROVE  LateInv'
  <2>1. \A n : AllKnown(n) => ready' \in Seq(Known(n)) /\ outgoing' \in Seq(Known(n))
    BY <1>3, QueueType DEF AllKnown
  <2>2. ~InHandler'
    BY <1>1, <1>3 DEF InHandler
  <2>3. \A t \in Threads : pc'[t] = "issue" => pc[t] = "issue"
    BY <1>2, <1>3
  <2> QED
    BY <1>3, <2>1, <2>2, <2>3, SameLate DEF Current
<1>4. CASE DropHandler
  BY <1>3, <1>4 DEF DropHandler, device
<1>5. CASE WriteCallback \/ EnterCallback
  BY <1>3, <1>5 DEF WriteCallback, EnterCallback, device
<1>6. ASSUME UNCHANGED <<request, timer_, outgoing, ready>>, Current',
             NEW s \in {"continue", "timeout", "end", "callback", "loop"}, Goto(Worker, s)
      PROVE  LateInv'
  BY <1>2, <1>6, SameLate DEF AllKnown
<1>7. CASE EnterHandler
  <2>1. /\ ready # <<>> /\ Head(ready).what # "callback" /\ Head(ready).id = writeId_
        /\ UNCHANGED <<request, timer_, outgoing, ready>>
        /\ \E s \in {"continue", "timeout"} : Goto(Worker, s)
    BY <1>7 DEF EnterHandler, WriteIdOk, device
  <2>2. Head(ready) \in Known(Len(writes))
    BY <2>1, QueueType DEF LateInv, AllKnown
  <2>3. Busy
    BY <2>1, <2>2 DEF Known, Busy
  <2>4. Current'
    BY <2>1, <2>3 DEF Current, Busy, request
  <2> QED
    BY <1>6, <2>1, <2>4
<1>8. CASE TimeoutNotifies
  <2>1. /\ UNCHANGED <<request, timer_, outgoing, ready>> /\ Goto(Worker, "end") /\ InHandler
    BY <1>8 DEF TimeoutNotifies, InHandler, device
  <2>2. Current'
    BY <2>1 DEF LateInv, Current, Busy, request
  <2> QED
    BY <1>6, <2>1, <2>2
<1>9. CASE LeaveCallback
  <2>1. UNCHANGED <<request, timer_, outgoing, ready>> /\ Goto(Worker, "loop")
    BY <1>9 DEF LeaveCallback, device
  <2>2. ~InHandler'
    BY <1>1, <2>1 DEF InHandler
  <2> QED
    BY <1>6, <2>1, <2>2 DEF Current
<1> QED
  BY <1>4, <1>5, <1>7, <1>8, <1>9, FinishHandlerLate, ContinueLate DEF WorkerSteps

LEMMA StepLate == NoWrap /\ ~SlowCaller /\ Assumed /\ LateInv /\ [Next]_vars => LateInv'
<1> SUFFICES ASSUME NoWrap, ~SlowCaller, Assumed, LateInv, [Next]_vars PROVE LateInv'
  OBVIOUS
<1>1. CASE UNCHANGED vars
  <2>1. UNCHANGED <<request, timer_, ready, outgoing, pc>>
    BY <1>1 DEF vars, device
  <2>2. Current'
    BY <2>1 DEF LateInv, Current, InHandler, Busy, request
  <2> QED
    BY <2>1, <2>2, SameLate DEF AllKnown
<1>2. Next => Others \/ WorkerSteps
  BY Zenon DEF Next, UserSteps, Others
<1> QED
  BY <1>1, <1>2, OthersLate, WorkerLate

LEMMA LateInvariance == ASSUME NoWrap, ~SlowCaller PROVE Spec => [](Assumed /\ LateInv)
<1>1. Init => LateInv
  <2> SUFFICES ASSUME Init PROVE LateInv
    OBVIOUS
  <2>1. ready = <<>> /\ outgoing = <<>> /\ timer_ = <<>>
    BY DEF Init, DevicesInit
  <2>2. (\A t \in Threads : pc[t] # "issue") /\ ~InHandler
    BY DEF Init, InHandler, Threads
  <2> QED
    BY <2>1, <2>2 DEF LateInv, AllKnown, IssuedLast, Current
<1>2. Init => OutcomeInv
  BY WriterAssumption DEF Init, OutcomeInv, Numbered, OneOutcome, Busy
<1>3. OutcomeInv /\ [Next]_vars => OutcomeInv'
  BY StepOutcome
<1>4. Assumed /\ LateInv /\ [Next]_vars => LateInv'
  BY StepLate
<1>5. Assumed <=> TypeInv /\ Handling /\ OutcomeInv
  BY DEF Assumed
<1> QED
  BY <1>1, <1>2, <1>3, <1>4, <1>5, TypeInvariance, PTL DEF Spec

(* As long as no timeout expires within the call that armed it, and until the  *)
(* counter wraps, a handler that passed writeid_ok acts on the write it was    *)
(* made for: the answers and timeouts of earlier writes, which nothing cancels *)
(* when a write times out, never touch a later one.                           *)
THEOREM LateHandlersIgnored == ASSUME NoWrap, ~SlowCaller PROVE Spec => []LateIsIgnored
<1>1. Assumed /\ LateInv => LateIsIgnored
  <2> SUFFICES ASSUME Assumed, LateInv, InHandler PROVE Busy /\ Head(ready).src = src_
    BY DEF LateIsIgnored
  <2>1. /\ ready # <<>> /\ Busy /\ Head(ready).what # "callback"
        /\ Head(ready).id = writeId_
    BY DEF LateInv, Current
  <2>2. Head(ready) \in Known(Len(writes))
    BY <2>1, QueueType DEF LateInv, AllKnown
  <2> QED
    BY <2>1, <2>2 DEF Known, Busy, Assumed, OutcomeInv, Numbered
<1> QED
  BY <1>1, LateInvariance, PTL

-----------------------------------------------------------------------------
(* The steps of the writer, by what they do to the handlers. *)

IsAnswer(h) == h.what = "continue"

(* The device takes k bytes of an operation and answers it. *)
Takes(op, queue, k, err) ==
    /\ k \in 0..op.n
    /\ err => k = 0
    /\ ready' = Append(queue, Answered(op, k, err))
    /\ wire' = wire \o Bytes(op, k)

(* An operation is answered at once, left outstanding, or crashes. *)
Asked(op, queue) ==
    \/ /\ transport = "string"
       /\ \E k \in 0..op.n : Takes(op, queue, k, FALSE)
       /\ UNCHANGED outgoing
    \/ /\ transport # "string"
       /\ outgoing' = Append(outgoing, op)
       /\ ready' = queue
       /\ UNCHANGED wire
    \/ ready' = queue /\ UNCHANGED <<outgoing, wire>>

(* The oldest operation is answered, all are cancelled, or none. *)
Served ==
    \/ /\ outgoing # <<>>
       /\ \E k \in 0..Head(outgoing).n, err \in BOOLEAN : Takes(Head(outgoing), ready, k, err)
       /\ outgoing' = Tail(outgoing)
    \/ Cancel /\ UNCHANGED wire
    \/ UNCHANGED <<ready, outgoing, wire>>

DeviceMoves ==
    /\ \/ Close \/ ResetDevice \/ FlushDevice
       \/ DeviceTakes \/ DeviceFails \/ LinkBreaks
    /\ UNCHANGED <<request, processed_, timer_, waiter, dump, pc, posted>>

Popped ==
    /\ ready # <<>>
    /\ Head(ready).what = "callback"
    /\ pc[Worker] = "loop"
    /\ ready' = Tail(ready)
    /\ pc' = pc \/ Goto(Worker, "callback")
    /\ UNCHANGED <<device, request, processed_, timer_, dump, posted>>

(* Steps that concern the threads, or the dump file, alone. *)
Quiet ==
    /\ UNCHANGED <<device, ready, request, processed_, timer_, posted>>
    /\ \A t \in Threads : pc'[t] = "issue" => pc[t] = "issue"
    /\ pc'[Worker] # pc[Worker] => ~InHandler /\ ~InHandler'
    /\ UNCHANGED dump \/ (dumps' = dumps + 1 /\ dumped' \in {dumped, <<>>})

LEMMA AskedShape == ASSUME TypeInv, NEW op \in Handlers, NEW queue, AsyncWriteSome(op, queue)
                    PROVE  Asked(op, queue)
<1>1. CASE transport = "string" /\ StringWrite(op, queue) /\ UNCHANGED <<link, outgoing>>
  <2> DEFINE room == Capacity - Len(buffer_)
             k    == IF op.n < room THEN op.n ELSE room
  <2>1. k \in 0..op.n
    BY DevicesAssumption DEF Handlers, TypeInv, DeviceTypes
  <2>2. /\ wire' = wire \o Bytes(op, k)
        /\ ready' = Append(queue, Answered(op, k, FALSE))
    BY <1>1 DEF StringWrite
  <2> HIDE DEF k
  <2>3. Takes(op, queue, k, FALSE)
    BY <2>1, <2>2 DEF Takes
  <2> QED
    BY <1>1, <2>1, <2>3, Zenon DEF Asked
<1>2. CASE ~(transport = "string" /\ StringWrite(op, queue) /\ UNCHANGED <<link, outgoing>>)
  BY <1>2 DEF Asked, AsyncWriteSome
<1> QED
  BY <1>1, <1>2

LEMMA ServedShape == ASSUME TypeInv, DeviceMoves
                     PROVE  Served /\ transport' = transport
<1>1. CASE DeviceTakes
  <2>1. outgoing # <<>> /\ Head(outgoing) \in Handlers
    BY <1>1 DEF DeviceTakes, TypeInv, DeviceTypes
  <2>2. PICK k \in 0..Head(outgoing).n : Answer(k, FALSE)
    BY <1>1 DEF DeviceTakes
  <2>3. Takes(Head(outgoing), ready, k, FALSE) /\ outgoing' = Tail(outgoing)
    BY <2>2 DEF Answer, Takes
  <2> QED
    BY <2>1, <2>2, <2>3, Zenon DEF Served, Answer, lifecycle
<1>2. CASE DeviceFails
  <2>1. outgoing # <<>> /\ Head(outgoing) \in Handlers
    BY <1>2 DEF DeviceFails, TypeInv, DeviceTypes
  <2>2. Head(outgoing).n \in Nat
    BY <2>1 DEF Handlers
  <2>3. 0 \in 0..Head(outgoing).n
    BY <2>2
  <2>4. Answer(0, TRUE)
    BY <1>2 DEF DeviceFails
  <2>5. Takes(Head(outgoing), ready, 0, TRUE) /\ outgoing' = Tail(outgoing)
    BY <2>3, <2>4 DEF Answer, Takes
  <2> QED
    BY <2>1, <2>3, <2>4, <2>5, Zenon DEF Served, Answer, lifecycle
<1>3. CASE LinkBreaks
  BY <1>3 DEF LinkBreaks, Served
<1>4. CASE Close \/ ResetDevice \/ FlushDevice
  BY <1>4
  DEF Close, CloseTCP, CloseSerial, ResetDevice, ResetTCP, ResetSerial, ResetString,
      FlushDevice, FlushSerial, FlushString, Served
<1> QED
  BY <1>1, <1>2, <1>3, <1>4 DEF DeviceMoves

LEMMA Shapes ==
    ASSUME TypeInv, [Next]_vars
    PROVE  \/ Quiet
           \/ DeviceMoves
           \/ \E t \in Threads : NewWrite(t) \/ Issue(t)
           \/ TimerExpires
           \/ DropHandler \/ EnterHandler \/ TimeoutNotifies \/ Continue \/ FinishHandler
           \/ Popped
<1>0. pc \in [Threads -> CallerStates \cup WorkerStates] /\ Worker \in Threads /\ Worker \notin Callers
  BY WriterAssumption DEF TypeInv, ControlTypes, Threads
<1>1. ASSUME NEW t \in Threads, \/ Refused(t) \/ EnableDump(t) \/ DisableDump(t)
      PROVE  Quiet
  <2>1. UNCHANGED <<device, ready, request, processed_, timer_, posted>>
    BY <1>1 DEF Refused, EnableDump, DisableDump
  <2>2. pc' = pc \/ (InUserCode(t) /\ Goto(t, IF t = Worker THEN "loop" ELSE "idle"))
    BY <1>1 DEF Refused, EnableDump, DisableDump, MayCall
  <2>3. UNCHANGED dump \/ (dumps' = dumps + 1 /\ dumped' \in {dumped, <<>>})
    BY <1>1 DEF Refused, EnableDump, DisableDump
  <2> QED
    BY <1>0, <2>1, <2>2, <2>3 DEF Quiet, Goto, InUserCode, InHandler
<1>2. ASSUME NEW c \in Callers, SyncSteps(c) \/ SpuriousWake(c)
      PROVE  Quiet
  <2>1. UNCHANGED <<device, ready, request, processed_, timer_, posted, dump>>
    BY <1>2 DEF SyncSteps, ResetNotified, CheckNotified, Block, Wake, SpuriousWake
  <2>2. pc' = pc \/ \E s \in {"check", "idle", "block", "asleep"} : Goto(c, s)
    BY <1>2 DEF SyncSteps, ResetNotified, CheckNotified, Block, Wake, SpuriousWake
  <2> QED
    BY <1>0, <2>1, <2>2 DEF Quiet, Goto, Threads
<1>3. CASE LeaveCallback
  <2>1. /\ UNCHANGED <<device, ready, request, processed_, timer_, posted, dump>>
        /\ pc[Worker] = "callback" /\ Goto(Worker, "loop")
    BY <1>3 DEF LeaveCallback
  <2> QED
    BY <1>0, <2>1 DEF Quiet, Goto, InHandler
<1>4. CASE UNCHANGED vars
  BY <1>4 DEF vars, Quiet
<1>5. CASE WriteCallback \/ EnterCallback
  BY <1>5 DEF WriteCallback, EnterCallback, Popped
<1>6. CASE DeviceSteps
  BY <1>6 DEF DeviceSteps, DeviceMoves
<1>7. ASSUME NEW t \in Threads, Reset(t) \/ Flush(t) \/ CloseLink(t)
      PROVE  DeviceMoves
  BY <1>7 DEF Reset, Flush, CloseLink, DeviceMoves
<1> QED
  BY <1>1, <1>2, <1>3, <1>4, <1>5, <1>6, <1>7, Zenon DEF Next, UserSteps, WorkerSteps

-----------------------------------------------------------------------------
(* What a handler tells of its write is true: its kind, that it has a timeout  *)
(* if it is one, that it ends within the buffer, and that it is over if it is  *)
(* its callback.  A cancelled or failed operation has written nothing, and     *)
(* dump_callback is bound around answers only.                               *)

TrueOf(h, ws, n) ==
    /\ h.src \in 1..Len(ws)
    /\ h.what = "continue" =>
         /\ h.kind = ws[h.src].kind
         /\ h.from + h.n <= ws[h.src].size
         /\ h.kind = "some" => h.from = 0
         /\ h.err => h.n = 0
    /\ h.what = "timeout" => ws[h.src].timed
    /\ h.what = "callback" => h.src <= n
    /\ h.dump => IsAnswer(h)

Told(ws, n)     == {h \in Handlers : TrueOf(h, ws, n)}
Expiring(ws, n) == {h \in Told(ws, n) : h.what = "timeout"}
Writing(ws, n)  == {h \in Told(ws, n) : IsAnswer(h) /\ ~h.err}

Fitting(ws) == {b \in ByteNames : b[1] \in 1..Len(ws) /\ b[2] <= ws[b[1]].size}

(* The worker executes what the head of the queue is for. *)
AtHead == pc[Worker] \in {"continue", "timeout"} => Head(ready).what = pc[Worker]

TruthInv ==
    /\ ready \in Seq(Told(writes, Len(posted)))
    /\ timer_ \in Seq(Expiring(writes, Len(posted)))
    /\ outgoing \in Seq(Writing(writes, Len(posted)))
    /\ wire \in Seq(Fitting(writes))
    /\ Busy => requestedSize_ = writes[src_].size
    /\ \A t \in Threads : pc[t] = "issue" => mine[t] = src_
    /\ AtHead
    /\ transport = "string" => outgoing = <<>>

Base == Assumed /\ LateInv

LEMMA SeqGrows == ASSUME NEW S, NEW T, S \subseteq T, NEW s \in Seq(S)
                  PROVE  s \in Seq(T)
  OBVIOUS

(* The next write, or callback, makes no handler wrong. *)
LEMMA ToldGrows ==
    ASSUME NEW ws \in Seq(Writes), NEW w \in Writes, NEW n \in Nat
    PROVE  /\ Told(ws, n) \subseteq Told(Append(ws, w), n)
           /\ Expiring(ws, n) \subseteq Expiring(Append(ws, w), n)
           /\ Writing(ws, n) \subseteq Writing(Append(ws, w), n)
           /\ Fitting(ws) \subseteq Fitting(Append(ws, w))
<1>1. /\ Len(Append(ws, w)) = Len(ws) + 1 /\ Len(ws) \in Nat
      /\ \A i \in 1..Len(ws) : Append(ws, w)[i] = ws[i]
  OBVIOUS
<1>2. \A h \in Handlers : TrueOf(h, ws, n) => TrueOf(h, Append(ws, w), n)
  BY <1>1 DEF TrueOf
<1>3. Told(ws, n) \subseteq Told(Append(ws, w), n)
  BY <1>2 DEF Told
<1>4. Fitting(ws) \subseteq Fitting(Append(ws, w))
  BY <1>1 DEF Fitting
<1> QED
  BY <1>3, <1>4 DEF Expiring, Writing

LEMMA ToldPosted ==
    ASSUME NEW ws, NEW n \in Nat
    PROVE  /\ Told(ws, n) \subseteq Told(ws, n + 1)
           /\ Expiring(ws, n) \subseteq Expiring(ws, n + 1)
           /\ Writing(ws, n) \subseteq Writing(ws, n + 1)
<1>1. \A h \in Handlers : TrueOf(h, ws, n) => TrueOf(h, ws, n + 1)
  <2> SUFFICES ASSUME NEW h \in Handlers, TrueOf(h, ws, n) PROVE TrueOf(h, ws, n + 1)
    OBVIOUS
  <2>1. h.src \in Nat /\ (h.src <= n => h.src <= n + 1)
    BY DEF Handlers
  <2> QED
    BY <2>1 DEF TrueOf
<1>2. Told(ws, n) \subseteq Told(ws, n + 1)
  BY <1>1 DEF Told
<1> QED
  BY <1>2 DEF Expiring, Writing

(* So is the answer to an operation, of any part of its bytes. *)
LEMMA AnsweredTold ==
    ASSUME NEW ws \in Seq(Writes), NEW n \in Nat, NEW op \in Writing(ws, n), NEW k \in 0..op.n,
           NEW err \in BOOLEAN, err => k = 0
    PROVE  /\ Answered(op, k, err) \in Told(ws, n)
           /\ Bytes(op, k) \in Seq(Fitting(ws))
<1>1. op \in Handlers /\ TrueOf(op, ws, n) /\ IsAnswer(op)
  BY DEF Writing, Told
<1>2. k \in Nat /\ k <= op.n /\ op.n \in Nat /\ op.from \in Nat /\ op.src \in Nat
  BY <1>1 DEF Handlers
<1>3. ws[op.src].size \in Nat
  <2>1. ws[op.src] \in Writes
    BY <1>1, LenType DEF TrueOf
  <2> QED
    BY <2>1, WriterAssumption DEF Writes
<1>4. op.src \in 1..Len(ws) /\ op.from + op.n <= ws[op.src].size
  BY <1>1 DEF TrueOf, IsAnswer
<1>5. Answered(op, k, err) \in Told(ws, n)
  <2> DEFINE h == Answered(op, k, err)
  <2>1. h \in Handlers
    BY <1>1, <1>2, AnsweredType
  <2>2. /\ h.what = "continue" /\ h.kind = op.kind /\ h.src = op.src /\ h.from = op.from
        /\ h.n = k /\ h.err = err
    BY <1>1 DEF Answered, Handlers, IsAnswer
  <2>3. op.from + k <= ws[op.src].size
    BY <1>2, <1>3, <1>4
  <2> HIDE DEF h
  <2>4. TrueOf(h, ws, n)
    BY <1>1, <2>2, <2>3 DEF TrueOf, IsAnswer
  <2>5. h \in Told(ws, n)
    BY <2>1, <2>4 DEF Told
  <2> QED
    BY <2>5 DEF h
<1>6. \A i \in 1..k : <<op.src, op.from + i>> \in Fitting(ws)
  <2> SUFFICES ASSUME NEW i \in 1..k PROVE <<op.src, op.from + i>> \in Fitting(ws)
    OBVIOUS
  <2>1. op.from + i \in Nat /\ op.from + i <= ws[op.src].size
    BY <1>2, <1>3, <1>4
  <2>2. <<op.src, op.from + i>> \in ByteNames
    BY <1>2, <2>1 DEF ByteNames
  <2> QED
    BY <1>4, <2>1, <2>2 DEF Fitting
<1>7. Bytes(op, k) \in [1..k -> Fitting(ws)]
  BY <1>6 DEF Bytes
<1>8. Bytes(op, k) \in Seq(Fitting(ws))
  BY <1>2, <1>7, FunctionType
<1> QED
  BY <1>5, <1>8

LEMMA TakesTold ==
    ASSUME NEW ws \in Seq(Writes), NEW n \in Nat, NEW op \in Writing(ws, n),
           NEW queue \in Seq(Told(ws, n)), wire \in Seq(Fitting(ws)),
           NEW k, NEW err \in BOOLEAN, Takes(op, queue, k, err)
    PROVE  ready' \in Seq(Told(ws, n)) /\ wire' \in Seq(Fitting(ws))
<1>1. /\ k \in 0..op.n /\ (err => k = 0)
      /\ ready' = Append(queue, Answered(op, k, err))
      /\ wire' = wire \o Bytes(op, k)
  BY DEF Takes
<1>2. Answered(op, k, err) \in Told(ws, n) /\ Bytes(op, k) \in Seq(Fitting(ws))
  BY <1>1, AnsweredTold
<1>3. Append(queue, Answered(op, k, err)) \in Seq(Told(ws, n))
  BY <1>2, AppendType, Zenon
<1>4. wire \o Bytes(op, k) \in Seq(Fitting(ws))
  BY <1>2, ConcatType, Zenon
<1> QED
  BY <1>1, <1>3, <1>4, Zenon

(* A device that is given a true operation, or goes on with what it has. *)
LEMMA AskedTold ==
    ASSUME NEW ws \in Seq(Writes), NEW n \in Nat, NEW op \in Writing(ws, n),
           NEW queue \in Seq(Told(ws, n)), wire \in Seq(Fitting(ws)),
           outgoing \in Seq(Writing(ws, n)), transport = "string" => outgoing = <<>>,
           Asked(op, queue)
    PROVE  /\ ready' \in Seq(Told(ws, n)) /\ wire' \in Seq(Fitting(ws))
           /\ outgoing' \in Seq(Writing(ws, n))
           /\ transport = "string" => outgoing' = <<>>
<1>1. CASE transport = "string" /\ UNCHANGED outgoing
           /\ \E k \in 0..op.n : Takes(op, queue, k, FALSE)
  BY <1>1, TakesTold
<1>2. CASE transport # "string" /\ outgoing' = Append(outgoing, op) /\ ready' = queue
           /\ UNCHANGED wire
  BY <1>2, AppendType
<1>3. CASE ready' = queue /\ UNCHANGED <<outgoing, wire>>
  BY <1>3
<1> QED
  BY <1>1, <1>2, <1>3 DEF Asked

LEMMA ServedTold ==
    ASSUME NEW ws \in Seq(Writes), NEW n \in Nat, ready \in Seq(Told(ws, n)),
           wire \in Seq(Fitting(ws)), outgoing \in Seq(Writing(ws, n)),
           transport = "string" => outgoing = <<>>, Served
    PROVE  /\ ready' \in Seq(Told(ws, n)) /\ wire' \in Seq(Fitting(ws))
           /\ outgoing' \in Seq(Writing(ws, n))
           /\ transport = "string" => outgoing' = <<>>
<1>1. ASSUME outgoing # <<>>, outgoing' = Tail(outgoing),
             NEW k \in 0..Head(outgoing).n, NEW err \in BOOLEAN,
             Takes(Head(outgoing), ready, k, err)
      PROVE  /\ ready' \in Seq(Told(ws, n)) /\ wire' \in Seq(Fitting(ws))
             /\ outgoing' \in Seq(Writing(ws, n))
             /\ transport = "string" => outgoing' = <<>>
  BY <1>1, QueueType, TakesTold
<1>2. CASE Cancel /\ UNCHANGED wire
  <2> DEFINE answers == [i \in 1..Len(outgoing) |-> Answered(outgoing[i], 0, TRUE)]
  <2>1. ready' = ready \o answers /\ outgoing' = <<>>
    BY <1>2 DEF Cancel
  <2>2. \A i \in 1..Len(outgoing) : Answered(outgoing[i], 0, TRUE) \in Told(ws, n)
    <3> SUFFICES ASSUME NEW i \in 1..Len(outgoing)
                 PROVE  Answered(outgoing[i], 0, TRUE) \in Told(ws, n)
      OBVIOUS
    <3>1. outgoing[i] \in Writing(ws, n)
      BY LenType
    <3>2. outgoing[i].n \in Nat
      BY <3>1 DEF Writing, Told, Handlers
    <3>3. 0 \in 0..outgoing[i].n
      BY <3>2
    <3> QED
      BY <3>1, <3>3, AnsweredTold
  <2>3. Len(outgoing) \in Nat
    BY LenType
  <2>4. answers \in [1..Len(outgoing) -> Told(ws, n)]
    BY <2>2, Zenon
  <2> HIDE DEF answers
  <2>5. answers \in Seq(Told(ws, n))
    BY <2>3, <2>4, FunctionType, Zenon
  <2>6. ready \o answers \in Seq(Told(ws, n))
    BY <2>5, ConcatType, Zenon
  <2>7. <<>> \in Seq(Writing(ws, n))
    OBVIOUS
  <2> QED
    BY <1>2, <2>1, <2>6, <2>7, Zenon
<1>3. CASE UNCHANGED <<ready, outgoing, wire>>
  BY <1>3
<1> QED
  BY <1>1, <1>2, <1>3 DEF Served

-----------------------------------------------------------------------------
(* Every step keeps TruthInv. *)

LEMMA InitTruth == Init => TruthInv
<1> SUFFICES ASSUME Init PROVE TruthInv
  OBVIOUS
<1>1. ready = <<>> /\ outgoing = <<>> /\ timer_ = <<>> /\ wire = <<>>
  BY DEF Init, DevicesInit
<1>2. /\ \A S : <<>> \in Seq(S)
      /\ ~Busy
  BY DEF Init, Busy
<1>3. \A t \in Threads : pc[t] \in {"loop", "idle"}
  BY DEF Init
<1>4. AtHead
  BY <1>3, WorkerState DEF AtHead
<1> QED
  BY <1>1, <1>2, <1>3, <1>4 DEF TruthInv

(* Steps that change no request: the handlers stay true, and the worker does   *)
(* not enter one.                                                            *)
LEMMA SameTruth ==
    ASSUME TruthInv, UNCHANGED <<request, posted, transport>>,
           timer_' \in {timer_, <<>>},
           ready' \in Seq(Told(writes, Len(posted))),
           outgoing' \in Seq(Writing(writes, Len(posted))),
           wire' \in Seq(Fitting(writes)),
           transport = "string" => outgoing' = <<>>,
           \A t \in Threads : pc'[t] = "issue" => pc[t] = "issue",
           AtHead'
    PROVE  TruthInv'
<1>1. /\ writes' = writes /\ posted' = posted /\ writeId_' = writeId_ /\ src_' = src_
      /\ requestedSize_' = requestedSize_ /\ mine' = mine
  BY DEF request
<1>2. timer_' \in Seq(Expiring(writes, Len(posted)))
  <2>1. <<>> \in Seq(Expiring(writes, Len(posted)))
    OBVIOUS
  <2> QED
    BY <2>1 DEF TruthInv
<1>3. \A t \in Threads : pc'[t] = "issue" => mine'[t] = src_'
  BY <1>1 DEF TruthInv
<1> QED
  BY <1>1, <1>2, <1>3 DEF TruthInv, Busy

LEMMA HeadAt == ASSUME TypeInv, Handling, AtHead, HeadKept,
                       pc'[Worker] # pc[Worker] => pc'[Worker] \notin {"continue", "timeout"}
                PROVE  AtHead'
  BY DEF Handling, InHandler, AtHead, HeadKept

LEMMA NewWriteTruth == ASSUME Base, TruthInv, NEW t \in Threads, NewWrite(t)
                       PROVE  TruthInv'
<1> USE WriterAssumption
<1>0. PICK kind \in Kinds, size \in Sizes, timed \in Timeouts, sync \in BOOLEAN :
         /\ MayCall(t, sync)
         /\ ~Busy
         /\ writeId_' = NextId
         /\ requestedSize_' = size
         /\ src_' = Len(writes) + 1
         /\ writes' = Append(writes, [kind |-> kind, size |-> size, timed |-> timed, sync |-> sync])
         /\ mine' = [mine EXCEPT ![t] = Len(writes) + 1]
         /\ IF timed THEN Arm(NextId, Len(writes) + 1) ELSE UNCHANGED <<ready, timer_>>
         /\ Goto(t, "issue")
         /\ UNCHANGED <<device, posted>>
  BY DEF NewWrite
<1> DEFINE w == [kind |-> kind, size |-> size, timed |-> timed, sync |-> sync]
           n == Len(posted)
<1>1. w \in Writes /\ w.timed = timed /\ w.size = size
  BY DEF Writes
<1>2. writes \in Seq(Writes) /\ n \in Nat /\ writes' = Append(writes, w) /\ posted' = posted
  BY <1>0 DEF Base, Assumed, OutcomeInv, Numbered
<1> HIDE DEF w, n
<1>3. /\ Len(writes') = Len(writes) + 1 /\ writes'[Len(writes) + 1] = w /\ Len(writes) \in Nat
  BY <1>1, <1>2
<1>4. /\ Told(writes, n) \subseteq Told(writes', n)
      /\ Expiring(writes, n) \subseteq Expiring(writes', n)
      /\ Writing(writes, n) \subseteq Writing(writes', n)
      /\ Fitting(writes) \subseteq Fitting(writes')
  BY <1>1, <1>2, ToldGrows
<1>5. /\ ready \in Seq(Told(writes', n))
      /\ timer_ \in Seq(Expiring(writes', n))
      /\ outgoing' \in Seq(Writing(writes', n))
      /\ wire' \in Seq(Fitting(writes'))
  <2>1. /\ ready \in Seq(Told(writes, n)) /\ timer_ \in Seq(Expiring(writes, n))
        /\ outgoing' \in Seq(Writing(writes, n)) /\ wire' \in Seq(Fitting(writes))
    BY <1>0 DEF TruthInv, device, n
  <2> QED
    BY <1>4, <2>1, SeqGrows
<1>6. ready' \in Seq(Told(writes', n)) /\ timer_' \in Seq(Expiring(writes', n))
  <2>1. CASE timed
    <3> DEFINE h == TimeoutReached(NextId, Len(writes) + 1)
    <3>1. ready' = ready \o timer_ /\ timer_' = <<h>>
      BY <1>0, <2>1 DEF Arm
    <3>2. h \in Handlers /\ h.what = "timeout" /\ h.src = Len(writes) + 1 /\ ~h.dump
      BY <1>3 DEF TimeoutReached, Handler, Handlers, NextId, Base, Assumed, TypeInv, RequestTypes
    <3> HIDE DEF h
    <3>8. h.src \in 1..Len(writes') /\ writes'[h.src] = w
      BY <1>3, <3>2
    <3>9. writes'[h.src].timed
      BY <1>1, <2>1, <3>8
    <3>3. TrueOf(h, writes', n)
      BY <3>2, <3>8, <3>9 DEF TrueOf
    <3>4. h \in Expiring(writes', n)
      BY <3>2, <3>3 DEF Expiring, Told
    <3>5. timer_ \in Seq(Told(writes', n))
      <4>1. Expiring(writes', n) \subseteq Told(writes', n)
        BY DEF Expiring
      <4> QED
        BY <1>5, <4>1, SeqGrows
    <3>6. ready \o timer_ \in Seq(Told(writes', n))
      BY <1>5, <3>5, ConcatType
    <3>7. <<h>> \in Seq(Expiring(writes', n))
      BY <3>4
    <3> QED
      BY <3>1, <3>6, <3>7
  <2>2. CASE ~timed
    BY <1>0, <1>5, <2>2
  <2> QED
    BY <2>1, <2>2
<1>7. \A u \in Threads : pc'[u] = "issue" => mine'[u] = src_'
  <2>1. \A u \in Threads : pc[u] # "issue"
    BY <1>0 DEF Base, LateInv, IssuedLast
  <2>2. mine'[t] = Len(writes) + 1
    BY <1>0 DEF Base, Assumed, TypeInv, RequestTypes
  <2>3. \A u \in Threads : u # t => pc'[u] = pc[u]
    BY <1>0 DEF Goto, Base, Assumed, TypeInv, ControlTypes
  <2> QED
    BY <1>0, <2>1, <2>2, <2>3
<1>8. AtHead'
  <2>1. Others
    BY DEF Others
  <2> QED
    BY <2>1, OthersKeepHead, OthersEnterNone, HeadAt DEF Base, Assumed, TruthInv, InHandler
<1>9. transport' = "string" => outgoing' = <<>>
  BY <1>0 DEF TruthInv, device, lifecycle
<1>10. requestedSize_' = writes'[src_'].size
  BY <1>0, <1>1, <1>3
<1> QED
  BY <1>2, <1>5, <1>6, <1>7, <1>8, <1>9, <1>10 DEF TruthInv, n

(* The operation of a write that starts, or goes on. *)
Operation(op, from, n) ==
    /\ op \in Writing(writes, Len(posted))
    /\ op.id = writeId_
    /\ op.src = src_
    /\ op.from = from
    /\ op.n = n
    /\ op.dump = dumping

LEMMA OperationOf ==
    ASSUME Base, TruthInv, Busy, NEW from \in Nat, NEW n \in Nat, NEW kind,
           kind = writes[src_].kind, from + n = writes[src_].size, kind = "some" => from = 0
    PROVE  Operation([Handler("continue", writeId_, src_, kind)
                         EXCEPT !.from = from, !.n = n, !.dump = dumping], from, n)
<1> DEFINE op == [Handler("continue", writeId_, src_, kind)
                     EXCEPT !.from = from, !.n = n, !.dump = dumping]
<1>1. /\ writes \in Seq(Writes) /\ src_ \in 1..Len(writes) /\ src_ \in Nat /\ writeId_ \in Nat
      /\ DumpTypes
  BY DEF Base, Assumed, OutcomeInv, Numbered, TypeInv, RequestTypes, Busy
<1>2. writes[src_] \in Writes
  BY <1>1, LenType
<1>3. kind \in Kinds
  BY <1>2 DEF Writes
<1>4. op \in Handlers
  BY <1>1, <1>3, WriteSomeOp
<1>5. /\ op.what = "continue" /\ op.kind = kind /\ op.src = src_ /\ op.from = from
      /\ op.n = n /\ op.err = FALSE /\ op.id = writeId_ /\ op.dump = dumping
  BY DEF Handler
<1> HIDE DEF op
<1>6. TrueOf(op, writes, Len(posted))
  BY <1>1, <1>5 DEF TrueOf, IsAnswer
<1>7. op \in Writing(writes, Len(posted))
  BY <1>4, <1>5, <1>6 DEF Writing, Told, IsAnswer
<1>8. Operation(op, from, n)
  BY <1>5, <1>7 DEF Operation
<1> QED
  BY <1>8 DEF op

LEMMA IssueShape == ASSUME Base, TruthInv, NEW t \in Threads, Issue(t)
                    PROVE  /\ pc[t] = "issue" /\ Busy
                           /\ UNCHANGED <<transport, request, processed_, timer_, dump, posted>>
                           /\ \A u \in Threads : pc'[u] # "issue"
                           /\ ~InHandler /\ ~InHandler'
                           /\ \E op : Operation(op, 0, requestedSize_) /\ Asked(op, ready)
<1> DEFINE op == [Handler("continue", writeId_, src_, writes[mine[t]].kind)
                     EXCEPT !.from = 0, !.n = requestedSize_, !.dump = dumping]
<1>1. /\ pc[t] = "issue"
      /\ Goto(t, Started(t))
      /\ AsyncWriteSome(op, ready)
      /\ UNCHANGED <<transport, request, processed_, timer_, dump, posted>>
  BY DEF Issue, DoWriteSome
<1>2. mine[t] = src_ /\ Busy /\ requestedSize_ = writes[src_].size /\ requestedSize_ \in Nat
  BY <1>1 DEF TruthInv, Base, LateInv, IssuedLast, Assumed, TypeInv, RequestTypes
<1>3. 0 + requestedSize_ = requestedSize_ /\ 0 \in Nat
  BY <1>2
<1>4. Operation(op, 0, requestedSize_)
  BY <1>2, <1>3, OperationOf
<1> HIDE DEF op
<1>5. op \in Handlers
  BY <1>4 DEF Operation, Writing, Told
<1>6. Asked(op, ready)
  BY <1>1, <1>5, AskedShape DEF Base, Assumed
<1>7. Others /\ ~InHandler
  BY <1>1, NobodyIssues DEF Others, Base
<1>8. ~InHandler'
  BY <1>7, OthersEnterNone DEF Base, Assumed
<1>9. \A u \in Threads : u # t => pc[u] # "issue"
  BY <1>1 DEF Base, LateInv, IssuedLast
<1>10. Started(t) # "issue"
  BY DEF Started
<1>11. \A u \in Threads : pc'[u] # "issue"
  BY <1>1, <1>9, <1>10 DEF Goto, Base, Assumed, TypeInv, ControlTypes
<1> QED
  BY <1>1, <1>2, <1>4, <1>6, <1>7, <1>8, <1>11

LEMMA IssueTruth == ASSUME Base, TruthInv, NEW t \in Threads, Issue(t)
                    PROVE  TruthInv'
<1> DEFINE n == Len(posted)
<1>1. /\ UNCHANGED <<transport, request, timer_, posted>>
      /\ ~InHandler'
      /\ \A u \in Threads : pc'[u] # "issue"
  BY IssueShape
<1>2. PICK op : Operation(op, 0, requestedSize_) /\ Asked(op, ready)
  BY IssueShape
<1>3. writes \in Seq(Writes) /\ n \in Nat
  BY DEF Base, Assumed, OutcomeInv, Numbered
<1>4. /\ ready' \in Seq(Told(writes, n)) /\ wire' \in Seq(Fitting(writes))
      /\ outgoing' \in Seq(Writing(writes, n))
      /\ transport = "string" => outgoing' = <<>>
  BY <1>2, <1>3, AskedTold DEF TruthInv, Operation
<1>5. AtHead'
  BY <1>1 DEF AtHead, InHandler
<1> QED
  BY <1>1, <1>4, <1>5, SameTruth

LEMMA DeviceHead == ASSUME Base, DeviceMoves PROVE HeadKept
<1>1. CASE DeviceTakes \/ DeviceFails \/ LinkBreaks
  <2>1. CASE \E e : ready' = Append(ready, e)
    BY <2>1 DEF Base, Assumed, TypeInv, DeviceTypes, HeadKept
  <2>2. CASE UNCHANGED ready
    BY <2>2 DEF HeadKept
  <2> QED
    BY <1>1, <2>1, <2>2 DEF DeviceTakes, DeviceFails, LinkBreaks, Answer
<1> QED
  BY <1>1, ControlHead DEF DeviceMoves, Base, Assumed

LEMMA DeviceTruth == ASSUME Base, TruthInv, DeviceMoves
                     PROVE  TruthInv'
<1> DEFINE n == Len(posted)
<1>1. Served /\ UNCHANGED <<transport, request, timer_, posted, pc>>
  BY ServedShape DEF DeviceMoves, Base, Assumed
<1>2. writes \in Seq(Writes) /\ n \in Nat
  BY DEF Base, Assumed, OutcomeInv, Numbered
<1>3. /\ ready' \in Seq(Told(writes, n)) /\ wire' \in Seq(Fitting(writes))
      /\ outgoing' \in Seq(Writing(writes, n))
      /\ transport = "string" => outgoing' = <<>>
  BY <1>1, <1>2, ServedTold DEF TruthInv
<1>4. HeadKept
  BY DeviceHead
<1>5. AtHead'
  BY <1>1, <1>4, HeadAt DEF Base, Assumed, TruthInv
<1> QED
  BY <1>1, <1>3, <1>5, SameTruth

LEMMA TimerTruth == ASSUME Base, TruthInv, TimerExpires
                    PROVE  TruthInv'
<1> DEFINE n == Len(posted)
<1>1. /\ ready' = ready \o timer_ /\ timer_' = <<>>
      /\ UNCHANGED <<device, request, posted, pc>>
  BY DEF TimerExpires
<1>2. timer_ \in Seq(Told(writes, n))
  <2>1. Expiring(writes, n) \subseteq Told(writes, n)
    BY DEF Expiring
  <2> QED
    BY <2>1, SeqGrows DEF TruthInv
<1>3. ready \o timer_ \in Seq(Told(writes, n))
  BY <1>2, ConcatType DEF TruthInv
<1>4. AtHead'
  <2>1. Others
    BY DEF Others
  <2> QED
    BY <1>1, <2>1, OthersKeepHead, HeadAt DEF Base, Assumed, TruthInv
<1>5. /\ UNCHANGED <<transport, outgoing, wire>>
      /\ \A t \in Threads : pc'[t] = "issue" => pc[t] = "issue"
  BY <1>1 DEF device, lifecycle
<1> QED
  BY <1>1, <1>3, <1>4, <1>5, SameTruth DEF TruthInv

(* A handler leaves the queue, or the worker moves on within one. *)
LEMMA PoppedTruth ==
    ASSUME Base, TruthInv, ready # <<>>, ready' = Tail(ready),
           UNCHANGED <<device, request, timer_, posted>>,
           pc' = pc \/ Goto(Worker, "callback"), pc[Worker] = "loop"
    PROVE  TruthInv'
<1>1. Tail(ready) \in Seq(Told(writes, Len(posted)))
  BY QueueType DEF TruthInv
<1>2. AtHead' /\ \A t \in Threads : pc'[t] = "issue" => pc[t] = "issue"
  BY WorkerState DEF AtHead, Goto, Base, Assumed, TypeInv, ControlTypes
<1>3. UNCHANGED <<transport, outgoing, wire>>
  BY DEF device, lifecycle
<1> QED
  BY <1>1, <1>2, <1>3, SameTruth DEF TruthInv

LEMMA MovedTruth ==
    ASSUME Base, TruthInv, UNCHANGED <<device, ready, request, timer_, posted>>,
           \A t \in Threads : pc'[t] = "issue" => pc[t] = "issue", AtHead'
    PROVE  TruthInv'
<1>1. UNCHANGED <<transport, outgoing, wire>>
  BY DEF device, lifecycle
<1> QED
  BY <1>1, SameTruth DEF TruthInv

LEMMA DispatchTruth == ASSUME Base, TruthInv, DropHandler \/ EnterHandler \/ TimeoutNotifies
                       PROVE  TruthInv'
<1>1. CASE DropHandler
  BY <1>1, PoppedTruth DEF DropHandler
<1>2. CASE EnterHandler
  <2>1. /\ UNCHANGED <<device, ready, request, timer_, posted>>
        /\ Goto(Worker, Head(ready).what) /\ Head(ready).what \in {"continue", "timeout"}
    BY <1>2 DEF EnterHandler
  <2>2. AtHead' /\ \A t \in Threads : pc'[t] = "issue" => pc[t] = "issue"
    BY <2>1, WorkerState DEF AtHead, Goto, Base, Assumed, TypeInv, ControlTypes
  <2> QED
    BY <2>1, <2>2, MovedTruth
<1>3. CASE TimeoutNotifies
  <2>1. UNCHANGED <<device, ready, request, timer_, posted>> /\ Goto(Worker, "end")
    BY <1>3 DEF TimeoutNotifies
  <2>2. AtHead' /\ \A t \in Threads : pc'[t] = "issue" => pc[t] = "issue"
    BY <2>1, WorkerState DEF AtHead, Goto, Base, Assumed, TypeInv, ControlTypes
  <2> QED
    BY <2>1, <2>2, MovedTruth
<1> QED
  BY <1>1, <1>2, <1>3

(* A continuation of the current write ends it, or asks for what is missing. *)
Ends(h) ==
    /\ UNCHANGED <<ready, outgoing, wire>>
    /\ Goto(Worker, "end")
    /\ \/ h.kind = "some" /\ processed_' = h.n
       \/ /\ h.kind = "all" /\ processed_' = processed_ + h.n
          /\ h.err \/ processed_' >= requestedSize_

GoesOn(h) ==
    /\ h.kind = "all" /\ ~h.err
    /\ processed_' = processed_ + h.n
    /\ processed_' < requestedSize_
    /\ Goto(Worker, "loop")
    /\ \E op : /\ Operation(op, processed_', requestedSize_ - processed_')
               /\ Asked(op, Tail(ready))

LEMMA InCurrent == ASSUME Base, TruthInv, InHandler
                   PROVE  /\ ready # <<>> /\ Head(ready) \in Told(writes, Len(posted))
                          /\ Head(ready) \in Handlers
                          /\ Head(ready) = ready[1] /\ 1 \in 1..Len(ready)
                          /\ Head(ready).id = writeId_ /\ Head(ready).src = src_
                          /\ Head(ready).what \in {"continue", "timeout"}
                          /\ Busy /\ src_ = Len(writes) /\ src_ \in 1..Len(writes)
                          /\ Tail(ready) \in Seq(Told(writes, Len(posted)))
                          /\ \A t \in Threads : pc[t] # "issue"
<1>1. /\ ready # <<>> /\ Busy /\ Head(ready).what # "callback" /\ Head(ready).id = writeId_
  BY DEF Base, LateInv, Current
<1>2. Head(ready) \in Known(Len(writes)) /\ Head(ready) \in Handlers
  BY <1>1, QueueType DEF Base, LateInv, AllKnown, Known
<1>3. /\ Head(ready).id = Head(ready).src /\ writeId_ = Len(writes) /\ src_ = Len(writes)
      /\ src_ \in 1..Len(writes)
  BY <1>1, <1>2 DEF Known, Base, Assumed, OutcomeInv, Numbered, Busy
<1>4. Head(ready) \in Told(writes, Len(posted)) /\ Tail(ready) \in Seq(Told(writes, Len(posted)))
  BY <1>1, QueueType DEF TruthInv
<1>5. Head(ready).what \in {"continue", "timeout"}
  BY <1>1, <1>2 DEF Handlers
<1>6. Head(ready) = ready[1] /\ 1 \in 1..Len(ready)
  BY <1>1 DEF Base, Assumed, TypeInv, DeviceTypes
<1> QED
  BY <1>1, <1>2, <1>3, <1>4, <1>5, <1>6, NobodyIssues DEF Base

LEMMA ContinueShape == ASSUME Base, TruthInv, Continue
                       PROVE  /\ pc[Worker] = "continue" /\ InHandler /\ IsAnswer(Head(ready))
                              /\ UNCHANGED <<transport, request, timer_, dump, posted>>
                              /\ Ends(Head(ready)) \/ GoesOn(Head(ready))
<1> DEFINE h == Head(ready)
<1>1. /\ pc[Worker] = "continue" /\ InHandler
      /\ ContinueSome(h) \/ ContinueAll(h)
      /\ UNCHANGED <<transport, request, timer_, dump, posted>>
  BY DEF Continue, InHandler
<1>2. IsAnswer(h) /\ h \in Handlers /\ h \in Told(writes, Len(posted)) /\ h.src = src_ /\ Busy
      /\ h.id = writeId_
  BY <1>1, InCurrent DEF TruthInv, AtHead, IsAnswer
<1>3. /\ h.kind = writes[src_].kind /\ h.n \in Nat /\ processed_ \in Nat
      /\ requestedSize_ = writes[src_].size /\ requestedSize_ \in Nat
  BY <1>2 DEF Told, TrueOf, IsAnswer, Handlers, TruthInv, Base, Assumed, TypeInv, RequestTypes
<1> HIDE DEF h
<1>4. ASSUME ContinueSome(h)
      PROVE  Ends(h)
  BY <1>4 DEF ContinueSome, Ends
<1>5. ASSUME ContinueAll(h)
      PROVE  Ends(h) \/ GoesOn(h)
  <2>1. h.kind = "all" /\ processed_' = processed_ + h.n
    BY <1>5 DEF ContinueAll
  <2>2. CASE h.err \/ processed_ + h.n >= requestedSize_
    <3>1. Goto(Worker, "end") /\ UNCHANGED <<outgoing, wire, ready>>
      BY <1>3, <1>5, <2>2 DEF ContinueAll
    <3> QED
      BY <2>1, <2>2, <3>1 DEF Ends
  <2>3. CASE ~h.err /\ processed_ + h.n < requestedSize_
    <3> DEFINE from == processed_ + h.n
               n    == requestedSize_ - from
               op   == [Handler("continue", writeId_, src_, h.kind)
                           EXCEPT !.from = from, !.n = n, !.dump = dumping]
    <3>1. Goto(Worker, "loop") /\ AsyncWriteSome(op, Tail(ready))
      BY <1>2, <1>3, <1>5, <2>3 DEF ContinueAll, DoWriteSome
    <3>2. from \in Nat /\ n \in Nat /\ from + n = writes[src_].size
      BY <1>3, <2>3
    <3>3. processed_' = from
      BY <2>1
    <3> HIDE DEF from, n
    <3>4. Operation(op, from, n)
      BY <1>2, <1>3, <2>1, <3>2, OperationOf
    <3> HIDE DEF op
    <3>5. op \in Handlers
      BY <3>4 DEF Operation, Writing, Told
    <3>6. Asked(op, Tail(ready))
      BY <3>1, <3>5, AskedShape DEF Base, Assumed
    <3> QED
      BY <2>1, <2>3, <3>1, <3>3, <3>4, <3>6 DEF GoesOn, n, from
  <2> QED
    BY <1>3, <2>2, <2>3
<1> QED
  BY <1>1, <1>2, <1>4, <1>5 DEF h

LEMMA ContinueTruth == ASSUME Base, TruthInv, Continue
                       PROVE  TruthInv'
<1>1. /\ UNCHANGED <<transport, request, timer_, posted>>
      /\ Ends(Head(ready)) \/ GoesOn(Head(ready))
      /\ InHandler
  BY ContinueShape
<1>2. ASSUME NEW s \in {"end", "loop"}, Goto(Worker, s)
      PROVE  AtHead' /\ \A t \in Threads : pc'[t] = "issue" => pc[t] = "issue"
  BY <1>2, WorkerState DEF AtHead, Goto, Base, Assumed, TypeInv, ControlTypes
<1>3. CASE Ends(Head(ready))
  <2>1. UNCHANGED <<ready, outgoing, wire>> /\ Goto(Worker, "end")
    BY <1>3 DEF Ends
  <2> QED
    BY <1>1, <1>2, <2>1, SameTruth DEF TruthInv
<1>4. CASE GoesOn(Head(ready))
  <2>1. PICK op : op \in Writing(writes, Len(posted)) /\ Asked(op, Tail(ready))
    BY <1>4 DEF GoesOn, Operation
  <2>2. /\ writes \in Seq(Writes) /\ Len(posted) \in Nat
        /\ Tail(ready) \in Seq(Told(writes, Len(posted)))
    BY <1>1, InCurrent DEF Base, Assumed, OutcomeInv, Numbered
  <2>3. /\ ready' \in Seq(Told(writes, Len(posted))) /\ wire' \in Seq(Fitting(writes))
        /\ outgoing' \in Seq(Writing(writes, Len(posted)))
        /\ transport = "string" => outgoing' = <<>>
    BY <2>1, <2>2, AskedTold DEF TruthInv
  <2> QED
    BY <1>1, <1>2, <1>4, <2>3, SameTruth DEF GoesOn
<1> QED
  BY <1>1, <1>3, <1>4

(* The end of a write posts its callback. *)
LEMMA FinishShape == ASSUME Base, TruthInv, FinishHandler
                     PROVE  /\ InHandler /\ pc[Worker] = "end"
                            /\ ready' = Append(Tail(ready), UserCallback(Head(ready).err))
                            /\ writeId_' = 0 /\ posted' = Append(posted, src_)
                            /\ Len(posted') = Len(posted) + 1 /\ Len(posted) \in Nat
                            /\ src_ = Len(posted) + 1
                            /\ Goto(Worker, "loop")
                            /\ ~InHandler' /\ (\A t \in Threads : pc'[t] # "issue")
                            /\ UNCHANGED <<device, requestedSize_, src_, writes, mine,
                                           processed_, timer_, dump>>
<1>1. /\ InHandler /\ pc[Worker] = "end" /\ Goto(Worker, "loop")
      /\ FinishWrite(Head(ready).err, Tail(ready))
      /\ UNCHANGED <<device, requestedSize_, src_, writes, mine, processed_, timer_, dump>>
  BY DEF FinishHandler, InHandler
<1>2. Busy /\ \A t \in Threads : pc[t] # "issue"
  BY <1>1, InCurrent
<1>3. /\ ready' = Append(Tail(ready), UserCallback(Head(ready).err))
      /\ writeId_' = 0 /\ posted' = Append(posted, src_)
  BY <1>1, <1>2 DEF FinishWrite
<1>4. posted \in Seq(Nat) /\ src_ = Len(writes) /\ Len(writes) = Len(posted) + 1
  BY <1>2 DEF Base, Assumed, OutcomeInv, Numbered, OneOutcome
<1>5. Len(posted') = Len(posted) + 1 /\ Len(posted) \in Nat
  BY <1>3, <1>4
<1>6. ~InHandler' /\ \A t \in Threads : pc'[t] # "issue"
  BY <1>1, <1>2, WorkerState DEF InHandler, Goto, Base, Assumed, TypeInv, ControlTypes
<1> QED
  BY <1>1, <1>3, <1>4, <1>5, <1>6

LEMMA FinishHandlerTruth == ASSUME Base, TruthInv, FinishHandler
                            PROVE  TruthInv'
<1> DEFINE n == Len(posted)
           h == UserCallback(Head(ready).err)
<1>1. /\ InHandler
      /\ ready' = Append(Tail(ready), h)
      /\ writeId_' = 0 /\ Len(posted') = n + 1 /\ n \in Nat /\ src_ = n + 1
      /\ ~InHandler' /\ \A t \in Threads : pc'[t] # "issue"
      /\ UNCHANGED <<device, src_, writes, timer_>>
  BY FinishShape
<1>2. /\ Told(writes, n) \subseteq Told(writes, n + 1)
      /\ Expiring(writes, n) \subseteq Expiring(writes, n + 1)
      /\ Writing(writes, n) \subseteq Writing(writes, n + 1)
  BY <1>1, ToldPosted
<1>3. /\ Tail(ready) \in Seq(Told(writes, n)) /\ Head(ready) \in Handlers
      /\ src_ \in 1..Len(writes)
  BY <1>1, InCurrent
<1>4. h \in Told(writes, n + 1)
  <2>1. Head(ready).err \in BOOLEAN /\ processed_ \in Nat /\ src_ \in Nat
    BY <1>3 DEF Handlers, Base, Assumed, TypeInv, RequestTypes
  <2>2. h \in Handlers /\ h.what = "callback" /\ h.src = src_ /\ ~h.dump
    BY <2>1 DEF UserCallback, Handler, Handlers
  <2> HIDE DEF h
  <2>3. TrueOf(h, writes, n + 1)
    BY <1>1, <1>3, <2>2 DEF TrueOf
  <2> QED
    BY <2>2, <2>3 DEF Told
<1> HIDE DEF h, n
<1>5. Tail(ready) \in Seq(Told(writes, n + 1))
  BY <1>2, <1>3, SeqGrows
<1>6. ready' \in Seq(Told(writes, n + 1))
  BY <1>1, <1>4, <1>5, AppendType
<1>7. timer_ \in Seq(Expiring(writes, n + 1)) /\ outgoing \in Seq(Writing(writes, n + 1))
  <2>1. timer_ \in Seq(Expiring(writes, n)) /\ outgoing \in Seq(Writing(writes, n))
    BY DEF TruthInv, n
  <2> QED
    BY <1>2, <2>1, SeqGrows
<1>8. wire \in Seq(Fitting(writes)) /\ (transport = "string" => outgoing = <<>>)
  BY DEF TruthInv
<1>9. ~Busy' /\ AtHead'
  BY <1>1 DEF Busy, AtHead, InHandler
<1> QED
  BY <1>1, <1>6, <1>7, <1>8, <1>9 DEF TruthInv, device, lifecycle

LEMMA StepTruth == ASSUME Base, TruthInv, [Next]_vars
                   PROVE  TruthInv'
<1>1. CASE Quiet
  <2>1. AtHead'
    BY <1>1 DEF Quiet, AtHead, InHandler, TruthInv
  <2> QED
    BY <1>1, <2>1, MovedTruth DEF Quiet
<1>2. CASE Popped
  BY <1>2, PoppedTruth DEF Popped
<1> QED
  BY <1>1, <1>2, Shapes, NewWriteTruth, IssueTruth, DeviceTruth, TimerTruth, DispatchTruth,
     ContinueTruth, FinishHandlerTruth DEF Base, Assumed

LEMMA TruthInvariance == ASSUME NoWrap, ~SlowCaller PROVE Spec => [](Base /\ TruthInv)
<1>1. Init => TruthInv
  BY InitTruth
<1>2. Base /\ TruthInv /\ [Next]_vars => TruthInv'
  BY StepTruth
<1>3. Assumed /\ LateInv <=> Base
  BY DEF Base
<1> QED
  BY <1>1, <1>2, <1>3, LateInvariance, PTL DEF Spec

(* Whatever the device takes of each operation, and whenever timeouts expire,  *)
(* no operation reaches past the end of the buffer of its write: a            *)
(* continuation asks for what is missing of its own write.                   *)
THEOREM WritesWithinBuffer == ASSUME NoWrap, ~SlowCaller PROVE Spec => []WithinBuffer
<1>1. TruthInv => WithinBuffer
  <2> SUFFICES ASSUME TruthInv PROVE WithinBuffer
    OBVIOUS
  <2>1. \A i \in 1..Len(outgoing) : outgoing[i] \in Writing(writes, Len(posted))
    BY LenType DEF TruthInv
  <2>2. \A i \in 1..Len(wire) : wire[i] \in Fitting(writes)
    BY LenType DEF TruthInv
  <2> QED
    BY <2>1, <2>2 DEF WithinBuffer, Writing, Told, TrueOf, IsAnswer, Fitting
<1> QED
  BY <1>1, TruthInvariance, PTL

(* An answer is an operation but for what it reports. *)
LEMMA AnsweredFields ==
    ASSUME NEW op \in Handlers, NEW k \in 0..op.n, NEW err \in BOOLEAN
    PROVE  /\ k \in Nat /\ Answered(op, k, err) \in Handlers
           /\ Answered(op, k, err).what = op.what
           /\ Answered(op, k, err).id = op.id
           /\ Answered(op, k, err).src = op.src
           /\ Answered(op, k, err).kind = op.kind
           /\ Answered(op, k, err).from = op.from
           /\ Answered(op, k, err).n = k
           /\ Answered(op, k, err).err = err
           /\ Answered(op, k, err).dump = op.dump
<1>1. k \in Nat
  BY DEF Handlers
<1> QED
  BY <1>1, AnsweredType DEF Answered, Handlers

(* All outstanding operations are answered at once, in their order. *)
LEMMA Cancelled ==
    ASSUME outgoing \in Seq(Handlers), Cancel
    PROVE  \E answers \in Seq(Handlers) :
              /\ ready' = ready \o answers /\ outgoing' = <<>>
              /\ Len(answers) = Len(outgoing) /\ Len(outgoing) \in Nat
              /\ \A i \in 1..Len(answers) :
                    /\ answers[i].what = outgoing[i].what /\ answers[i].id = outgoing[i].id
                    /\ answers[i].src = outgoing[i].src /\ answers[i].from = outgoing[i].from
                    /\ answers[i].n = 0 /\ answers[i].dump = outgoing[i].dump
                    /\ answers[i].err
<1> DEFINE answers == [i \in 1..Len(outgoing) |-> Answered(outgoing[i], 0, TRUE)]
<1>1. ready' = ready \o answers /\ outgoing' = <<>>
  BY DEF Cancel
<1>2. Len(outgoing) \in Nat /\ \A i \in 1..Len(outgoing) : outgoing[i] \in Handlers
  BY LenType
<1>3. ASSUME NEW op \in Handlers
      PROVE  LET h == Answered(op, 0, TRUE)
             IN  /\ h \in Handlers /\ h.what = op.what /\ h.id = op.id /\ h.src = op.src
                 /\ h.from = op.from /\ h.n = 0 /\ h.dump = op.dump /\ h.err = TRUE
  <2>1. 0 \in 0..op.n
    BY DEF Handlers
  <2> QED
    BY <2>1, AnsweredFields
<1>4. \A i \in 1..Len(outgoing) :
         /\ Answered(outgoing[i], 0, TRUE) \in Handlers
         /\ answers[i].what = outgoing[i].what /\ answers[i].id = outgoing[i].id
         /\ answers[i].src = outgoing[i].src /\ answers[i].from = outgoing[i].from
         /\ answers[i].n = 0 /\ answers[i].dump = outgoing[i].dump
         /\ answers[i].err = TRUE
  BY <1>2, <1>3
<1>5. answers \in [1..Len(outgoing) -> Handlers]
  BY <1>4, Zenon
<1>6. Len(answers) = Len(outgoing)
  BY <1>2
<1> HIDE DEF answers
<1>7. answers \in Seq(Handlers)
  BY <1>2, <1>5, FunctionType
<1>8. \A i \in 1..Len(answers) :
         /\ answers[i].what = outgoing[i].what /\ answers[i].id = outgoing[i].id
         /\ answers[i].src = outgoing[i].src /\ answers[i].from = outgoing[i].from
         /\ answers[i].n = 0 /\ answers[i].dump = outgoing[i].dump
         /\ answers[i].err
  BY <1>4, <1>6
<1> QED
  BY <1>1, <1>2, <1>6, <1>7, <1>8

-----------------------------------------------------------------------------
(* When write() returns.  Its caller is notified by the callback of a           *)
(* synchronous write, or by the timeout of the current write; with one         *)
(* synchronous caller that callback is of its own write, and a timeout is of a *)
(* later one, unless its own has a timeout.                                   *)

OneSyncCaller == \A c, d \in SyncCallers : c = d

Waits(c) == pc[c] \in {"check", "block", "asleep"}

IsCallback(h) == h.what = "callback"

Silent == {h \in Handlers : ~IsCallback(h)}

(* The caller of a synchronous write waits, or is about to, unnotified. *)
Awaited(h) ==
    \E c \in SyncCallers :
        mine[c] = h.src /\ pc[c] # "idle" /\ (Waits(c) => ~waiterNotified_)

IsSync(t) == t \in SyncCallers /\ mine[t] \in 1..Len(writes) /\ writes[mine[t]].sync

CallersInv ==
    /\ \A t \in Threads : pc[t] = "issue" /\ writes[mine[t]].sync => t \in SyncCallers
    /\ \A c \in Callers : InSync(c) => IsSync(c)

(* A callback is queued after every handler of its write, and of those before. *)
CallbackOrder ==
    \A i, j \in 1..Len(ready) : i < j /\ IsCallback(ready[j]) =>
        /\ ready[i].src <= ready[j].src
        /\ IsCallback(ready[i]) => ready[i].src < ready[j].src

NotifiedInv ==
    /\ \A c \in SyncCallers : Waits(c) /\ waiterNotified_ => Over(mine[c])
    /\ Busy /\ writes[src_].sync => \E c \in SyncCallers : mine[c] = src_ /\ pc[c] # "idle"
    /\ \A i \in 1..Len(ready) :
          IsCallback(ready[i]) /\ writes[ready[i].src].sync => Awaited(ready[i])

SyncInv == CallersInv /\ CallbackOrder /\ (TimedSync \/ NotifiedInv)

(* A queue whose callbacks are those of another, behind no other handlers. *)
SameCallbacks(queue) ==
    \A j \in 1..Len(queue) : IsCallback(queue[j]) =>
        \E l \in 1..Len(ready) :
            /\ queue[j] = ready[l]
            /\ \A i \in 1..(j - 1) : \E k \in 1..(l - 1) : queue[i] = ready[k]

LEMMA QueueCallbacks ==
    ASSUME ready \in Seq(Handlers), NEW queue, NEW new \in Seq(Silent),
           queue = ready \/ (ready # <<>> /\ queue = Tail(ready))
    PROVE  SameCallbacks(queue) /\ SameCallbacks(queue \o new)
<1> DEFINE n == Len(ready)
<1>1. n \in Nat
  OBVIOUS
<1>2. ASSUME queue = ready
      PROVE  SameCallbacks(queue)
  BY <1>2 DEF SameCallbacks
<1>3. ASSUME ready # <<>>, queue = Tail(ready)
      PROVE  SameCallbacks(queue)
  <2>1. /\ Len(queue) = n - 1 /\ queue \in Seq(Handlers)
        /\ \A i \in 1..(n - 1) : i + 1 \in 1..n /\ queue[i] = ready[i + 1]
    BY <1>1, <1>3
  <2>2. ASSUME NEW j \in 1..(n - 1), NEW i \in 1..(j - 1)
        PROVE  \E k \in 1..j : queue[i] = ready[k]
    <3>1. i \in 1..(n - 1) /\ i + 1 \in 1..j
      BY <1>1, <2>2
    <3> QED
      BY <2>1, <3>1
  <2>3. ASSUME NEW j \in 1..(n - 1)
        PROVE  \E l \in 1..n : /\ queue[j] = ready[l]
                               /\ \A i \in 1..(j - 1) : \E k \in 1..(l - 1) : queue[i] = ready[k]
    <3>1. (j + 1) - 1 = j
      BY <1>1
    <3> QED
      BY <2>1, <2>2, <3>1
  <2> QED
    BY <2>1, <2>3 DEF SameCallbacks
<1>4. SameCallbacks(queue) /\ queue \in Seq(Handlers)
  BY <1>2, <1>3, QueueType
<1>5. SameCallbacks(queue \o new)
  <2> DEFINE more == queue \o new
  <2>1. \A i \in 1..Len(new) : new[i] \in Silent
    BY LenType
  <2>2. /\ Len(queue) \in Nat /\ Len(new) \in Nat /\ Len(more) = Len(queue) + Len(new)
        /\ \A i \in 1..Len(queue) : more[i] = queue[i]
        /\ \A i \in 1..Len(more) : i \notin 1..Len(queue) =>
              i - Len(queue) \in 1..Len(new) /\ more[i] = new[i - Len(queue)]
    BY <1>4
  <2> HIDE DEF more
  <2>3. \A i \in 1..Len(more) : IsCallback(more[i]) => i \in 1..Len(queue)
    BY <2>1, <2>2 DEF Silent
  <2>4. \A j \in 1..Len(queue) : \A i \in 1..(j - 1) : more[i] = queue[i]
    BY <2>2
  <2>5. SameCallbacks(more)
    <3> SUFFICES ASSUME NEW j \in 1..Len(more), IsCallback(more[j])
                 PROVE  \E l \in 1..n :
                           /\ more[j] = ready[l]
                           /\ \A i \in 1..(j - 1) : \E k \in 1..(l - 1) : more[i] = ready[k]
      BY DEF SameCallbacks
    <3>1. j \in 1..Len(queue) /\ more[j] = queue[j]
      BY <2>2, <2>3
    <3>2. PICK l \in 1..n :
             /\ queue[j] = ready[l]
             /\ \A i \in 1..(j - 1) : \E k \in 1..(l - 1) : queue[i] = ready[k]
      BY <1>4, <3>1 DEF SameCallbacks
    <3> QED
      BY <2>4, <3>1, <3>2
  <2> QED
    BY <2>5 DEF more
<1> QED
  BY <1>4, <1>5

LEMMA OneMore ==
    ASSUME ready \in Seq(Handlers), NEW queue, NEW h \in Silent,
           queue = ready \/ (ready # <<>> /\ queue = Tail(ready))
    PROVE  SameCallbacks(queue) /\ SameCallbacks(Append(queue, h))
<1>1. queue \in Seq(Handlers)
  BY QueueType
<1>2. <<h>> \in Seq(Silent) /\ Append(queue, h) = queue \o <<h>>
  BY <1>1
<1> QED
  BY <1>2, QueueCallbacks

LEMMA KeptOrder == ASSUME CallbackOrder, SameCallbacks(ready'), ready' \in Seq(Handlers), ready \in Seq(Handlers)
                   PROVE  CallbackOrder'
<1> SUFFICES ASSUME NEW i \in 1..Len(ready'), NEW j \in 1..Len(ready'), i < j, IsCallback(ready'[j])
             PROVE  /\ ready'[i].src <= ready'[j].src
                    /\ IsCallback(ready'[i]) => ready'[i].src < ready'[j].src
  BY DEF CallbackOrder, IsCallback
<1>1. i \in 1..(j - 1)
  OBVIOUS
<1>2. PICK l \in 1..Len(ready) :
         /\ ready'[j] = ready[l]
         /\ \A m \in 1..(j - 1) : \E k \in 1..(l - 1) : ready'[m] = ready[k]
  BY DEF SameCallbacks
<1>3. PICK k \in 1..(l - 1) : ready'[i] = ready[k]
  BY <1>1, <1>2
<1>4. k \in 1..Len(ready) /\ k < l
  BY <1>3
<1> QED
  BY <1>2, <1>3, <1>4 DEF CallbackOrder

(* How a step may move the threads. *)
Stays ==
    /\ \A t \in Threads : pc'[t] = "issue" => pc[t] = "issue"
    /\ \A c \in Callers :
          /\ Waits(c)' => Waits(c)
          /\ InSync(c)' => InSync(c) \/ IsSync(c)
          /\ pc[c] # "idle" /\ pc'[c] = "idle" => ~writes[mine[c]].sync

LEMMA CallersSync == SyncCallers \subseteq Callers /\ Callers \subseteq Threads /\ Worker \notin Callers
  BY WriterAssumption DEF Threads

LEMMA QueuedSrc ==
    ASSUME Base, TruthInv
    PROVE  /\ ready \in Seq(Handlers) /\ Len(posted) \in Nat /\ Len(writes) \in Nat
           /\ \A i \in 1..Len(ready) :
                 /\ ready[i].src \in 1..Len(writes)
                 /\ IsCallback(ready[i]) => ready[i].src \in 1..Len(posted)
<1>1. /\ ready \in Seq(Handlers) /\ Len(posted) \in Nat /\ Len(writes) \in Nat
  BY DEF Base, Assumed, OutcomeInv, Numbered, TypeInv, DeviceTypes
<1>2. \A i \in 1..Len(ready) : ready[i] \in Told(writes, Len(posted))
  BY LenType DEF TruthInv
<1> QED
  BY <1>1, <1>2 DEF Told, TrueOf, IsCallback

LEMMA KeptSync ==
    ASSUME Base, TruthInv, SyncInv, Stays, SameCallbacks(ready'), ready' \in Seq(Handlers),
           UNCHANGED <<request, waiterNotified_, posted>>
    PROVE  SyncInv'
<1> USE CallersSync
<1>1. UNCHANGED <<writeId_, src_, writes, mine>>
  BY DEF request
<1>2. CallersInv'
  BY <1>1 DEF SyncInv, CallersInv, Stays, IsSync, InSync
<1>3. CallbackOrder'
  BY KeptOrder, QueuedSrc DEF SyncInv
<1>4. ASSUME NotifiedInv
      PROVE  NotifiedInv'
  <2>1. \A c \in SyncCallers : Waits(c)' /\ waiterNotified_' => Over(mine[c])'
    BY <1>1, <1>4 DEF NotifiedInv, Stays, Over
  <2>2. ASSUME NEW c \in SyncCallers, pc[c] # "idle", writes[mine[c]].sync
        PROVE  pc'[c] # "idle"
    BY <2>2 DEF Stays
  <2>3. Busy' /\ writes'[src_'].sync => \E c \in SyncCallers : mine'[c] = src_' /\ pc'[c] # "idle"
    BY <1>1, <1>4, <2>2 DEF NotifiedInv, Busy
  <2>4. ASSUME NEW i \in 1..Len(ready'), IsCallback(ready'[i]), writes[ready'[i].src].sync
        PROVE  \E c \in SyncCallers :
                  mine[c] = ready'[i].src /\ pc'[c] # "idle" /\ (Waits(c)' => ~waiterNotified_)
    <3>1. PICK k \in 1..Len(ready) : ready'[i] = ready[k]
      BY <2>4 DEF SameCallbacks
    <3>2. PICK c \in SyncCallers :
             mine[c] = ready[k].src /\ pc[c] # "idle" /\ (Waits(c) => ~waiterNotified_)
      BY <1>4, <2>4, <3>1 DEF NotifiedInv, Awaited
    <3>3. pc'[c] # "idle" /\ (Waits(c)' => ~waiterNotified_)
      BY <2>2, <2>4, <3>1, <3>2 DEF Stays
    <3> QED
      BY <3>1, <3>2, <3>3
  <2> QED
    BY <1>1, <2>1, <2>3, <2>4 DEF NotifiedInv, Awaited, IsCallback
<1>5. TimedSync => TimedSync'
  BY <1>1 DEF TimedSync
<1> QED
  BY <1>2, <1>3, <1>4, <1>5 DEF SyncInv

LEMMA StillStays == pc' = pc => Stays
  BY CallersSync DEF Stays, Waits, InSync

(* The worker goes from one place in the code to another. *)
LEMMA WorkerStays ==
    ASSUME ControlTypes, NEW s, s # "issue", Goto(Worker, s)
    PROVE  Stays
<1>1. pc'[Worker] = s /\ \A u \in Threads : u # Worker => pc'[u] = pc[u]
  BY WorkerState DEF Goto, ControlTypes
<1> QED
  BY <1>1, CallersSync DEF Stays, Waits, InSync

(* The next write is accepted when none is in progress. *)
LEMMA NewWriteSync == ASSUME Base, TruthInv, SyncInv, NEW t \in Threads, NewWrite(t), TypeInv'
                      PROVE  SyncInv'
<1> USE CallersSync
<1> DEFINE n == Len(writes)
<1>1. PICK kind \in Kinds, size \in Sizes, timed \in Timeouts, sync \in BOOLEAN :
         /\ MayCall(t, sync)
         /\ ~Busy
         /\ src_' = n + 1
         /\ writes' = Append(writes, [kind |-> kind, size |-> size, timed |-> timed, sync |-> sync])
         /\ mine' = [mine EXCEPT ![t] = n + 1]
         /\ IF timed THEN Arm(NextId, n + 1) ELSE UNCHANGED <<ready, timer_>>
         /\ Goto(t, "issue")
         /\ UNCHANGED <<waiterNotified_, posted>>
  BY DEF NewWrite
<1>2. /\ n \in Nat /\ Len(writes') = n + 1
      /\ \A k \in 1..n : writes'[k] = writes[k]
      /\ writes'[n + 1].sync = sync /\ writes'[n + 1].timed = timed
      /\ Len(posted) = n
  BY <1>1 DEF Base, Assumed, OutcomeInv, Numbered, OneOutcome
<1>3. /\ pc'[t] = "issue" /\ \A u \in Threads : u # t => pc'[u] = pc[u]
      /\ mine'[t] = n + 1 /\ \A u \in Threads : u # t => mine'[u] = mine[u]
  BY <1>1 DEF Goto, Base, Assumed, TypeInv, ControlTypes, RequestTypes
<1>4. /\ sync => t \in SyncCallers
      /\ t \in Callers => pc[t] = "idle"
      /\ pc[t] # "issue" /\ ~InSync(t)
  BY <1>1 DEF MayCall, InUserCode, InSync
<1>5. /\ ready \in Seq(Handlers) /\ ready' \in Seq(Handlers)
      /\ \A i \in 1..Len(ready) :
            /\ ready[i].src \in 1..n
            /\ IsCallback(ready[i]) => ready[i].src \in 1..Len(posted)
  BY QueuedSrc DEF TypeInv, DeviceTypes
<1>6. SameCallbacks(ready')
  <2>1. timer_ \in Seq(Silent)
    BY DEF TruthInv, Expiring, Told, Silent, IsCallback
  <2>2. UNCHANGED ready \/ ready' = ready \o timer_
    BY <1>1 DEF Arm
  <2> QED
    BY <1>5, <2>1, <2>2, QueueCallbacks
<1>7. CallersInv'
  <2>1. \A u \in Threads : pc'[u] = "issue" /\ writes'[mine'[u]].sync => u \in SyncCallers
    <3> SUFFICES ASSUME NEW u \in Threads, pc'[u] = "issue", writes'[mine'[u]].sync, u # t
                 PROVE  u \in SyncCallers
      BY <1>2, <1>3, <1>4
    <3>1. pc[u] = "issue" /\ mine'[u] = mine[u]
      BY <1>3
    <3>2. mine[u] \in 1..n
      BY <3>1 DEF Base, Assumed, TypeInv, Issuing
    <3> QED
      BY <1>2, <3>1, <3>2 DEF SyncInv, CallersInv
  <2>2. ASSUME NEW c \in Callers, InSync(c)'
        PROVE  IsSync(c)'
    <3>1. c # t /\ InSync(c) /\ mine'[c] = mine[c]
      BY <1>3, <2>2 DEF InSync
    <3>2. IsSync(c)
      BY <3>1 DEF SyncInv, CallersInv
    <3> QED
      BY <1>2, <3>1, <3>2 DEF IsSync
  <2> QED
    BY <2>1, <2>2 DEF CallersInv
<1>8. CallbackOrder'
  BY <1>5, <1>6, KeptOrder DEF SyncInv
<1>9. TimedSync => TimedSync'
  BY <1>2 DEF TimedSync
<1>10. ASSUME NotifiedInv
       PROVE  NotifiedInv'
  <2>1. \A c \in SyncCallers : Waits(c)' /\ waiterNotified_' => Over(mine[c])'
    BY <1>1, <1>3, <1>10 DEF NotifiedInv, Waits, Over
  <2>2. Busy' /\ writes'[src_'].sync => \E c \in SyncCallers : mine'[c] = src_' /\ pc'[c] # "idle"
    BY <1>1, <1>2, <1>3, <1>4
  <2>3. ASSUME NEW i \in 1..Len(ready'), IsCallback(ready'[i]), writes'[ready'[i].src].sync
        PROVE  \E c \in SyncCallers :
                  mine'[c] = ready'[i].src /\ pc'[c] # "idle" /\ (Waits(c)' => ~waiterNotified_)
    <3>1. PICK k \in 1..Len(ready) : ready'[i] = ready[k]
      BY <1>6, <2>3 DEF SameCallbacks
    <3>2. writes[ready[k].src].sync
      BY <1>2, <1>5, <2>3, <3>1
    <3>3. PICK c \in SyncCallers :
             mine[c] = ready[k].src /\ pc[c] # "idle" /\ (Waits(c) => ~waiterNotified_)
      BY <1>10, <2>3, <3>1, <3>2 DEF NotifiedInv, Awaited
    <3>4. c # t /\ c \in Threads
      BY <1>4, <3>3
    <3>5. pc'[c] = pc[c] /\ mine'[c] = mine[c]
      BY <1>3, <3>4
    <3> QED
      BY <3>1, <3>3, <3>5 DEF Waits
  <2> QED
    BY <1>1, <2>1, <2>2, <2>3 DEF NotifiedInv, Awaited, IsCallback
<1> QED
  BY <1>7, <1>8, <1>9, <1>10 DEF SyncInv

(* The end of a write queues its callback, for a caller that still waits. *)
LEMMA FinishHandlerSync == ASSUME Base, TruthInv, SyncInv, FinishHandler
                           PROVE  SyncInv'
<1> USE CallersSync
<1> DEFINE h     == UserCallback(Head(ready).err)
           n     == Len(posted)
           queue == Tail(ready)
           last  == Len(queue) + 1
<1>1. /\ ready # <<>> /\ ready' = Append(queue, h)
      /\ writeId_' = 0 /\ posted' = Append(posted, src_) /\ Len(posted') = n + 1 /\ n \in Nat
      /\ src_ = n + 1 /\ src_ = Len(writes) /\ Busy
      /\ Goto(Worker, "loop") /\ UNCHANGED <<writes, src_, mine, waiterNotified_>>
  BY FinishShape, InCurrent DEF FinishHandler, waiter
<1>2. Stays
  BY <1>1, WorkerStays DEF Base, Assumed, TypeInv
<1>3. h.src = src_ /\ IsCallback(h)
  BY DEF UserCallback, Handler, IsCallback
<1>4. /\ ready \in Seq(Handlers)
      /\ \A k \in 1..Len(ready) :
            /\ ready[k].src \in 1..Len(writes)
            /\ IsCallback(ready[k]) => ready[k].src \in 1..n
  BY QueuedSrc
<1>5. /\ queue \in Seq(Handlers) /\ Len(queue) \in Nat /\ Len(queue) = Len(ready) - 1
      /\ \A i \in 1..Len(queue) :
            /\ i + 1 \in 1..Len(ready)
            /\ ready'[i] = ready[i + 1]
      /\ Len(ready') = last /\ ready'[last] = h
  BY <1>1, <1>4
<1> HIDE DEF h, queue
<1>6. \A i \in 1..last : i \in 1..Len(queue) \/ i = last
  BY <1>5
<1>7. CallersInv'
  BY <1>1, <1>2 DEF SyncInv, CallersInv, Stays, IsSync, InSync
<1>8. CallbackOrder'
  <2> SUFFICES ASSUME NEW i \in 1..last, NEW j \in 1..last, i < j, IsCallback(ready'[j])
               PROVE  /\ ready'[i].src <= ready'[j].src
                      /\ IsCallback(ready'[i]) => ready'[i].src < ready'[j].src
    BY <1>5 DEF CallbackOrder, IsCallback
  <2>1. i \in 1..Len(queue)
    BY <1>5
  <2>2. CASE j = last
    <3>0. i + 1 \in 1..Len(ready)
      BY <1>5, <2>1
    <3>1. ready[i + 1].src <= src_
      BY <1>1, <1>4, <3>0
    <3>2. IsCallback(ready[i + 1]) => ready[i + 1].src < src_
      BY <1>1, <1>4, <3>0
    <3> QED
      BY <1>3, <1>5, <2>1, <2>2, <3>1, <3>2
  <2>3. CASE j \in 1..Len(queue)
    <3>1. i + 1 < j + 1
      BY <1>5, <2>1
    <3> QED
      BY <1>5, <2>1, <2>3, <3>1 DEF SyncInv, CallbackOrder
  <2> QED
    BY <1>6, <2>2, <2>3
<1>9. ASSUME NotifiedInv
      PROVE  NotifiedInv'
  <2>1. \A c \in SyncCallers : Waits(c)' /\ waiterNotified_' => Over(mine[c])'
    <3> SUFFICES ASSUME NEW c \in SyncCallers, Waits(c)', waiterNotified_'
                 PROVE  mine[c] <= n + 1
      BY <1>1 DEF Over
    <3>1. mine[c] <= n
      BY <1>1, <1>2, <1>9 DEF NotifiedInv, Stays, Over
    <3>2. mine[c] \in Nat
      BY DEF Base, Assumed, TypeInv, RequestTypes
    <3> QED
      BY <1>1, <3>1, <3>2
  <2>2. ASSUME NEW c \in SyncCallers, pc[c] # "idle", writes[mine[c]].sync
        PROVE  pc'[c] # "idle"
    BY <1>2, <2>2 DEF Stays
  <2>3. ASSUME writes[src_].sync
        PROVE  \E c \in SyncCallers :
                  mine[c] = src_ /\ pc'[c] # "idle" /\ (Waits(c)' => ~waiterNotified_)
    <3>1. PICK c \in SyncCallers : mine[c] = src_ /\ pc[c] # "idle"
      BY <1>1, <1>9, <2>3 DEF NotifiedInv
    <3>2. ~Over(mine[c])
      BY <1>1, <3>1 DEF Over
    <3>3. Waits(c)' => ~waiterNotified_
      BY <1>2, <1>9, <3>2 DEF NotifiedInv, Stays
    <3> QED
      BY <2>2, <2>3, <3>1, <3>3
  <2>4. ASSUME NEW i \in 1..Len(queue), IsCallback(ready'[i]), writes[ready'[i].src].sync
        PROVE  \E c \in SyncCallers :
                  mine[c] = ready'[i].src /\ pc'[c] # "idle" /\ (Waits(c)' => ~waiterNotified_)
    <3>1. ready'[i] = ready[i + 1] /\ i + 1 \in 1..Len(ready)
      BY <1>5, <2>4
    <3>2. PICK c \in SyncCallers :
             mine[c] = ready[i + 1].src /\ pc[c] # "idle" /\ (Waits(c) => ~waiterNotified_)
      BY <1>9, <2>4, <3>1 DEF NotifiedInv, Awaited
    <3>3. pc'[c] # "idle" /\ (Waits(c)' => ~waiterNotified_)
      BY <1>2, <2>2, <2>4, <3>1, <3>2 DEF Stays
    <3> QED
      BY <3>1, <3>2, <3>3
  <2>5. ~Busy'
    BY <1>1 DEF Busy
  <2>6. \A i \in 1..last : IsCallback(ready'[i]) /\ writes[ready'[i].src].sync =>
           \E c \in SyncCallers :
              mine[c] = ready'[i].src /\ pc'[c] # "idle" /\ (Waits(c)' => ~waiterNotified_)
    BY <1>3, <1>5, <1>6, <2>3, <2>4
  <2> QED
    BY <1>1, <1>5, <2>1, <2>5, <2>6 DEF NotifiedInv, Awaited, IsCallback
<1>10. TimedSync => TimedSync'
  BY <1>1 DEF TimedSync
<1> QED
  BY <1>7, <1>8, <1>9, <1>10 DEF SyncInv

(* A callback notifies the only synchronous caller, whose write it is. *)
LEMMA WriteCallbackSync == ASSUME OneSyncCaller, Base, TruthInv, SyncInv, WriteCallback, TypeInv'
                           PROVE  SyncInv'
<1> USE CallersSync
<1> DEFINE h == Head(ready)
<1>1. /\ ready # <<>> /\ IsCallback(h) /\ writes[h.src].sync /\ waiterNotified_'
      /\ ready' = Tail(ready)
      /\ UNCHANGED <<writeId_, src_, writes, mine, pc, posted>>
  BY DEF WriteCallback, IsCallback, request
<1>2. /\ ready \in Seq(Handlers) /\ ready' \in Seq(Handlers)
      /\ \A k \in 1..Len(ready) : IsCallback(ready[k]) => ready[k].src \in 1..Len(posted)
  BY QueuedSrc DEF TypeInv, DeviceTypes
<1>3. /\ h = ready[1] /\ 1 \in 1..Len(ready)
      /\ Len(ready') = Len(ready) - 1 /\ Len(ready) \in Nat
      /\ \A i \in 1..Len(ready') :
            i + 1 \in 1..Len(ready) /\ 1 < i + 1 /\ ready'[i] = ready[i + 1]
  BY <1>1, <1>2
<1> HIDE DEF h
<1>4. SameCallbacks(ready')
  <2>1. <<>> \in Seq(Silent)
    OBVIOUS
  <2> QED
    BY <1>1, <1>2, <2>1, QueueCallbacks
<1>5. CallersInv' /\ CallbackOrder'
  BY <1>1, <1>2, <1>4, KeptOrder DEF SyncInv, CallersInv, IsSync, InSync
<1>6. ASSUME NotifiedInv
      PROVE  NotifiedInv'
  <2>1. h.src \in 1..Len(posted) /\ Awaited(h)
    BY <1>1, <1>2, <1>3, <1>6 DEF NotifiedInv
  <2>2. PICK c \in SyncCallers : mine[c] = h.src /\ pc[c] # "idle"
    BY <2>1 DEF Awaited
  <2>3. \A d \in SyncCallers : d = c
    BY DEF OneSyncCaller
  <2>4. \A d \in SyncCallers : Over(mine[d])'
    BY <1>1, <2>1, <2>2, <2>3 DEF Over
  <2>5. ASSUME NEW i \in 1..Len(ready'), IsCallback(ready'[i])
        PROVE  ~writes[ready'[i].src].sync
    <3>1. ready'[i] = ready[i + 1] /\ i + 1 \in 1..Len(ready) /\ 1 < i + 1
      BY <1>3
    <3>2. /\ ready[i + 1].src \in 1..Len(posted)
          /\ writes[ready[i + 1].src].sync => Awaited(ready[i + 1])
      BY <1>2, <1>6, <2>5, <3>1 DEF NotifiedInv
    <3>3. h.src < ready[i + 1].src
      BY <1>1, <1>3, <2>5, <3>1 DEF SyncInv, CallbackOrder
    <3>4. Awaited(ready[i + 1]) => mine[c] = ready[i + 1].src
      BY <2>3 DEF Awaited
    <3>5. h.src \in Nat /\ ready[i + 1].src \in Nat
      BY <2>1, <3>2
    <3> QED
      BY <2>2, <3>1, <3>2, <3>3, <3>4, <3>5
  <2>6. Busy' /\ writes'[src_'].sync => \E d \in SyncCallers : mine'[d] = src_' /\ pc'[d] # "idle"
    BY <1>1, <1>6 DEF NotifiedInv, Busy
  <2> QED
    BY <1>1, <2>4, <2>5, <2>6 DEF NotifiedInv, IsCallback
<1>7. TimedSync => TimedSync'
  BY <1>1 DEF TimedSync
<1> QED
  BY <1>5, <1>6, <1>7 DEF SyncInv

(* A timeout notifies the caller of its own write, or of one that is over; no  *)
(* callback is left, since the timeout was queued after those before it.      *)
LEMMA TimeoutSync == ASSUME Base, TruthInv, SyncInv, TimeoutNotifies
                     PROVE  SyncInv'
<1> USE CallersSync
<1> DEFINE n == Len(posted)
<1>1. /\ pc[Worker] = "timeout" /\ InHandler /\ Goto(Worker, "end")
      /\ UNCHANGED <<ready, writeId_, src_, writes, mine, posted>>
  BY DEF TimeoutNotifies, InHandler, request
<1>2. Stays
  BY <1>1, WorkerStays DEF Base, Assumed, TypeInv
<1>3. /\ Busy /\ src_ = Len(writes) /\ src_ = n + 1 /\ n \in Nat
      /\ 1 \in 1..Len(ready) /\ ready[1].src = src_ /\ ready[1].what = "timeout"
      /\ src_ \in 1..Len(writes) /\ writes[src_].timed
  <2>1. /\ Head(ready).what = "timeout" /\ Head(ready) \in Told(writes, n)
        /\ Head(ready) = ready[1] /\ Head(ready).src = src_ /\ 1 \in 1..Len(ready) /\ Busy
        /\ src_ = Len(writes) /\ src_ \in 1..Len(writes)
    BY <1>1, InCurrent DEF TruthInv, AtHead
  <2>2. Len(writes) = n + 1 /\ n \in Nat
    BY <2>1 DEF Base, Assumed, OutcomeInv, Numbered, OneOutcome
  <2> QED
    BY <2>1, <2>2 DEF Told, TrueOf
<1>4. CallersInv' /\ CallbackOrder'
  BY <1>1, <1>2 DEF SyncInv, CallersInv, CallbackOrder, Stays, IsSync, InSync, IsCallback
<1>5. ASSUME NEW j \in 1..Len(ready), IsCallback(ready[j])
      PROVE  FALSE
  <2>1. j # 1
    BY <1>3, <1>5 DEF IsCallback
  <2>2. ready[j].src \in 1..n
    BY <1>5, QueuedSrc
  <2>3. ready[1].src <= ready[j].src
    BY <1>3, <1>5, <2>1 DEF SyncInv, CallbackOrder
  <2> QED
    BY <1>3, <2>2, <2>3
<1>6. ASSUME NotifiedInv, ~TimedSync
      PROVE  NotifiedInv'
  <2>1. ASSUME NEW c \in SyncCallers, Waits(c)'
        PROVE  Over(mine[c])
    <3>1. IsSync(c)
      BY <1>2, <2>1 DEF Stays, SyncInv, CallersInv, InSync, Waits
    <3>2. mine[c] # src_
      BY <1>3, <1>6, <3>1 DEF IsSync, TimedSync
    <3> QED
      BY <1>3, <3>1, <3>2 DEF IsSync, Over
  <2>2. \A c \in SyncCallers : pc'[c] = pc[c]
    BY <1>1 DEF Goto, Base, Assumed, TypeInv, ControlTypes
  <2>3. Busy' /\ writes'[src_'].sync => \E c \in SyncCallers : mine'[c] = src_' /\ pc'[c] # "idle"
    BY <1>1, <1>6, <2>2 DEF NotifiedInv, Busy
  <2> QED
    BY <1>1, <1>5, <2>1, <2>3 DEF NotifiedInv, Over, IsCallback
<1>7. TimedSync => TimedSync'
  BY <1>1 DEF TimedSync
<1> QED
  BY <1>4, <1>6, <1>7 DEF SyncInv

LEMMA NotifiedSync ==
    ASSUME Base, TruthInv, SyncInv, NEW c \in Callers, ResetNotified(c) \/ CheckNotified(c)
    PROVE  SyncInv'
<1> USE CallersSync
<1>1. /\ UNCHANGED <<ready, posted, writeId_, src_, writes, mine>> /\ InSync(c)
  BY DEF ResetNotified, CheckNotified, InSync, request
<1>2. PICK s \in {"check", "idle", "block"} : Goto(c, s)
  BY DEF ResetNotified, CheckNotified
<1>3. pc'[c] = s /\ \A u \in Threads : u # c => pc'[u] = pc[u]
  BY <1>2 DEF Goto, Base, Assumed, TypeInv, ControlTypes
<1>4. ~waiterNotified_' \/ (waiterNotified_' = waiterNotified_ /\ pc[c] = "check")
  BY DEF ResetNotified, CheckNotified
<1>5. s = "idle" => Waits(c) /\ waiterNotified_
  BY <1>3, <1>4 DEF ResetNotified, CheckNotified, Waits, Goto, Base, Assumed, TypeInv, ControlTypes
<1>6. /\ \A t \in Threads : pc'[t] = "issue" => pc[t] = "issue"
      /\ \A d \in Callers : InSync(d)' => InSync(d)
      /\ \A d \in SyncCallers : Waits(d)' /\ waiterNotified_' => Waits(d) /\ waiterNotified_
  BY <1>1, <1>3, <1>4 DEF InSync, Waits
<1>7. ASSUME NEW d \in SyncCallers, pc[d] # "idle", ~(Waits(d) /\ waiterNotified_)
      PROVE  pc'[d] # "idle" /\ (Waits(d)' => ~waiterNotified_')
  BY <1>3, <1>5, <1>6, <1>7
<1>8. CallersInv' /\ CallbackOrder'
  BY <1>1, <1>6 DEF SyncInv, CallersInv, CallbackOrder, IsSync, IsCallback
<1>9. ASSUME NotifiedInv
      PROVE  NotifiedInv'
  <2>1. \A d \in SyncCallers : Waits(d)' /\ waiterNotified_' => Over(mine[d])'
    BY <1>1, <1>6, <1>9 DEF NotifiedInv, Over
  <2>2. ASSUME Busy, writes[src_].sync
        PROVE  \E d \in SyncCallers : mine[d] = src_ /\ pc'[d] # "idle"
    <3>1. PICK d \in SyncCallers : mine[d] = src_ /\ pc[d] # "idle"
      BY <1>9, <2>2 DEF NotifiedInv
    <3>2. ~Over(src_)
      BY <2>2 DEF Busy, Over, Base, Assumed, OutcomeInv, Numbered, OneOutcome
    <3>3. ~(Waits(d) /\ waiterNotified_)
      BY <1>9, <3>1, <3>2 DEF NotifiedInv
    <3> QED
      BY <1>7, <3>1, <3>3
  <2>3. ASSUME NEW h, Awaited(h)
        PROVE  \E d \in SyncCallers :
                  mine[d] = h.src /\ pc'[d] # "idle" /\ (Waits(d)' => ~waiterNotified_')
    BY <1>7, <2>3 DEF Awaited
  <2>4. \A i \in 1..Len(ready) : IsCallback(ready[i]) /\ writes[ready[i].src].sync =>
           \E d \in SyncCallers :
              mine[d] = ready[i].src /\ pc'[d] # "idle" /\ (Waits(d)' => ~waiterNotified_')
    BY <1>9, <2>3 DEF NotifiedInv
  <2> QED
    BY <1>1, <2>1, <2>2, <2>4 DEF NotifiedInv, Awaited, IsCallback, Busy
<1>10. TimedSync => TimedSync'
  BY <1>1 DEF TimedSync
<1> QED
  BY <1>8, <1>9, <1>10 DEF SyncInv

(* What the device answers is no callback. *)
LEMMA AskedSync ==
    ASSUME ready \in Seq(Handlers), NEW op \in Writing(writes, Len(posted)), NEW queue,
           queue = ready \/ (ready # <<>> /\ queue = Tail(ready)), Asked(op, queue)
    PROVE  SameCallbacks(ready')
<1>1. op \in Handlers /\ IsAnswer(op)
  BY DEF Writing, Told
<1>2. ASSUME NEW k \in 0..op.n, Takes(op, queue, k, FALSE)
      PROVE  SameCallbacks(ready')
  <2>1. Answered(op, k, FALSE) \in Silent
    BY <1>1, AnsweredFields DEF Silent, IsAnswer, IsCallback
  <2> QED
    BY <1>2, <2>1, OneMore DEF Takes
<1>3. ASSUME ready' = queue
      PROVE  SameCallbacks(ready')
  <2>1. <<>> \in Seq(Silent)
    OBVIOUS
  <2> QED
    BY <1>3, <2>1, QueueCallbacks
<1> QED
  BY <1>2, <1>3 DEF Asked

LEMMA DeviceSync == ASSUME Base, TruthInv, SyncInv, DeviceMoves, TypeInv'
                    PROVE  SyncInv'
<1>1. UNCHANGED <<request, waiterNotified_, posted>> /\ pc' = pc
  BY DEF DeviceMoves, waiter
<1>2. /\ ready \in Seq(Handlers) /\ ready' \in Seq(Handlers)
      /\ outgoing \in Seq(Writing(writes, Len(posted)))
      /\ outgoing \in Seq(Handlers)
  BY DEF TypeInv, DeviceTypes, Base, Assumed, TruthInv
<1>3. SameCallbacks(ready')
  <2>1. ASSUME outgoing # <<>>, NEW k \in 0..Head(outgoing).n, NEW err \in BOOLEAN,
               Takes(Head(outgoing), ready, k, err)
        PROVE  SameCallbacks(ready')
    <3>1. Head(outgoing) \in Handlers /\ IsAnswer(Head(outgoing))
      BY <1>2, <2>1, QueueType DEF Writing, Told
    <3>2. Answered(Head(outgoing), k, err) \in Silent
      BY <3>1, AnsweredFields DEF Silent, IsAnswer, IsCallback
    <3> QED
      BY <1>2, <2>1, <3>2, OneMore DEF Takes
  <2>2. ASSUME Cancel
        PROVE  SameCallbacks(ready')
    <3>1. PICK answers \in Seq(Handlers) :
             /\ ready' = ready \o answers
             /\ Len(answers) = Len(outgoing)
             /\ \A i \in 1..Len(answers) : answers[i].what = outgoing[i].what
      BY <1>2, <2>2, Cancelled
    <3>2. \A i \in 1..Len(outgoing) : IsAnswer(outgoing[i])
      BY <1>2, LenType DEF Writing
    <3>3. \A i \in 1..Len(answers) : answers[i] \in Silent
      BY <3>1, <3>2, LenType DEF Silent, IsAnswer, IsCallback
    <3>4. answers \in Seq(Silent)
      <4>1. answers \in [1..Len(answers) -> Silent] /\ Len(answers) \in Nat
        BY <3>3
      <4> QED
        BY <4>1, FunctionType
    <3> QED
      BY <1>2, <3>1, <3>4, QueueCallbacks
  <2>3. ASSUME ready' = ready
        PROVE  SameCallbacks(ready')
    <3>1. <<>> \in Seq(Silent)
      OBVIOUS
    <3> QED
      BY <1>2, <2>3, <3>1, QueueCallbacks
  <2>4. Served
    BY ServedShape DEF Base, Assumed
  <2> QED
    BY <2>1, <2>2, <2>3, <2>4 DEF Served
<1> QED
  BY <1>1, <1>2, <1>3, StillStays, KeptSync

LEMMA IssueSync == ASSUME Base, TruthInv, SyncInv, NEW t \in Threads, Issue(t), TypeInv'
                   PROVE  SyncInv'
<1>1. /\ pc[t] = "issue" /\ Goto(t, Started(t))
      /\ UNCHANGED <<request, waiterNotified_, posted>>
  BY DEF Issue, waiter
<1>2. PICK op : Operation(op, 0, requestedSize_) /\ Asked(op, ready)
  BY IssueShape
<1>3. ready \in Seq(Handlers) /\ ready' \in Seq(Handlers)
  BY DEF TypeInv, DeviceTypes, Base, Assumed
<1>4. SameCallbacks(ready')
  BY <1>2, <1>3, AskedSync DEF Operation
<1>5. Stays
  <2>1. pc'[t] = Started(t) /\ \A u \in Threads : u # t => pc'[u] = pc[u]
    BY <1>1 DEF Goto, Base, Assumed, TypeInv, ControlTypes
  <2>2. /\ Started(t) \in {"loop", "reset", "idle"}
        /\ Started(t) = "reset" => IsSync(t)
        /\ t \in Callers /\ Started(t) = "idle" => ~writes[mine[t]].sync
    <3>1. mine[t] \in 1..Len(writes)
      BY <1>1 DEF Base, Assumed, TypeInv, Issuing
    <3> QED
      BY <1>1, <3>1, CallersSync DEF Started, SyncInv, CallersInv, IsSync
  <2> QED
    BY <2>1, <2>2, CallersSync DEF Stays, Waits, InSync
<1> QED
  BY <1>1, <1>3, <1>4, <1>5, KeptSync

LEMMA ContinueSync == ASSUME Base, TruthInv, SyncInv, Continue, TypeInv'
                      PROVE  SyncInv'
<1>1. /\ InHandler /\ UNCHANGED <<request, waiterNotified_, posted>>
      /\ Ends(Head(ready)) \/ GoesOn(Head(ready))
  BY ContinueShape DEF Continue, waiter
<1>2. ready \in Seq(Handlers) /\ ready' \in Seq(Handlers) /\ ready # <<>>
  BY <1>1, InCurrent DEF TypeInv, DeviceTypes, Base, Assumed
<1>3. SameCallbacks(ready')
  <2>1. CASE ready' = ready
    <3>1. <<>> \in Seq(Silent)
      OBVIOUS
    <3> QED
      BY <1>2, <2>1, <3>1, QueueCallbacks
  <2>2. ASSUME NEW op, Operation(op, processed_', requestedSize_ - processed_'),
               Asked(op, Tail(ready))
        PROVE  SameCallbacks(ready')
    BY <1>2, <2>2, AskedSync DEF Operation
  <2> QED
    BY <1>1, <2>1, <2>2 DEF Ends, GoesOn
<1>4. Stays
  BY <1>1, WorkerStays DEF Ends, GoesOn, Base, Assumed, TypeInv
<1> QED
  BY <1>1, <1>2, <1>3, <1>4, KeptSync

LEMMA OtherStepsSync ==
    ASSUME Base, TruthInv, SyncInv, TypeInv',
           \/ DropHandler \/ EnterHandler \/ EnterCallback \/ LeaveCallback \/ TimerExpires
           \/ \E t \in Threads : Refused(t) \/ EnableDump(t) \/ DisableDump(t)
           \/ \E c \in Callers : Block(c) \/ Wake(c) \/ SpuriousWake(c)
           \/ UNCHANGED vars
    PROVE  SyncInv'
<1> USE CallersSync
<1>0. ready \in Seq(Handlers) /\ ready' \in Seq(Handlers) /\ ControlTypes
  BY DEF TypeInv, DeviceTypes, Base, Assumed
<1>1. UNCHANGED <<request, waiterNotified_, posted>>
  BY DEF DropHandler, EnterHandler, EnterCallback, LeaveCallback, TimerExpires, Refused,
         EnableDump, DisableDump, Block, Wake, SpuriousWake, vars, waiter
<1>2. SameCallbacks(ready')
  <2>1. \/ ready' = ready
        \/ ready # <<>> /\ ready' = Tail(ready)
        \/ ready' = ready \o timer_
    BY DEF DropHandler, EnterHandler, EnterCallback, LeaveCallback, TimerExpires, Refused,
           EnableDump, DisableDump, Block, Wake, SpuriousWake, vars
  <2>2. timer_ \in Seq(Silent)
    BY DEF TruthInv, Expiring, Told, Silent, IsCallback
  <2> QED
    BY <1>0, <2>1, <2>2, QueueCallbacks
<1>3. Stays
  <2>1. CASE pc' = pc
    BY <2>1, StillStays
  <2>2. ASSUME EnterHandler
        PROVE  Goto(Worker, Head(ready).what) /\ Head(ready).what # "issue"
    BY <2>2 DEF EnterHandler
  <2>3. CASE EnterHandler \/ EnterCallback \/ LeaveCallback
    BY <1>0, <2>2, <2>3, WorkerStays DEF EnterCallback, LeaveCallback
  <2>4. ASSUME NEW t \in Threads, Refused(t)
        PROVE  Stays
    <3>1. /\ Goto(t, IF t = Worker THEN "loop" ELSE "idle")
          /\ t # Worker => pc[t] = "idle"
      BY <2>4 DEF Refused, MayCall, InUserCode
    <3>2. pc'[t] = (IF t = Worker THEN "loop" ELSE "idle") /\ \A u \in Threads : u # t => pc'[u] = pc[u]
      BY <1>0, <3>1 DEF Goto, ControlTypes
    <3> QED
      BY <3>1, <3>2 DEF Stays, Waits, InSync
  <2>5. ASSUME NEW c \in Callers, Block(c) \/ Wake(c)
        PROVE  Stays
    <3>1. PICK s \in {"asleep", "check"} : Goto(c, s)
      BY <2>5 DEF Block, Wake
    <3>2. pc'[c] = s /\ \A u \in Threads : u # c => pc'[u] = pc[u]
      BY <1>0, <3>1 DEF Goto, ControlTypes
    <3>3. Waits(c)
      BY <2>5 DEF Block, Wake, Waits
    <3> QED
      BY <3>2, <3>3 DEF Stays, Waits, InSync
  <2>6. \/ pc' = pc
        \/ EnterHandler \/ EnterCallback \/ LeaveCallback
        \/ \E t \in Threads : Refused(t)
        \/ \E c \in Callers : Block(c) \/ Wake(c)
    BY DEF DropHandler, TimerExpires, EnableDump, DisableDump, SpuriousWake, vars
  <2> QED
    BY <2>1, <2>3, <2>4, <2>5, <2>6
<1> QED
  BY <1>0, <1>1, <1>2, <1>3, KeptSync

LEMMA StepSync == OneSyncCaller /\ Base /\ TruthInv /\ SyncInv /\ [Next]_vars => SyncInv'
<1> SUFFICES ASSUME OneSyncCaller, Base, TruthInv, SyncInv, [Next]_vars
             PROVE  SyncInv'
  OBVIOUS
<1>1. TypeInv'
  BY StepTypes DEF Base, Assumed
<1>2. ASSUME WorkerSteps
      PROVE  SyncInv'
  BY <1>1, <1>2, OtherStepsSync, TimeoutSync, ContinueSync, FinishHandlerSync, WriteCallbackSync
  DEF WorkerSteps
<1>3. ASSUME NEW t \in Threads, UserSteps(t) \/ Issue(t)
      PROVE  SyncInv'
  <2>1. CASE Reset(t) \/ Flush(t) \/ CloseLink(t)
    <3>1. DeviceMoves
      BY <2>1 DEF Reset, Flush, CloseLink, DeviceMoves
    <3> QED
      BY <1>1, <3>1, DeviceSync
  <2> QED
    BY <1>1, <1>3, <2>1, OtherStepsSync, NewWriteSync, IssueSync DEF UserSteps
<1>4. ASSUME NEW c \in Callers, SyncSteps(c) \/ SpuriousWake(c)
      PROVE  SyncInv'
  BY <1>1, <1>4, OtherStepsSync, NotifiedSync DEF SyncSteps
<1>5. ASSUME DeviceSteps
      PROVE  SyncInv'
  <2>1. DeviceMoves
    BY <1>5 DEF DeviceSteps, DeviceMoves
  <2> QED
    BY <1>1, <2>1, DeviceSync
<1>6. TimerExpires \/ UNCHANGED vars => SyncInv'
  BY <1>1, OtherStepsSync
<1> QED
  BY <1>2, <1>3, <1>4, <1>5, <1>6 DEF Next

(* A synchronous call returns by its predicate only. *)
LEMMA ReturnsNotified ==
    ASSUME ControlTypes, NEW c \in Callers, [Next]_vars, Returns(c)
    PROVE  waiterNotified_
<1> USE DEF Returns
<1>0. Worker \in Threads /\ c \in Threads /\ c # Worker
  BY WorkerState, CallersSync
<1>1. ASSUME NEW t \in Threads, NEW s, Goto(t, s)
      PROVE  t = c /\ s = "idle"
  BY <1>0, <1>1 DEF Goto, ControlTypes
<1>2. pc' # pc
  OBVIOUS
<1>3. ASSUME NEW t \in Threads, UserSteps(t) \/ Issue(t)
      PROVE  FALSE
  <2>1. pc' = pc \/ (pc[t] # "check" /\ \E s : Goto(t, s))
    BY <1>3
    DEF UserSteps, NewWrite, Refused, Issue, MayCall, InUserCode, Reset, Flush, CloseLink, EnableDump,
        DisableDump
  <2> QED
    BY <1>1, <1>2, <2>1
<1>4. ASSUME WorkerSteps PROVE FALSE
  <2>1. pc' = pc \/ \E s : Goto(Worker, s)
    BY <1>4
    DEF WorkerSteps, DropHandler, EnterHandler, TimeoutNotifies, Continue, ContinueSome,
        ContinueAll, FinishHandler, WriteCallback, EnterCallback, LeaveCallback
  <2> QED
    BY <1>0, <1>1, <1>2, <2>1
<1>5. ~TimerExpires /\ ~DeviceSteps /\ ~UNCHANGED vars
  BY <1>2 DEF TimerExpires, DeviceSteps, vars
<1>6. ASSUME NEW d \in Callers, SyncSteps(d) \/ SpuriousWake(d)
      PROVE  waiterNotified_
  <2>1. d \in Threads
    BY CallersSync
  <2>2. ~SpuriousWake(d) /\ ~ResetNotified(d) /\ ~Block(d) /\ ~Wake(d)
    BY <1>1, <1>2, <2>1 DEF SpuriousWake, ResetNotified, Block, Wake
  <2>3. CheckNotified(d) => waiterNotified_
    BY <1>1, <2>1 DEF CheckNotified
  <2> QED
    BY <1>6, <2>2, <2>3 DEF SyncSteps
<1> QED
  BY <1>3, <1>4, <1>5, <1>6 DEF Next

(* With one synchronous caller beside any asynchronous ones, and as long as no *)
(* write() was given a timeout, write returns only when the callback of its    *)
(* own write has been posted, so that the buffer it was given is its caller's  *)
(* again: neither an earlier callback nor the timeout of an asynchronous write *)
(* lets it go before.                                                        *)
THEOREM ReturnsOver ==
    ASSUME NoWrap, ~SlowCaller, OneSyncCaller
    PROVE  Spec => ReturnsWhenOver
<1>1. Init => SyncInv
  <2> SUFFICES ASSUME Init PROVE SyncInv
    OBVIOUS
  <2>1. /\ ready = <<>> /\ writeId_ = 0
        /\ pc = [t \in Threads |-> IF t = Worker THEN "loop" ELSE "idle"]
    BY DEF Init, DevicesInit
  <2> QED
    BY <2>1, CallersSync DEF SyncInv, CallersInv, CallbackOrder, NotifiedInv, InSync, Waits, Busy
<1>2. Base /\ TruthInv /\ SyncInv /\ [Next]_vars => SyncInv'
  BY StepSync
<1>3. Base /\ SyncInv /\ [Next]_vars
         => [\A c \in Callers : Returns(c) /\ ~TimedSync => Over(mine[c])]_vars
  <2> SUFFICES ASSUME Base, SyncInv, [Next]_vars, NEW c \in Callers, Returns(c), ~TimedSync
               PROVE  Over(mine[c])
    OBVIOUS
  <2>1. waiterNotified_ /\ Waits(c) /\ InSync(c)
    BY ReturnsNotified DEF Base, Assumed, TypeInv, Returns, Waits, InSync
  <2> QED
    BY <2>1 DEF SyncInv, CallersInv, NotifiedInv, IsSync
<1> QED
  BY <1>1, <1>2, <1>3, TruthInvariance, PTL DEF Spec, ReturnsWhenOver

=============================================================================
