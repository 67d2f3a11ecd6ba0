----------------------- MODULE StreamWriterWireProofs -----------------------
(***************************************************************************)
(* What a StreamWriter gives the device: proofs that the bytes arrive in    *)
(* order, and are counted and dumped as they arrive, and that the device     *)
(* lets go of the buffers, for any device, threads and timers.              *)
(***************************************************************************)
EXTENDS StreamWriterProofs, FiniteSetTheorems

-----------------------------------------------------------------------------
(* The answers come in the order of their writes, the handled ones first, then *)
(* the queued, then the outstanding; a write has one operation at a time, so   *)
(* that once its answer is queued no other operation is before or after it.    *)

Below(queue, later) ==
    \A i \in 1..Len(queue), j \in 1..Len(later) :
        IsAnswer(queue[i]) /\ IsAnswer(later[j]) => queue[i].src < later[j].src

Ordered(queue) ==
    \A i, j \in 1..Len(queue) :
        i < j /\ IsAnswer(queue[i]) /\ IsAnswer(queue[j]) => queue[i].src < queue[j].src

OrderInv == Ordered(ready) /\ Ordered(outgoing) /\ Below(ready, outgoing)

NoAnswers(queue) == \A i \in 1..Len(queue) : ~IsAnswer(queue[i])

(* The part of a joined sequence that an element comes from. *)
LEMMA JoinedAt == ASSUME NEW S, NEW s \in Seq(S), NEW r \in Seq(S)
                  PROVE  /\ Len(s \o r) = Len(s) + Len(r) /\ Len(s) \in Nat /\ Len(r) \in Nat
                         /\ \A i \in 1..Len(s) : (s \o r)[i] = s[i]
                         /\ \A i \in 1..Len(s \o r) :
                               i > Len(s) => i - Len(s) \in 1..Len(r) /\ (s \o r)[i] = r[i - Len(s)]
  OBVIOUS

LEMMA TailAt == ASSUME NEW S, NEW s \in Seq(S), s # <<>>
                PROVE  /\ Len(Tail(s)) = Len(s) - 1 /\ Len(s) \in Nat /\ Len(s) > 0
                       /\ \A i \in 1..Len(Tail(s)) : i + 1 \in 1..Len(s) /\ Tail(s)[i] = s[i + 1]
  OBVIOUS

LEMMA AppendJoins == ASSUME NEW S, NEW s \in Seq(S), NEW e \in S
                     PROVE  Append(s, e) = s \o <<e>> /\ <<e>> \in Seq(S)
                            /\ Len(<<e>>) = 1 /\ <<e>>[1] = e
  OBVIOUS

LEMMA JoinedOrder ==
    ASSUME NEW s \in Seq(Handlers), NEW r \in Seq(Handlers),
           Ordered(s), Ordered(r), Below(s, r)
    PROVE  Ordered(s \o r)
<1> SUFFICES ASSUME NEW i \in 1..Len(s \o r), NEW j \in 1..Len(s \o r), i < j,
                    IsAnswer((s \o r)[i]), IsAnswer((s \o r)[j])
             PROVE  (s \o r)[i].src < (s \o r)[j].src
  BY DEF Ordered
<1> DEFINE m == Len(s)
<1>1. /\ Len(s \o r) = m + Len(r) /\ m \in Nat /\ Len(r) \in Nat
      /\ \A k \in 1..m : (s \o r)[k] = s[k]
      /\ \A k \in 1..Len(s \o r) : k > m => k - m \in 1..Len(r) /\ (s \o r)[k] = r[k - m]
  BY JoinedAt
<1>2. CASE j <= m
  <2>1. i \in 1..m /\ j \in 1..m /\ (s \o r)[i] = s[i] /\ (s \o r)[j] = s[j]
    BY <1>1, <1>2
  <2> QED
    BY <2>1 DEF Ordered
<1>3. CASE i > m
  <2>1. /\ i - m \in 1..Len(r) /\ j - m \in 1..Len(r) /\ i - m < j - m
        /\ (s \o r)[i] = r[i - m] /\ (s \o r)[j] = r[j - m]
    BY <1>1, <1>3
  <2> QED
    BY <2>1 DEF Ordered
<1>4. CASE i <= m /\ j > m
  <2>1. i \in 1..m /\ j - m \in 1..Len(r) /\ (s \o r)[i] = s[i] /\ (s \o r)[j] = r[j - m]
    BY <1>1, <1>4
  <2> QED
    BY <2>1 DEF Below
<1> QED
  BY <1>1, <1>2, <1>3, <1>4

LEMMA JoinedBelow ==
    ASSUME NEW s \in Seq(Handlers), NEW r \in Seq(Handlers), NEW later,
           Below(s, later), Below(r, later)
    PROVE  Below(s \o r, later)
<1> SUFFICES ASSUME NEW i \in 1..Len(s \o r), NEW j \in 1..Len(later),
                    IsAnswer((s \o r)[i]), IsAnswer(later[j])
             PROVE  (s \o r)[i].src < later[j].src
  BY DEF Below
<1> DEFINE m == Len(s)
<1>1. /\ Len(s \o r) = m + Len(r) /\ m \in Nat /\ Len(r) \in Nat
      /\ \A k \in 1..m : (s \o r)[k] = s[k]
      /\ \A k \in 1..Len(s \o r) : k > m => k - m \in 1..Len(r) /\ (s \o r)[k] = r[k - m]
  BY JoinedAt
<1>2. CASE i <= m
  BY <1>1, <1>2 DEF Below
<1>3. CASE i > m
  BY <1>1, <1>3 DEF Below
<1> QED
  BY <1>1, <1>2, <1>3

LEMMA TailOrder ==
    ASSUME NEW s \in Seq(Handlers), s # <<>>, NEW later, Ordered(s), Below(s, later)
    PROVE  Ordered(Tail(s)) /\ Below(Tail(s), later)
<1>1. /\ Len(Tail(s)) = Len(s) - 1 /\ Len(s) \in Nat /\ Len(s) > 0
      /\ \A i \in 1..Len(Tail(s)) : i + 1 \in 1..Len(s) /\ Tail(s)[i] = s[i + 1]
  BY TailAt
<1>2. Ordered(Tail(s))
  <2> SUFFICES ASSUME NEW i \in 1..Len(Tail(s)), NEW j \in 1..Len(Tail(s)), i < j,
                      IsAnswer(Tail(s)[i]), IsAnswer(Tail(s)[j])
               PROVE  Tail(s)[i].src < Tail(s)[j].src
    BY DEF Ordered
  <2>1. /\ i + 1 \in 1..Len(s) /\ j + 1 \in 1..Len(s) /\ i + 1 < j + 1
        /\ Tail(s)[i] = s[i + 1] /\ Tail(s)[j] = s[j + 1]
    BY <1>1
  <2> QED
    BY <2>1 DEF Ordered
<1>3. Below(Tail(s), later)
  BY <1>1 DEF Below
<1> QED
  BY <1>2, <1>3

(* An operation that is answered leaves the outstanding ones for the queue. *)
LEMMA HeadOrder ==
    ASSUME NEW s \in Seq(Handlers), NEW r \in Seq(Handlers), r # <<>>,
           NEW h \in Handlers, h.src = Head(r).src, IsAnswer(Head(r)),
           Ordered(s), Ordered(r), Below(s, r)
    PROVE  Ordered(Append(s, h)) /\ Ordered(Tail(r)) /\ Below(Append(s, h), Tail(r))
<1>1. Append(s, h) = s \o <<h>> /\ <<h>> \in Seq(Handlers) /\ Len(<<h>>) = 1 /\ <<h>>[1] = h
  BY AppendJoins
<1>2. Head(r) = r[1] /\ 1 \in 1..Len(r) /\ Tail(r) \in Seq(Handlers)
  OBVIOUS
<1>3. Ordered(<<h>>) /\ Below(s, <<h>>)
  BY <1>1, <1>2 DEF Ordered, Below
<1>4. Ordered(Tail(r)) /\ Below(s, Tail(r)) /\ Below(<<h>>, Tail(r))
  <2>1. /\ Len(Tail(r)) = Len(r) - 1 /\ Len(r) \in Nat /\ Len(r) > 0
        /\ \A i \in 1..Len(Tail(r)) : i + 1 \in 1..Len(r) /\ Tail(r)[i] = r[i + 1]
    BY TailAt
  <2>2. Ordered(Tail(r))
    <3>1. Below(r, <<>>)
      BY DEF Below
    <3> QED
      BY <3>1, TailOrder
  <2>3. Below(s, Tail(r))
    BY <2>1 DEF Below
  <2>4. Below(<<h>>, Tail(r))
    <3> SUFFICES ASSUME NEW j \in 1..Len(Tail(r)), IsAnswer(Tail(r)[j])
                 PROVE  h.src < Tail(r)[j].src
      BY <1>1 DEF Below
    <3>1. j + 1 \in 1..Len(r) /\ 1 < j + 1 /\ Tail(r)[j] = r[j + 1]
      BY <2>1
    <3> QED
      BY <1>2, <3>1 DEF Ordered
  <2> QED
    BY <2>2, <2>3, <2>4
<1> QED
  BY <1>1, <1>3, <1>4, JoinedOrder, JoinedBelow

LEMMA NoAnswersOrder ==
    ASSUME NEW s, NEW later, NoAnswers(s)
    PROVE  Ordered(s) /\ Below(s, later) /\ Below(later, s)
  BY DEF NoAnswers, Ordered, Below

(* Each queue by the writes its handlers belong to. *)
LEMMA Queues == ASSUME Base, TruthInv
                PROVE  /\ ready \in Seq(Handlers) /\ outgoing \in Seq(Handlers)
                       /\ timer_ \in Seq(Handlers) /\ NoAnswers(timer_)
                       /\ Len(ready) \in Nat /\ Len(outgoing) \in Nat /\ Len(writes) \in Nat
                       /\ Len(posted) \in Nat
                       /\ \A i \in 1..Len(ready) : ready[i] \in Told(writes, Len(posted))
                       /\ \A j \in 1..Len(outgoing) : outgoing[j] \in Writing(writes, Len(posted))
                       /\ \A i \in 1..Len(ready) :
                             IsAnswer(ready[i]) => /\ ready[i].id = ready[i].src
                                                   /\ ready[i].src \in 1..Len(writes)
                       /\ \A j \in 1..Len(outgoing) : /\ IsAnswer(outgoing[j])
                                                      /\ outgoing[j].id = outgoing[j].src
                                                      /\ outgoing[j].src \in 1..Len(writes)
<1>1. /\ ready \in Seq(Handlers) /\ outgoing \in Seq(Handlers) /\ timer_ \in Seq(Handlers)
      /\ Len(writes) \in Nat /\ Len(posted) \in Nat
  BY DEF Base, Assumed, TypeInv, DeviceTypes, RequestTypes
<1>2. NoAnswers(timer_)
  <2>1. \A i \in 1..Len(timer_) : timer_[i] \in Expiring(writes, Len(posted))
    BY LenType DEF TruthInv
  <2> QED
    BY <2>1 DEF NoAnswers, Expiring, IsAnswer
<1>3. /\ \A i \in 1..Len(ready) : ready[i] \in Told(writes, Len(posted))
      /\ \A j \in 1..Len(outgoing) : outgoing[j] \in Writing(writes, Len(posted))
  BY LenType DEF TruthInv
<1>4. /\ \A i \in 1..Len(ready) : ready[i] \in Known(Len(writes))
      /\ \A j \in 1..Len(outgoing) : outgoing[j] \in Known(Len(writes))
  BY LenType DEF Base, LateInv, AllKnown
<1>5. Len(ready) \in Nat /\ Len(outgoing) \in Nat
  BY <1>1
<1> QED
  BY <1>1, <1>2, <1>3, <1>4, <1>5 DEF Known, IsAnswer, Writing, Told, TrueOf

(* The answers by their ids: 0 is that of no write, and the last write has its *)
(* place.                                                                    *)
LEMMA Ids == ASSUME Base, TruthInv
             PROVE  /\ \A i \in 1..Len(ready) :
                          IsAnswer(ready[i]) =>
                              /\ ready[i].id # 0
                              /\ ready[i].src < Len(writes) => ready[i].id # Len(writes)
                    /\ \A j \in 1..Len(outgoing) :
                          /\ outgoing[j].id # 0
                          /\ outgoing[j].src < Len(writes) => outgoing[j].id # Len(writes)
<1>1. ASSUME NEW h, h.id = h.src, h.src \in 1..Len(writes)
      PROVE  h.id # 0 /\ (h.src < Len(writes) => h.id # Len(writes))
  BY <1>1, Queues
<1> QED
  BY <1>1, Queues

(* Once the answer of the last write is queued, it is the last one. *)
LEMMA Alone == ASSUME Base, TruthInv, OrderInv, NEW i \in 1..Len(ready), IsAnswer(ready[i]),
                      ready[i].src = Len(writes)
               PROVE  /\ outgoing = <<>>
                      /\ \A j \in 1..Len(ready) : IsAnswer(ready[j]) /\ j # i
                                                      => ready[j].src < Len(writes)
                      /\ \A j \in 1..Len(ready) : IsAnswer(ready[j]) => j <= i
<1>1. \A j \in 1..Len(outgoing) : IsAnswer(outgoing[j]) /\ outgoing[j].src \in 1..Len(writes)
  BY Queues
<1>2. outgoing = <<>>
  <2> SUFFICES ASSUME outgoing # <<>> PROVE FALSE
    OBVIOUS
  <2>1. 1 \in 1..Len(outgoing)
    BY Queues
  <2> QED
    BY <1>1, <2>1, Queues DEF OrderInv, Below
<1>3. \A j \in 1..Len(ready) : IsAnswer(ready[j]) => ready[j].src \in 1..Len(writes)
  BY Queues
<1>4. \A j \in 1..Len(ready) : IsAnswer(ready[j]) => j <= i
  BY <1>3, Queues DEF OrderInv, Ordered
<1>5. \A j \in 1..Len(ready) : IsAnswer(ready[j]) /\ j # i => ready[j].src < Len(writes)
  BY <1>3, <1>4, Queues DEF OrderInv, Ordered
<1> QED
  BY <1>2, <1>4, <1>5

(* The same holds before a write has been issued: it has no operation. *)
LEMMA Unissued == ASSUME Base, TruthInv, NEW t \in Threads, pc[t] = "issue"
                  PROVE  /\ \A i \in 1..Len(ready) :
                               IsAnswer(ready[i]) => ready[i].src < Len(writes)
                         /\ \A j \in 1..Len(outgoing) : outgoing[j].src < Len(writes)
<1>1. AllKnown(Len(writes) - 1)
  BY DEF Base, LateInv, IssuedLast
<1>2. /\ \A i \in 1..Len(ready) : ready[i] \in Known(Len(writes) - 1)
      /\ \A j \in 1..Len(outgoing) : outgoing[j] \in Known(Len(writes) - 1)
  BY <1>1, LenType DEF AllKnown
<1> QED
  BY <1>2, Queues DEF Known, IsAnswer

(* Before the handlers of a queue, nothing but operations of earlier writes. *)
Under(queue, s) == \A i \in 1..Len(queue) : IsAnswer(queue[i]) => queue[i].src < s

LEMMA AskedOrder ==
    ASSUME NEW op \in Handlers, NEW queue \in Seq(Handlers), outgoing \in Seq(Handlers),
           IsAnswer(op), Ordered(queue), Ordered(outgoing), Below(queue, outgoing),
           Under(queue, op.src), Under(outgoing, op.src),
           transport = "string" => outgoing = <<>>, Asked(op, queue)
    PROVE  OrderInv'
<1>0. ASSUME NEW h \in Handlers, h.src = op.src
      PROVE  /\ <<h>> \in Seq(Handlers) /\ Ordered(<<h>>)
             /\ Below(queue, <<h>>) /\ Below(outgoing, <<h>>)
             /\ Append(queue, h) = queue \o <<h>> /\ Append(outgoing, h) = outgoing \o <<h>>
  <2>1. <<h>> \in Seq(Handlers) /\ Len(<<h>>) = 1 /\ <<h>>[1] = h
        /\ Append(queue, h) = queue \o <<h>> /\ Append(outgoing, h) = outgoing \o <<h>>
    BY AppendJoins
  <2> QED
    BY <1>0, <2>1 DEF Ordered, Below, Under
<1>1. ASSUME transport = "string", outgoing' = outgoing,
             NEW k \in 0..op.n, Takes(op, queue, k, FALSE)
      PROVE  OrderInv'
  <2> DEFINE h == Answered(op, k, FALSE)
  <2>1. h \in Handlers /\ h.src = op.src /\ ready' = Append(queue, h)
    <3>1. k \in Nat
      BY <1>1 DEF Handlers
    <3> QED
      BY <1>1, <3>1, AnsweredType DEF Takes, Answered, Handlers
  <2> HIDE DEF h
  <2>2. ready' = queue \o <<h>> /\ Ordered(queue \o <<h>>)
    BY <1>0, <2>1, JoinedOrder
  <2>3. outgoing' = <<>> /\ Ordered(<<>>) /\ Below(queue \o <<h>>, <<>>)
    BY <1>1 DEF Ordered, Below
  <2> QED
    BY <2>2, <2>3 DEF OrderInv
<1>2. CASE transport # "string" /\ outgoing' = Append(outgoing, op) /\ ready' = queue
  <2>1. outgoing' = outgoing \o <<op>> /\ Ordered(outgoing \o <<op>>)
    BY <1>0, <1>2, JoinedOrder
  <2>2. Below(queue, outgoing \o <<op>>)
    <3> SUFFICES ASSUME NEW i \in 1..Len(queue), NEW j \in 1..Len(outgoing \o <<op>>),
                        IsAnswer(queue[i]), IsAnswer((outgoing \o <<op>>)[j])
                 PROVE  queue[i].src < (outgoing \o <<op>>)[j].src
      BY DEF Below
    <3>1. \/ j \in 1..Len(outgoing) /\ (outgoing \o <<op>>)[j] = outgoing[j]
          \/ (outgoing \o <<op>>)[j] = op
      OBVIOUS
    <3> QED
      BY <3>1 DEF Below, Under
  <2> QED
    BY <1>2, <2>1, <2>2 DEF OrderInv
<1>3. CASE ready' = queue /\ UNCHANGED outgoing
  BY <1>3 DEF OrderInv
<1> QED
  BY <1>1, <1>2, <1>3 DEF Asked

(* Timeouts and callbacks join the queue without changing that order. *)
LEMMA JoinedQuiet ==
    ASSUME NEW queue \in Seq(Handlers), NEW r \in Seq(Handlers), NoAnswers(r), Ordered(queue),
           Below(queue, outgoing), Ordered(outgoing), ready' = queue \o r, UNCHANGED outgoing
    PROVE  OrderInv'
<1>1. Ordered(r) /\ Below(r, outgoing) /\ Below(queue, r)
  BY NoAnswersOrder
<1>2. Ordered(queue \o r) /\ Below(queue \o r, outgoing)
  BY <1>1, JoinedOrder, JoinedBelow
<1> QED
  BY <1>2 DEF OrderInv

LEMMA DeviceOrder == ASSUME Base, TruthInv, OrderInv, DeviceMoves
                     PROVE  OrderInv'
<1>1. Served /\ ready \in Seq(Handlers) /\ outgoing \in Seq(Handlers)
  BY ServedShape, Queues DEF Base, Assumed
<1>2. ASSUME outgoing # <<>>, outgoing' = Tail(outgoing), NEW k \in 0..Head(outgoing).n,
             NEW err \in BOOLEAN, Takes(Head(outgoing), ready, k, err)
      PROVE  OrderInv'
  <2>1. Head(outgoing) = outgoing[1] /\ 1 \in 1..Len(outgoing) /\ Head(outgoing) \in Handlers
    BY <1>1, <1>2
  <2>2. IsAnswer(Head(outgoing)) /\ k \in Nat
    BY <1>2, <2>1, Queues DEF Handlers
  <2> DEFINE h == Answered(Head(outgoing), k, err)
  <2>3. h \in Handlers /\ h.src = Head(outgoing).src /\ ready' = Append(ready, h)
    BY <1>2, <2>1, <2>2, AnsweredType DEF Takes, Answered, Handlers
  <2> HIDE DEF h
  <2> QED
    BY <1>1, <1>2, <2>2, <2>3, HeadOrder DEF OrderInv
<1>3. CASE Cancel
  <2>1. PICK answers \in Seq(Handlers) :
           /\ ready' = ready \o answers /\ outgoing' = <<>>
           /\ Len(answers) = Len(outgoing)
           /\ \A i \in 1..Len(answers) : answers[i].src = outgoing[i].src
    BY <1>1, <1>3, Cancelled
  <2>6. Ordered(answers) /\ Below(ready, answers)
    BY <2>1, Queues DEF OrderInv, Ordered, Below
  <2>7. Ordered(ready \o answers)
    BY <1>1, <2>6, JoinedOrder DEF OrderInv
  <2>8. Ordered(<<>>) /\ Below(ready \o answers, <<>>)
    BY DEF Ordered, Below
  <2> QED
    BY <2>1, <2>7, <2>8 DEF OrderInv
<1>4. CASE UNCHANGED <<ready, outgoing>>
  BY <1>4 DEF OrderInv
<1> QED
  BY <1>1, <1>2, <1>3, <1>4 DEF Served

LEMMA ContinueOrder == ASSUME Base, TruthInv, OrderInv, Continue
                       PROVE  OrderInv'
<1> DEFINE h == Head(ready)
<1>1. /\ InHandler /\ IsAnswer(h) /\ UNCHANGED transport
      /\ Ends(h) \/ GoesOn(h)
  BY ContinueShape
<1>2. /\ ready # <<>> /\ h = ready[1] /\ 1 \in 1..Len(ready) /\ h.src = Len(writes)
      /\ src_ = Len(writes)
  BY <1>1, InCurrent
<1>3. CASE Ends(h)
  BY <1>3 DEF Ends, OrderInv
<1>4. CASE GoesOn(h)
  <2>1. PICK op : Operation(op, processed_', requestedSize_ - processed_') /\ Asked(op, Tail(ready))
    BY <1>4 DEF GoesOn
  <2>2. op \in Handlers /\ IsAnswer(op) /\ op.src = Len(writes)
    BY <1>2, <2>1 DEF Operation, Writing, Told
  <2>3. outgoing = <<>> /\ \A j \in 1..Len(ready) : IsAnswer(ready[j]) /\ j # 1
                                                       => ready[j].src < Len(writes)
    BY <1>1, <1>2, Alone
  <2>4. Under(Tail(ready), op.src)
    BY <1>2, <2>2, <2>3, Queues, TailAt DEF Under
  <2>5. Ordered(Tail(ready)) /\ Below(Tail(ready), outgoing) /\ Tail(ready) \in Seq(Handlers)
    BY <1>2, Queues, TailOrder, QueueType DEF OrderInv
  <2>6. Under(outgoing, op.src) /\ outgoing \in Seq(Handlers)
    BY <2>3 DEF Under
  <2> QED
    BY <2>1, <2>2, <2>3, <2>4, <2>5, <2>6, AskedOrder DEF OrderInv
<1> QED
  BY <1>1, <1>3, <1>4

LEMMA StepOrder == ASSUME Base, TruthInv, OrderInv, [Next]_vars
                   PROVE  OrderInv'
<1>0. /\ ready \in Seq(Handlers) /\ outgoing \in Seq(Handlers) /\ timer_ \in Seq(Handlers)
      /\ NoAnswers(timer_)
  BY Queues
<1>1. CASE Quiet \/ EnterHandler \/ TimeoutNotifies
  BY <1>1 DEF Quiet, EnterHandler, TimeoutNotifies, device, OrderInv
<1>2. CASE ready # <<>> /\ ready' = Tail(ready) /\ UNCHANGED outgoing
  BY <1>0, <1>2, TailOrder DEF OrderInv
<1>3. CASE DropHandler \/ Popped
  BY <1>2, <1>3 DEF DropHandler, Popped, device
<1>4. ASSUME ready' = ready \o timer_, UNCHANGED outgoing
      PROVE  OrderInv'
  BY <1>0, <1>4, JoinedQuiet DEF OrderInv
<1>5. ASSUME NEW t \in Threads, NewWrite(t)
      PROVE  OrderInv'
  <2>1. UNCHANGED outgoing /\ (ready' = ready \o timer_ \/ UNCHANGED ready)
    BY <1>5 DEF NewWrite, Arm, device
  <2> QED
    BY <1>4, <2>1 DEF OrderInv
<1>6. CASE TimerExpires
  BY <1>4, <1>6 DEF TimerExpires, device
<1>7. ASSUME NEW t \in Threads, Issue(t)
      PROVE  OrderInv'
  <2>1. PICK op : Operation(op, 0, requestedSize_) /\ Asked(op, ready)
    BY <1>7, IssueShape
  <2>2. pc[t] = "issue" /\ Busy /\ op \in Handlers /\ IsAnswer(op) /\ op.src = Len(writes)
    BY <1>7, <2>1, IssueShape
    DEF Operation, Writing, Told, Base, Assumed, OutcomeInv, Numbered
  <2>3. Under(ready, op.src) /\ Under(outgoing, op.src)
    BY <2>2, Unissued DEF Under
  <2> QED
    BY <1>0, <2>1, <2>2, <2>3, AskedOrder DEF OrderInv, TruthInv
<1>8. CASE FinishHandler
  <2> DEFINE h == UserCallback(Head(ready).err)
  <2>1. /\ InHandler /\ ready' = Append(Tail(ready), h) /\ UNCHANGED outgoing
    BY <1>8, FinishShape DEF device
  <2>2. h \in Handlers /\ ~IsAnswer(h)
    <3>1. Head(ready).err \in BOOLEAN
      BY <2>1, InCurrent DEF Handlers
    <3>2. processed_ \in Nat /\ src_ \in Nat
      BY DEF Base, Assumed, TypeInv, RequestTypes
    <3> QED
      BY <3>1, <3>2 DEF UserCallback, Handler, Handlers, IsAnswer
  <2> HIDE DEF h
  <2>3. ready # <<>> /\ Tail(ready) \in Seq(Handlers)
    BY <1>0, <2>1, InCurrent, QueueType
  <2>4. /\ Append(Tail(ready), h) = Tail(ready) \o <<h>> /\ <<h>> \in Seq(Handlers)
        /\ NoAnswers(<<h>>)
    BY <2>2, <2>3, AppendJoins DEF NoAnswers
  <2>5. Ordered(Tail(ready)) /\ Below(Tail(ready), outgoing)
    BY <1>0, <2>3, TailOrder DEF OrderInv
  <2> QED
    BY <2>1, <2>3, <2>4, <2>5, JoinedQuiet DEF OrderInv
<1> QED
  BY <1>1, <1>3, <1>5, <1>6, <1>7, <1>8, Shapes, DeviceOrder, ContinueOrder DEF Base, Assumed

-----------------------------------------------------------------------------
(* The bytes of a write on the wire.  An operation that starts at `from' is    *)
(* next when the wire ends with the bytes of its write before that, and holds  *)
(* as many of them; of a write that starts, there are none.                   *)

InPieces(bytes) ==
    /\ bytes # <<>> => bytes[1][2] = 1
    /\ \A i \in 1..(Len(bytes) - 1) :
          \/ bytes[i + 1] = <<bytes[i][1], bytes[i][2] + 1>>
          \/ bytes[i + 1][1] > bytes[i][1] /\ bytes[i + 1][2] = 1

Places(bytes, w) == {i \in 1..Len(bytes) : bytes[i][1] = w}

Follows(bytes, src, from) ==
    /\ \A i \in 1..Len(bytes) : bytes[i][1] <= src
    /\ Cardinality(Places(bytes, src)) = from
    /\ from # 0 => bytes[Len(bytes)] = <<src, from>>

LEMMA PlacesFinite == ASSUME NEW bytes \in Seq(ByteNames), NEW w
                      PROVE  /\ IsFiniteSet(Places(bytes, w))
                             /\ Cardinality(Places(bytes, w)) \in Nat
                             /\ Cardinality(Places(bytes, w)) = 0 <=> Places(bytes, w) = {}
<1>1. IsFiniteSet(1..Len(bytes))
  BY FS_Interval, LenType
<1>2. Places(bytes, w) \subseteq 1..Len(bytes)
  BY DEF Places
<1>3. IsFiniteSet(Places(bytes, w))
  BY <1>1, <1>2, FS_Subset
<1> QED
  BY <1>3, FS_CardinalityType, FS_EmptySet

LEMMA FollowsFirst == ASSUME NEW bytes \in Seq(ByteNames), NEW src \in Nat,
                             \A i \in 1..Len(bytes) : bytes[i][1] < src
                      PROVE  Follows(bytes, src, 0)
<1>1. \A i \in 1..Len(bytes) : bytes[i] \in ByteNames
  BY LenType
<1>2. \A i \in 1..Len(bytes) : bytes[i][1] \in Nat
  BY <1>1 DEF ByteNames
<1>3. Places(bytes, src) = {}
  BY <1>2 DEF Places
<1> QED
  BY <1>2, <1>3, FS_EmptySet DEF Follows

(* An operation that is next keeps the wire in pieces, and is followed by what *)
(* its write has left; the bytes of the other writes are as many as before.   *)
LEMMA Taken ==
    ASSUME NEW bytes \in Seq(ByteNames), NEW op \in Handlers, NEW k \in Nat, InPieces(bytes),
           Follows(bytes, op.src, op.from)
    PROVE  /\ InPieces(bytes \o Bytes(op, k))
           /\ Follows(bytes \o Bytes(op, k), op.src, op.from + k)
           /\ \A w : w # op.src => Places(bytes \o Bytes(op, k), w) = Places(bytes, w)
<1> DEFINE m    == Len(bytes)
           more == Bytes(op, k)
           all  == bytes \o more
<1>1. m \in Nat /\ (\A i \in 1..m : bytes[i] \in ByteNames) /\ op.src \in Nat /\ op.from \in Nat
  BY LenType DEF Handlers
<1>2. more \in Seq(ByteNames) /\ Len(more) = k
  BY BytesType
<1>3. \A i \in 1..k : more[i] = <<op.src, op.from + i>>
  BY DEF Bytes
<1> HIDE DEF more
<1>4. /\ Len(all) = m + k
      /\ \A i \in 1..m : all[i] = bytes[i]
      /\ \A i \in 1..(m + k) : i > m => i - m \in 1..k /\ all[i] = more[i - m]
  BY <1>2, JoinedAt
<1> HIDE DEF all
<1>5. \A i \in 1..(m + k) : i > m => all[i] = <<op.src, op.from + (i - m)>>
  BY <1>3, <1>4
<1>6. op.from = 0 => \A i \in 1..m : bytes[i][1] < op.src
  <2> SUFFICES ASSUME op.from = 0, NEW i \in 1..m PROVE bytes[i][1] < op.src
    OBVIOUS
  <2>1. Places(bytes, op.src) = {}
    BY PlacesFinite DEF Follows
  <2>2. bytes[i][1] <= op.src /\ bytes[i][1] # op.src
    BY <2>1 DEF Follows, Places
  <2>3. bytes[i][1] \in Nat
    BY <1>1 DEF ByteNames
  <2> QED
    BY <1>1, <2>2, <2>3
<1>7. op.from # 0 => m > 0 /\ bytes[m] = <<op.src, op.from>>
  <2> SUFFICES ASSUME op.from # 0 PROVE m > 0 /\ bytes[m] = <<op.src, op.from>>
    OBVIOUS
  <2>1. Places(bytes, op.src) # {}
    BY PlacesFinite DEF Follows
  <2> QED
    BY <1>1, <2>1 DEF Follows, Places
<1>8. InPieces(all)
  <2>1. all # <<>> => all[1][2] = 1
    <3>1. CASE m > 0
      <4>1. all[1] = bytes[1] /\ bytes # <<>>
        BY <1>1, <1>4, <3>1
      <4> QED
        BY <4>1 DEF InPieces
    <3>2. CASE m = 0 /\ k > 0
      <4>1. all[1] = <<op.src, op.from + (1 - m)>>
        BY <1>5, <3>2
      <4> QED
        BY <1>1, <1>7, <3>2, <4>1
    <3>3. CASE m = 0 /\ k = 0
      <4>1. all = <<>>
        <5>1. all \in Seq(ByteNames)
          BY <1>2, ConcatType DEF all
        <5> QED
          BY <1>4, <3>3, <5>1
      <4> QED
        BY <4>1
    <3> QED
      BY <1>1, <3>1, <3>2, <3>3
  <2>2. ASSUME NEW i \in 1..(m + k - 1)
        PROVE  \/ all[i + 1] = <<all[i][1], all[i][2] + 1>>
               \/ all[i + 1][1] > all[i][1] /\ all[i + 1][2] = 1
    <3>1. CASE i < m
      <4>1. i \in 1..(m - 1) /\ all[i] = bytes[i] /\ all[i + 1] = bytes[i + 1]
        BY <1>1, <1>4, <3>1
      <4> QED
        BY <4>1 DEF InPieces
    <3>2. CASE i > m
      <4>0. i \in 1..(m + k) /\ i + 1 \in 1..(m + k) /\ i + 1 > m
        BY <1>1, <3>2
      <4>1. all[i] = <<op.src, op.from + (i - m)>> /\ all[i + 1] = <<op.src, op.from + (i + 1 - m)>>
        BY <1>5, <3>2, <4>0
      <4>2. op.from + (i + 1 - m) = (op.from + (i - m)) + 1
        BY <1>1, <3>2
      <4> QED
        BY <4>1, <4>2
    <3>3. CASE i = m
      <4>1. all[i] = bytes[m] /\ all[i + 1] = <<op.src, op.from + 1>> /\ m \in 1..m
        BY <1>1, <1>4, <1>5, <3>3
      <4> QED
        BY <1>1, <1>6, <1>7, <4>1
    <3> QED
      BY <1>1, <3>1, <3>2, <3>3
  <2> QED
    BY <1>4, <2>1, <2>2 DEF InPieces
<1>9. Places(all, op.src) = Places(bytes, op.src) \cup (m + 1)..(m + k)
  BY <1>1, <1>4, <1>5 DEF Places
<1>10. Cardinality(Places(all, op.src)) = op.from + k
  <2>1. IsFiniteSet((m + 1)..(m + k)) /\ Cardinality((m + 1)..(m + k)) = k
    <3>1. m + 1 \in Int /\ m + k \in Int
      BY <1>1
    <3>2. (IF m + 1 > m + k THEN 0 ELSE (m + k) - (m + 1) + 1) = k
      BY <1>1
    <3> QED
      BY <3>1, <3>2, FS_Interval
  <2>2. Places(bytes, op.src) \cap (m + 1)..(m + k) = {}
    BY <1>1 DEF Places
  <2>3. Cardinality(Places(bytes, op.src)) = op.from /\ IsFiniteSet(Places(bytes, op.src))
    BY PlacesFinite DEF Follows
  <2> DEFINE old == Places(bytes, op.src)
             new == (m + 1)..(m + k)
  <2> HIDE DEF old, new
  <2>4. Cardinality(old \cup new) = Cardinality(old) + Cardinality(new) - Cardinality(old \cap new)
    BY <2>1, <2>3, FS_Union DEF old, new
  <2>5. Cardinality(old \cap new) = 0
    BY <2>2, FS_EmptySet DEF old, new
  <2>6. Cardinality(Places(all, op.src)) = op.from + k - 0
    BY <1>9, <2>1, <2>3, <2>4, <2>5 DEF old, new
  <2> QED
    BY <1>1, <2>6
<1>11. \A i \in 1..(m + k) : all[i][1] <= op.src
  <2> SUFFICES ASSUME NEW i \in 1..(m + k) PROVE all[i][1] <= op.src
    OBVIOUS
  <2>1. CASE i <= m
    <3>1. i \in 1..m /\ all[i] = bytes[i]
      BY <1>1, <1>4, <2>1
    <3> QED
      BY <3>1 DEF Follows
  <2>2. CASE i > m
    <3>1. all[i][1] = op.src
      BY <1>5, <2>2
    <3> QED
      BY <1>1, <3>1
  <2> QED
    BY <1>1, <2>1, <2>2
<1>12. op.from + k # 0 => all[m + k] = <<op.src, op.from + k>>
  <2>1. CASE k > 0
    BY <1>1, <1>5, <2>1
  <2>2. CASE k = 0 /\ op.from # 0
    BY <1>1, <1>4, <1>7, <2>2
  <2> QED
    BY <1>1, <2>1, <2>2
<1>13. \A w : w # op.src => Places(all, w) = Places(bytes, w)
  BY <1>1, <1>4, <1>5 DEF Places
<1>14. Follows(all, op.src, op.from + k)
  BY <1>4, <1>10, <1>11, <1>12 DEF Follows
<1> QED
  BY <1>8, <1>13, <1>14 DEF all, more

(* The oldest operation is next, the others start their writes; that of the    *)
(* current write starts where processed_ says.  Until the worker has added     *)
(* what an answer reports, processed_ is what the wire held before it.        *)

Reported(h, bytes, done) == h.from = done /\ Follows(bytes, h.src, done + h.n)

Ended ==
    pc[Worker] = "end" /\ IsAnswer(Head(ready)) =>
        /\ Follows(wire, src_, processed_)
        /\ writes[src_].kind = "all" /\ ~Head(ready).err => processed_ = writes[src_].size

PieceInv ==
    /\ InPieces(wire)
    /\ \A t \in Threads : pc[t] = "issue" => Follows(wire, src_, 0) /\ processed_ = 0
    /\ outgoing # <<>> => Follows(wire, Head(outgoing).src, Head(outgoing).from)
    /\ \A j \in 2..Len(outgoing) : outgoing[j].from = 0
    /\ \A j \in 1..Len(outgoing) : outgoing[j].id = writeId_ => outgoing[j].from = processed_
    /\ pc[Worker] # "end" =>
         \A i \in 1..Len(ready) :
            IsAnswer(ready[i]) /\ ready[i].id = writeId_ => Reported(ready[i], wire, processed_)
    /\ Ended

(* The answers in the queue are some of those that were there. *)
NoNewAnswer ==
    \A i \in 1..Len(ready') :
        IsAnswer(ready'[i]) => \E j \in 1..Len(ready) : ready'[i] = ready[j]

LEMMA NoneNew == ASSUME Base, TruthInv,
                        \/ UNCHANGED ready
                        \/ ready # <<>> /\ ready' = Tail(ready)
                        \/ ready' = ready \o timer_
                 PROVE  NoNewAnswer
<1>0. /\ ready \in Seq(Handlers) /\ timer_ \in Seq(Handlers) /\ NoAnswers(timer_)
  BY Queues
<1>1. CASE UNCHANGED ready
  BY <1>1 DEF NoNewAnswer
<1>2. CASE ready # <<>> /\ ready' = Tail(ready)
  BY <1>0, <1>2, TailAt DEF NoNewAnswer
<1>3. CASE ready' = ready \o timer_
  <2>1. /\ Len(ready \o timer_) = Len(ready) + Len(timer_)
        /\ Len(ready) \in Nat /\ Len(timer_) \in Nat
        /\ \A i \in 1..Len(ready) : (ready \o timer_)[i] = ready[i]
        /\ \A i \in 1..Len(ready \o timer_) :
              i > Len(ready) => /\ i - Len(ready) \in 1..Len(timer_)
                                /\ (ready \o timer_)[i] = timer_[i - Len(ready)]
    BY <1>0, JoinedAt
  <2>2. \A i \in 1..Len(ready \o timer_) : IsAnswer((ready \o timer_)[i]) => i <= Len(ready)
    BY <1>0, <2>1 DEF NoAnswers
  <2>3. \A i \in 1..Len(ready \o timer_) : i <= Len(ready) => i \in 1..Len(ready)
    BY <2>1
  <2> QED
    BY <1>3, <2>1, <2>2, <2>3 DEF NoNewAnswer
<1> QED
  BY <1>1, <1>2, <1>3

LEMMA KeptPieces ==
    ASSUME PieceInv, UNCHANGED <<wire, outgoing, processed_, writeId_, src_, writes>>,
           NoNewAnswer, \A t \in Threads : pc'[t] = "issue" => pc[t] = "issue",
           pc[Worker] = "end" => pc'[Worker] = "end",
           pc'[Worker] = "end" => \/ pc[Worker] = "end" /\ Head(ready') = Head(ready)
                                  \/ ~IsAnswer(Head(ready'))
    PROVE  PieceInv'
<1>1. Ended'
  BY DEF PieceInv, Ended
<1>2. pc'[Worker] # "end" =>
         \A i \in 1..Len(ready') :
            IsAnswer(ready'[i]) /\ ready'[i].id = writeId_' => Reported(ready'[i], wire', processed_')
  BY DEF PieceInv, NoNewAnswer
<1> QED
  BY <1>1, <1>2 DEF PieceInv

LEMMA AskedPieces ==
    ASSUME NEW op \in Handlers, IsAnswer(op), op.id = writeId_, op.from = processed_',
           NEW queue \in Seq(Handlers), outgoing \in Seq(Handlers), wire \in Seq(ByteNames),
           InPieces(wire), Follows(wire, op.src, op.from),
           outgoing # <<>> => op.from = 0 /\ Follows(wire, Head(outgoing).src, Head(outgoing).from),
           \A j \in 2..Len(outgoing) : outgoing[j].from = 0,
           \A i \in 1..Len(queue) : IsAnswer(queue[i]) => queue[i].id # writeId_,
           \A j \in 1..Len(outgoing) : outgoing[j].id # writeId_,
           transport = "string" => outgoing = <<>>,
           UNCHANGED writeId_, \A t \in Threads : pc'[t] # "issue", ~InHandler',
           Asked(op, queue)
    PROVE  PieceInv'
<1>0. Ended' /\ (\A t \in Threads : pc'[t] # "issue") /\ writeId_' = writeId_
  BY DEF Ended, InHandler
<1>1. ASSUME transport = "string", UNCHANGED outgoing,
             NEW k \in 0..op.n, Takes(op, queue, k, FALSE)
      PROVE  PieceInv'
  <2> DEFINE h == Answered(op, k, FALSE)
  <2>1. /\ h.src = op.src /\ h.from = op.from /\ h.n = k /\ h \in Handlers
        /\ ready' = Append(queue, h) /\ wire' = wire \o Bytes(op, k) /\ k \in Nat
    BY <1>1, AnsweredFields DEF Takes
  <2> HIDE DEF h
  <2>2. InPieces(wire') /\ Follows(wire', op.src, op.from + k)
    BY <2>1, Taken
  <2>3. Reported(h, wire', processed_')
    BY <2>1, <2>2 DEF Reported
  <2>4. \A i \in 1..Len(ready') : (i \in 1..Len(queue) /\ ready'[i] = queue[i]) \/ ready'[i] = h
    BY <2>1
  <2>5. \A i \in 1..Len(ready') :
           IsAnswer(ready'[i]) /\ ready'[i].id = writeId_' => Reported(ready'[i], wire', processed_')
    BY <1>0, <2>3, <2>4
  <2>6. outgoing' = <<>>
    BY <1>1
  <2> QED
    BY <1>0, <2>2, <2>5, <2>6 DEF PieceInv
<1>2. CASE ready' = queue /\ UNCHANGED <<outgoing, wire>>
  BY <1>0, <1>2 DEF PieceInv
<1>3. CASE outgoing' = Append(outgoing, op) /\ ready' = queue /\ UNCHANGED wire
  <2>1. \A j \in 1..Len(outgoing') : \/ j \in 1..Len(outgoing) /\ outgoing'[j] = outgoing[j]
                                     \/ j = Len(outgoing) + 1 /\ outgoing'[j] = op
    BY <1>3
  <2>2. \A j \in 2..Len(outgoing') : outgoing'[j].from = 0
    <3> SUFFICES ASSUME NEW j \in 2..Len(outgoing') PROVE outgoing'[j].from = 0
      OBVIOUS
    <3>1. CASE j \in 1..Len(outgoing) /\ outgoing'[j] = outgoing[j]
      BY <3>1
    <3>2. CASE j = Len(outgoing) + 1 /\ outgoing'[j] = op
      BY <3>2
    <3>3. j \in 1..Len(outgoing')
      BY <1>3
    <3> QED
      BY <2>1, <3>1, <3>2, <3>3
  <2>3. \A j \in 1..Len(outgoing') : outgoing'[j].id = writeId_' => outgoing'[j].from = processed_'
    BY <1>0, <2>1
  <2>4. Follows(wire', Head(outgoing').src, Head(outgoing').from)
    <3>1. CASE outgoing = <<>>
      <4>1. Head(outgoing') = op
        BY <1>3, <3>1
      <4> QED
        BY <1>3, <4>1
    <3>2. CASE outgoing # <<>>
      <4>1. Head(outgoing') = Head(outgoing)
        BY <1>3, <3>2
      <4> QED
        BY <1>3, <3>2, <4>1
    <3> QED
      BY <3>1, <3>2
  <2> QED
    BY <1>0, <1>3, <2>2, <2>3, <2>4 DEF PieceInv
<1> QED
  BY <1>1, <1>2, <1>3 DEF Asked

(* While an operation is outstanding, no answer of the current write is queued. *)
LEMMA Outstanding ==
    ASSUME Base, TruthInv, OrderInv, outgoing # <<>>
    PROVE  /\ \A i \in 1..Len(ready) : IsAnswer(ready[i]) => ready[i].id # writeId_
           /\ InHandler => ~IsAnswer(Head(ready))
           /\ Head(outgoing) = outgoing[1] /\ 1 \in 1..Len(outgoing)
           /\ Head(outgoing) \in Handlers
<1>1. \A i \in 1..Len(ready) : IsAnswer(ready[i]) => ready[i].src # Len(writes)
  BY Alone
<1>2. \A i \in 1..Len(ready) : IsAnswer(ready[i]) => ready[i].id # writeId_
  BY <1>1, Queues DEF Base, Assumed, OutcomeInv, Numbered
<1>3. InHandler => ~IsAnswer(Head(ready))
  BY <1>2, InCurrent
<1>4. Head(outgoing) = outgoing[1] /\ 1 \in 1..Len(outgoing) /\ Head(outgoing) \in Handlers
  BY Queues, QueueType
<1> QED
  BY <1>2, <1>3, <1>4

LEMMA TakenPieces ==
    ASSUME Base, TruthInv, OrderInv, PieceInv, outgoing # <<>>, outgoing' = Tail(outgoing),
           NEW k \in 0..Head(outgoing).n, NEW err \in BOOLEAN,
           Takes(Head(outgoing), ready, k, err), UNCHANGED <<request, processed_, pc>>, HeadKept
    PROVE  PieceInv'
<1> DEFINE op == Head(outgoing)
           h  == Answered(op, k, err)
<1>1. /\ op = outgoing[1] /\ 1 \in 1..Len(outgoing) /\ op \in Handlers /\ op.src \in Nat
      /\ op.src \in 1..Len(writes) /\ outgoing \in Seq(Handlers) /\ ready \in Seq(Handlers)
      /\ Follows(wire, op.src, op.from) /\ op.from \in Nat
  BY Outstanding, Queues DEF PieceInv, Handlers
<1>2. /\ k \in Nat /\ h \in Handlers /\ h.src = op.src /\ h.id = op.id /\ h.from = op.from
      /\ h.n = k
  BY <1>1, AnsweredFields
<1>3. wire \in Seq(ByteNames) /\ wire' = wire \o Bytes(op, k) /\ ready' = Append(ready, h)
  BY DEF Takes, Base, Assumed, TypeInv, DeviceTypes
<1>4. /\ writeId_' = writeId_ /\ src_' = src_ /\ writes' = writes /\ processed_' = processed_
      /\ pc' = pc
  BY DEF request
<1> HIDE DEF op, h
<1>5. wire' \in Seq(ByteNames) /\ InPieces(wire') /\ Follows(wire', op.src, op.from + k)
  BY <1>1, <1>2, <1>3, Taken, BytesType, ConcatType DEF PieceInv
<1>6. ASSUME NEW s \in Nat, op.src < s
      PROVE  Follows(wire', s, 0)
  <2>1. \A i \in 1..Len(wire') : wire'[i] \in ByteNames /\ wire'[i][1] <= op.src
    BY <1>5, LenType DEF Follows
  <2>2. \A i \in 1..Len(wire') : wire'[i][1] < s
    BY <1>1, <1>6, <2>1 DEF ByteNames
  <2> QED
    BY <1>5, <2>2, FollowsFirst
<1>7. ASSUME NEW t \in Threads, pc'[t] = "issue"
      PROVE  Follows(wire', src_', 0) /\ processed_' = 0
  <2>1. op.src < Len(writes) /\ src_ = Len(writes) /\ Len(writes) \in Nat
    BY <1>1, <1>4, <1>7, Unissued, Queues DEF Base, Assumed, OutcomeInv, Numbered
  <2> QED
    BY <1>4, <1>6, <1>7, <2>1 DEF PieceInv
<1>8. /\ Len(outgoing') = Len(outgoing) - 1 /\ Len(outgoing) \in Nat
      /\ \A j \in 1..Len(outgoing') : j + 1 \in 2..Len(outgoing) /\ outgoing'[j] = outgoing[j + 1]
  BY <1>1, TailAt
<1>9. outgoing' # <<>> => Follows(wire', Head(outgoing').src, Head(outgoing').from)
  <2> SUFFICES ASSUME outgoing' # <<>>
               PROVE  Follows(wire', Head(outgoing').src, Head(outgoing').from)
    OBVIOUS
  <2>1. Head(outgoing') = outgoing'[1] /\ 1 \in 1..Len(outgoing')
    BY <1>1
  <2>2. 2 \in 2..Len(outgoing) /\ 2 \in 1..Len(outgoing) /\ Head(outgoing') = outgoing[2]
    BY <1>8, <2>1
  <2>3. IsAnswer(outgoing[1]) /\ IsAnswer(outgoing[2])
    BY <1>1, <2>2, Queues
  <2>4. op.src < outgoing[2].src /\ outgoing[2].from = 0
    BY <1>1, <2>2, <2>3 DEF OrderInv, Ordered, PieceInv
  <2>5. outgoing[2].src \in Nat
    BY <2>2, Queues
  <2> QED
    BY <1>6, <2>2, <2>4, <2>5
<1>10. \A j \in 2..Len(outgoing') : outgoing'[j].from = 0
  <2>1. \A j \in 2..Len(outgoing') : j \in 1..Len(outgoing')
    OBVIOUS
  <2> QED
    BY <1>8, <2>1 DEF PieceInv
<1>11. \A j \in 1..Len(outgoing') : outgoing'[j].id = writeId_' => outgoing'[j].from = processed_'
  <2>1. \A j \in 2..Len(outgoing) : j \in 1..Len(outgoing)
    OBVIOUS
  <2> QED
    BY <1>4, <1>8, <2>1 DEF PieceInv
<1>12. ASSUME NEW i \in 1..Len(ready'), IsAnswer(ready'[i]), ready'[i].id = writeId_'
       PROVE  Reported(ready'[i], wire', processed_')
  <2>1. (i \in 1..Len(ready) /\ ready'[i] = ready[i]) \/ ready'[i] = h
    BY <1>1, <1>2, <1>3
  <2>2. ready'[i] = h
    BY <1>4, <1>12, <2>1, Outstanding
  <2>3. op.from = processed_
    BY <1>1, <1>2, <1>4, <1>12, <2>2 DEF PieceInv
  <2> QED
    BY <1>2, <1>4, <1>5, <2>2, <2>3 DEF Reported
<1>13. Ended'
  <2> SUFFICES ASSUME pc[Worker] = "end", IsAnswer(Head(ready')) PROVE FALSE
    BY <1>4 DEF Ended
  <2>1. InHandler /\ Head(ready') = Head(ready)
    BY InCurrent DEF InHandler, HeadKept
  <2> QED
    BY <2>1, Outstanding
<1> QED
  BY <1>5, <1>7, <1>9, <1>10, <1>11, <1>12, <1>13 DEF PieceInv

(* A cancelled operation reports nothing, which is what was written of it. *)
LEMMA CancelledPieces ==
    ASSUME Base, TruthInv, OrderInv, PieceInv, Cancel, UNCHANGED <<wire, request, processed_, pc>>,
           HeadKept
    PROVE  PieceInv'
<1>2. /\ ready \in Seq(Handlers) /\ outgoing \in Seq(Handlers) /\ Len(outgoing) \in Nat
      /\ wire \in Seq(ByteNames)
  BY Queues DEF Base, Assumed, TypeInv, DeviceTypes
<1>1. PICK answers \in Seq(Handlers) :
         /\ ready' = ready \o answers /\ outgoing' = <<>>
         /\ Len(answers) = Len(outgoing)
         /\ \A i \in 1..Len(answers) :
               /\ answers[i].id = outgoing[i].id
               /\ answers[i].src = outgoing[i].src /\ answers[i].from = outgoing[i].from
               /\ answers[i].n = 0
  BY <1>2, Cancelled
<1>6. /\ writeId_' = writeId_ /\ src_' = src_ /\ writes' = writes /\ processed_' = processed_
      /\ pc' = pc /\ wire' = wire
  BY DEF request
<1>7. ASSUME NEW j \in 1..Len(outgoing)
      PROVE  Follows(wire, outgoing[j].src, outgoing[j].from)
  <2>1. /\ Head(outgoing) = outgoing[1] /\ 1 \in 1..Len(outgoing)
        /\ outgoing[1].src \in Nat /\ outgoing[j].src \in Nat
        /\ IsAnswer(outgoing[1]) /\ IsAnswer(outgoing[j])
        /\ Follows(wire, outgoing[1].src, outgoing[1].from)
    BY <1>2, Outstanding, Queues DEF PieceInv
  <2>2. CASE j = 1
    BY <2>1, <2>2
  <2>3. CASE j # 1
    <3>1. j \in 2..Len(outgoing) /\ outgoing[1].src < outgoing[j].src
      BY <1>2, <2>1, <2>3 DEF OrderInv, Ordered
    <3>2. \A i \in 1..Len(wire) : wire[i] \in ByteNames /\ wire[i][1] <= outgoing[1].src
      BY <1>2, <2>1, LenType DEF Follows
    <3>3. \A i \in 1..Len(wire) : wire[i][1] < outgoing[j].src
      BY <2>1, <3>1, <3>2 DEF ByteNames
    <3> QED
      BY <1>2, <2>1, <3>1, <3>3, FollowsFirst DEF PieceInv
  <2> QED
    BY <2>2, <2>3
<1>8. ASSUME NEW i \in 1..Len(ready'), pc[Worker] # "end", IsAnswer(ready'[i]),
             ready'[i].id = writeId_
      PROVE  Reported(ready'[i], wire, processed_)
  <2> DEFINE j == i - Len(ready)
  <2>1. \/ i \in 1..Len(ready) /\ ready'[i] = ready[i]
        \/ j \in 1..Len(outgoing) /\ ready'[i] = answers[j]
    BY <1>1, <1>2, JoinedAt
  <2>2. CASE i \in 1..Len(ready) /\ ready'[i] = ready[i]
    BY <1>8, <2>2 DEF PieceInv
  <2> HIDE DEF j
  <2>3. CASE j \in 1..Len(outgoing) /\ ready'[i] = answers[j]
    <3>1. outgoing[j].from = processed_ /\ Follows(wire, outgoing[j].src, outgoing[j].from)
      BY <1>1, <1>7, <1>8, <2>3 DEF PieceInv
    <3>2. processed_ + 0 = processed_
      BY DEF Base, Assumed, TypeInv, RequestTypes
    <3> QED
      BY <1>1, <2>3, <3>1, <3>2 DEF Reported
  <2> QED
    BY <2>1, <2>2, <2>3
<1>9. Ended'
  <2>1. InHandler => Head(ready') = Head(ready)
    BY InCurrent DEF HeadKept
  <2> QED
    BY <1>6, <2>1 DEF PieceInv, Ended, InHandler
<1>10. /\ outgoing' = <<>>
       /\ \A j \in 1..Len(outgoing') : outgoing'[j].id # writeId_'
       /\ \A j \in 2..Len(outgoing') : outgoing'[j].from = 0
  BY <1>1
<1> QED
  BY <1>6, <1>8, <1>9, <1>10 DEF PieceInv

LEMMA DevicePieces == ASSUME Base, TruthInv, OrderInv, PieceInv, DeviceMoves
                      PROVE  PieceInv'
<1>1. /\ Served /\ HeadKept /\ UNCHANGED <<request, processed_, pc>>
      /\ src_' = src_ /\ writes' = writes /\ writeId_' = writeId_
  BY ServedShape, DeviceHead DEF DeviceMoves, Base, Assumed, request
<1>2. CASE outgoing # <<>> /\ outgoing' = Tail(outgoing)
           /\ \E k \in 0..Head(outgoing).n, err \in BOOLEAN : Takes(Head(outgoing), ready, k, err)
  BY <1>1, <1>2, TakenPieces
<1>3. CASE Cancel /\ UNCHANGED wire
  BY <1>1, <1>3, CancelledPieces
<1>4. CASE UNCHANGED <<ready, outgoing, wire>>
  BY <1>1, <1>4, NoneNew, KeptPieces
<1> QED
  BY <1>1, <1>2, <1>3, <1>4 DEF Served

LEMMA NewWritePieces == ASSUME Base, TruthInv, OrderInv, PieceInv, NEW t \in Threads, NewWrite(t),
                               Base'
                        PROVE  PieceInv'
<1>1. /\ ~Busy /\ processed_' = 0 /\ src_' = Len(writes) + 1 /\ Len(writes') = Len(writes) + 1
      /\ UNCHANGED <<outgoing, wire>>
      /\ UNCHANGED ready \/ ready' = ready \o timer_
      /\ Goto(t, "issue") /\ pc'[t] = "issue"
  BY DEF NewWrite, device, Arm, Goto, Base, Assumed, TypeInv, ControlTypes, RequestTypes
<1>2. writeId_' = Len(writes) + 1 /\ Len(writes) \in Nat
  BY <1>1, Queues DEF Base, LateInv, IssuedLast, Assumed, OutcomeInv, Numbered, Busy
<1>3. wire \in Seq(ByteNames) /\ \A i \in 1..Len(wire) : wire[i] \in Fitting(writes)
  BY LenType DEF TruthInv, Base, Assumed, TypeInv, DeviceTypes
<1>4. Follows(wire, Len(writes) + 1, 0)
  <2>1. \A i \in 1..Len(wire) : wire[i][1] < Len(writes) + 1
    BY <1>2, <1>3 DEF Fitting
  <2> QED
    BY <1>2, <1>3, <2>1, FollowsFirst
<1>5. NoNewAnswer
  BY <1>1, NoneNew, Queues DEF Base, Assumed
<1>6. \A i \in 1..Len(ready') : IsAnswer(ready'[i]) => ready'[i].id # writeId_'
  BY <1>2, <1>5, Queues DEF NoNewAnswer
<1>7. \A j \in 1..Len(outgoing') : outgoing'[j].id # writeId_'
  BY <1>1, <1>2, Queues
<1>8. Ended'
  <2>1. pc[Worker] # "end"
    BY <1>1, InCurrent DEF InHandler
  <2>2. pc'[Worker] # "end"
    BY <1>1, <2>1, WorkerState DEF Goto, Base, Assumed, TypeInv, ControlTypes
  <2> QED
    BY <2>2 DEF Ended
<1> QED
  BY <1>1, <1>4, <1>6, <1>7, <1>8 DEF PieceInv

LEMMA IssuePieces == ASSUME Base, TruthInv, OrderInv, PieceInv, NEW t \in Threads, Issue(t)
                     PROVE  PieceInv'
<1>1. /\ pc[t] = "issue" /\ Busy /\ UNCHANGED <<transport, request, processed_>>
      /\ \A u \in Threads : pc'[u] # "issue"
      /\ ~InHandler'
  BY IssueShape
<1>2. PICK op : Operation(op, 0, requestedSize_) /\ Asked(op, ready)
  BY IssueShape
<1>3. /\ op \in Handlers /\ IsAnswer(op) /\ op.id = writeId_ /\ op.src = src_ /\ op.from = 0
      /\ writeId_ = Len(writes) /\ src_ = Len(writes)
  BY <1>1, <1>2 DEF Operation, Writing, Told, Base, Assumed, OutcomeInv, Numbered, Busy
<1>4. Follows(wire, op.src, 0) /\ processed_' = 0
  BY <1>1, <1>3 DEF PieceInv
<1>5. /\ \A i \in 1..Len(ready) : IsAnswer(ready[i]) => ready[i].id # writeId_
      /\ \A j \in 1..Len(outgoing) : outgoing[j].id # writeId_
  BY <1>1, <1>3, Unissued, Ids
<1>6. /\ ready \in Seq(Handlers) /\ outgoing \in Seq(Handlers) /\ wire \in Seq(ByteNames)
      /\ transport = "string" => outgoing = <<>>
  BY DEF TruthInv, Base, Assumed, TypeInv, DeviceTypes
<1> QED
  BY <1>1, <1>2, <1>3, <1>4, <1>5, <1>6, AskedPieces DEF PieceInv, request

LEMMA ContinuePieces == ASSUME Base, TruthInv, OrderInv, PieceInv, Continue
                        PROVE  PieceInv'
<1> DEFINE h == Head(ready)
<1>1. /\ pc[Worker] = "continue" /\ InHandler /\ IsAnswer(h)
      /\ UNCHANGED <<transport, request, timer_>>
      /\ Ends(h) \/ GoesOn(h)
  BY ContinueShape
<1>2. /\ ready # <<>> /\ h = ready[1] /\ 1 \in 1..Len(ready) /\ h.src = Len(writes)
      /\ src_ = Len(writes) /\ h.id = writeId_ /\ h \in Told(writes, Len(posted))
      /\ \A t \in Threads : pc[t] # "issue"
  BY <1>1, InCurrent
<1>3. h.from = processed_ /\ Follows(wire, src_, processed_ + h.n)
  BY <1>1, <1>2 DEF PieceInv, Reported
<1>4. outgoing = <<>> /\ \A j \in 1..Len(ready) : IsAnswer(ready[j]) /\ j # 1
                                                     => ready[j].src < Len(writes)
  BY <1>1, <1>2, Alone
<1>5. /\ h.n \in Nat /\ processed_ \in Nat /\ requestedSize_ = writes[src_].size
      /\ requestedSize_ \in Nat
      /\ h.kind = writes[src_].kind /\ h.from + h.n <= writes[src_].size
      /\ h.kind = "some" => h.from = 0
  <2>1. h \in Handlers /\ TrueOf(h, writes, Len(posted)) /\ Busy
    BY <1>1, <1>2, InCurrent DEF Told
  <2> QED
    BY <1>1, <1>2, <2>1
    DEF TrueOf, IsAnswer, Handlers, TruthInv, Base, Assumed, TypeInv, RequestTypes
<1>6. /\ src_' = src_ /\ writes' = writes /\ writeId_' = writeId_
      /\ \A s \in {"end", "loop"} :
            Goto(Worker, s) => pc'[Worker] = s /\ \A t \in Threads : pc'[t] # "issue"
  BY <1>1, <1>2, WorkerState DEF Goto, request, Base, Assumed, TypeInv, ControlTypes
<1>7. CASE Ends(h)
  <2>1. /\ UNCHANGED <<ready, outgoing, wire>> /\ Goto(Worker, "end")
        /\ \/ h.kind = "some" /\ processed_' = h.n
           \/ /\ h.kind = "all" /\ processed_' = processed_ + h.n
              /\ h.err \/ processed_' >= requestedSize_
    BY <1>7 DEF Ends
  <2>2. processed_' = processed_ + h.n
    BY <1>3, <1>5, <2>1
  <2>3. h.kind = "all" /\ ~h.err => processed_' = writes[src_].size
    BY <1>3, <1>5, <2>1, <2>2
  <2>4. Ended'
    BY <1>3, <1>5, <1>6, <2>1, <2>2, <2>3 DEF Ended
  <2> QED
    BY <1>4, <1>6, <2>1, <2>4 DEF PieceInv
<1>8. CASE GoesOn(h)
  <2>1. PICK op : Operation(op, processed_', requestedSize_ - processed_') /\ Asked(op, Tail(ready))
    BY <1>8 DEF GoesOn
  <2>2. /\ op \in Handlers /\ IsAnswer(op) /\ op.id = writeId_ /\ op.src = src_
        /\ op.from = processed_'
    BY <2>1 DEF Operation, Writing, Told
  <2>3. processed_' = processed_ + h.n /\ Goto(Worker, "loop")
    BY <1>8 DEF GoesOn
  <2>4. \A i \in 1..Len(Tail(ready)) : IsAnswer(Tail(ready)[i]) => Tail(ready)[i].id # writeId_
    <3>1. \A j \in 1..Len(ready) : IsAnswer(ready[j]) /\ j # 1 => ready[j].id # writeId_
      <4>1. writeId_ = Len(writes)
        BY <1>1, InCurrent DEF Base, Assumed, OutcomeInv, Numbered, Busy
      <4> QED
        BY <1>4, <4>1, Ids
    <3>2. \A i \in 1..Len(Tail(ready)) : i + 1 \in 1..Len(ready) /\ i + 1 # 1
                                         /\ Tail(ready)[i] = ready[i + 1]
      BY <1>2, Queues, TailAt
    <3> QED
      BY <3>1, <3>2
  <2>5. Tail(ready) \in Seq(Handlers) /\ outgoing \in Seq(Handlers) /\ wire \in Seq(ByteNames)
    BY <1>2, Queues, QueueType DEF Base, Assumed, TypeInv, DeviceTypes
  <2>6. ~InHandler'
    BY <1>6, <2>3 DEF InHandler
  <2>7. Follows(wire, op.src, op.from) /\ InPieces(wire)
    BY <1>3, <2>2, <2>3 DEF PieceInv
  <2>8. /\ \A t \in Threads : pc'[t] # "issue"
        /\ writeId_' = writeId_
    BY <1>6, <2>3
  <2>9. /\ outgoing = <<>>
        /\ \A j \in 1..Len(outgoing) : outgoing[j].id # writeId_
        /\ \A j \in 2..Len(outgoing) : outgoing[j].from = 0
    BY <1>4
  <2> QED
    BY <2>1, <2>2, <2>4, <2>5, <2>6, <2>7, <2>8, <2>9, AskedPieces
<1> QED
  BY <1>1, <1>7, <1>8

LEMMA FinishPieces == ASSUME Base, TruthInv, PieceInv, FinishHandler
                      PROVE  PieceInv'
<1> DEFINE h == UserCallback(Head(ready).err)
<1>1. /\ InHandler /\ ready' = Append(Tail(ready), h) /\ writeId_' = 0
      /\ ~InHandler' /\ (\A t \in Threads : pc'[t] # "issue")
      /\ UNCHANGED <<outgoing, wire>>
  BY FinishShape DEF device
<1>2. ~IsAnswer(h)
  BY DEF UserCallback, Handler, IsAnswer
<1> HIDE DEF h
<1>3. ready # <<>> /\ ready \in Seq(Handlers)
  BY <1>1, InCurrent, Queues
<1>4. \A i \in 1..Len(ready') :
         IsAnswer(ready'[i]) => \E j \in 1..Len(ready) : ready'[i] = ready[j]
  <2>1. \A i \in 1..Len(ready') : \/ i \in 1..Len(Tail(ready)) /\ ready'[i] = Tail(ready)[i]
                                  \/ ready'[i] = h
    BY <1>1, <1>3
  <2>2. \A i \in 1..Len(Tail(ready)) : i + 1 \in 1..Len(ready) /\ Tail(ready)[i] = ready[i + 1]
    BY <1>3, TailAt
  <2> QED
    BY <1>2, <2>1, <2>2
<1>5. \A i \in 1..Len(ready') : IsAnswer(ready'[i]) => ready'[i].id # writeId_'
  BY <1>1, <1>4, Ids
<1>6. \A j \in 1..Len(outgoing') : outgoing'[j].id # writeId_'
  BY <1>1, Ids
<1>7. Ended'
  BY <1>1 DEF Ended, InHandler
<1> QED
  BY <1>1, <1>5, <1>6, <1>7 DEF PieceInv

LEMMA StepPieces == ASSUME Base, TruthInv, OrderInv, PieceInv, [Next]_vars, Base'
                    PROVE  PieceInv'
<1>0. pc \in [Threads -> CallerStates \cup WorkerStates] /\ Worker \in Threads
  BY WorkerState DEF Base, Assumed, TypeInv, ControlTypes
<1>1. CASE Quiet
  <2>1. /\ UNCHANGED <<wire, outgoing, processed_, writeId_, src_, writes, ready>>
        /\ \A t \in Threads : pc'[t] = "issue" => pc[t] = "issue"
        /\ pc'[Worker] # pc[Worker] => ~InHandler /\ ~InHandler'
    BY <1>1 DEF Quiet, device, request
  <2> QED
    BY <2>1, NoneNew, KeptPieces DEF InHandler
<1>2. CASE EnterHandler \/ TimeoutNotifies \/ DropHandler \/ Popped
  <2>1. /\ UNCHANGED <<wire, outgoing, processed_, writeId_, src_, writes>>
        /\ UNCHANGED ready \/ (ready # <<>> /\ ready' = Tail(ready))
    BY <1>2 DEF EnterHandler, TimeoutNotifies, DropHandler, Popped, device, request
  <2>2. /\ pc[Worker] \in {"loop", "timeout"}
        /\ pc' = pc \/ \E s \in {"continue", "timeout", "end", "callback"} : Goto(Worker, s)
    BY <1>2 DEF EnterHandler, TimeoutNotifies, DropHandler, Popped
  <2>3. pc'[Worker] = "end" => pc[Worker] = "timeout" /\ UNCHANGED ready
    BY <1>0, <1>2, <2>2 DEF EnterHandler, TimeoutNotifies, DropHandler, Popped, Goto
  <2>4. pc[Worker] = "timeout" => ~IsAnswer(Head(ready))
    BY DEF TruthInv, AtHead, IsAnswer
  <2>5. \A t \in Threads : pc'[t] = "issue" => pc[t] = "issue"
    BY <1>0, <2>2 DEF Goto
  <2> QED
    BY <2>1, <2>2, <2>3, <2>4, <2>5, NoneNew, KeptPieces
<1>3. CASE TimerExpires
  <2>1. /\ UNCHANGED <<wire, outgoing, processed_, writeId_, src_, writes, pc>>
        /\ ready' = ready \o timer_
    BY <1>3 DEF TimerExpires, device, request
  <2>2. InHandler => Head(ready') = Head(ready)
    BY <1>3, InCurrent, OthersKeepHead DEF Others, HeadKept, Base, Assumed
  <2> QED
    BY <2>1, <2>2, NoneNew, KeptPieces DEF InHandler
<1> QED
  BY <1>1, <1>2, <1>3, Shapes, NewWritePieces, IssuePieces, DevicePieces, ContinuePieces,
     FinishPieces DEF Base, Assumed

LEMMA StepBase == ASSUME NoWrap, ~SlowCaller, Base, [Next]_vars PROVE Base'
  BY StepTypes, StepHandling, StepOutcome, StepLate DEF Base, Assumed

LEMMA PieceInvariance ==
    ASSUME NoWrap, ~SlowCaller PROVE Spec => [](Base /\ TruthInv /\ OrderInv /\ PieceInv)
<1>1. Init => OrderInv /\ PieceInv
  <2> SUFFICES ASSUME Init PROVE OrderInv /\ PieceInv
    OBVIOUS
  <2>1. ready = <<>> /\ outgoing = <<>> /\ wire = <<>>
    BY DEF Init, DevicesInit
  <2>2. \A t \in Threads : pc[t] # "issue" /\ pc[t] # "end"
    BY DEF Init
  <2>3. OrderInv
    BY <2>1 DEF OrderInv, Ordered, Below
  <2>4. InPieces(wire)
    BY <2>1 DEF InPieces
  <2>5. Ended
    BY <2>2, WorkerState DEF Ended
  <2> QED
    BY <2>1, <2>2, <2>3, <2>4, <2>5 DEF PieceInv
<1>2. Base /\ TruthInv /\ OrderInv /\ [Next]_vars => OrderInv'
  BY StepOrder
<1>3. Base /\ TruthInv /\ OrderInv /\ PieceInv /\ [Next]_vars => PieceInv'
  BY StepBase, StepPieces
<1> QED
  BY <1>1, <1>2, <1>3, TruthInvariance, PTL DEF Spec

(* The bytes of the writes reach the device in the order of the writes, those  *)
(* of one write in order and in one piece, though operations of writes that   *)
(* timed out are still outstanding when the next write starts.                *)
THEOREM BytesInOrder == ASSUME NoWrap, ~SlowCaller PROVE Spec => []WireInOrder
<1>1. PieceInv => WireInOrder
  BY DEF PieceInv, InPieces, WireInOrder
<1> QED
  BY <1>1, PieceInvariance, PTL

-----------------------------------------------------------------------------
(* What the device keeps, and what a callback reports. *)

WiredInv == Base /\ TruthInv /\ OrderInv /\ PieceInv

(* A write ends by its answer, and has no operation then, or by its timeout. *)
LEMMA EndsAlone == ASSUME WiredInv, pc[Worker] = "end"
                   PROVE  \/ IsAnswer(Head(ready)) /\ outgoing = <<>>
                          \/ writes[src_].timed
<1>1. InHandler
  BY DEF InHandler
<1>2. /\ Head(ready) \in Told(writes, Len(posted)) /\ Head(ready) = ready[1]
      /\ 1 \in 1..Len(ready) /\ Head(ready).src = Len(writes) /\ src_ = Len(writes)
      /\ Head(ready).what \in {"continue", "timeout"}
  BY <1>1, InCurrent DEF WiredInv
<1>3. CASE IsAnswer(Head(ready))
  BY <1>2, <1>3, Alone DEF WiredInv
<1>4. CASE Head(ready).what = "timeout"
  BY <1>2, <1>4 DEF Told, TrueOf
<1> QED
  BY <1>2, <1>3, <1>4 DEF IsAnswer

LEMMA AskedKeeps ==
    ASSUME outgoing \in Seq(Handlers), NEW op \in Handlers, NEW queue, Asked(op, queue)
    PROVE  \A j \in 1..Len(outgoing') : \/ \E i \in 1..Len(outgoing) : outgoing'[j] = outgoing[i]
                                        \/ outgoing'[j] = op
<1>1. CASE outgoing' = Append(outgoing, op)
  BY <1>1
<1>2. CASE UNCHANGED outgoing
  BY <1>2
<1> QED
  BY <1>1, <1>2 DEF Asked

LEMMA StepReleased == ASSUME WiredInv, BufferReleased, [Next]_vars
                      PROVE  BufferReleased'
<1>0. /\ outgoing \in Seq(Handlers) /\ writes \in Seq(Writes) /\ src_ = Len(writes)
      /\ \A j \in 1..Len(outgoing) : outgoing[j].src \in 1..Len(writes)
  BY Queues DEF WiredInv, Base, Assumed, OutcomeInv, Numbered
<1>1. ASSUME UNCHANGED <<writeId_, src_, writes>>,
             \A j \in 1..Len(outgoing') : \E i \in 1..Len(outgoing) : outgoing'[j] = outgoing[i]
      PROVE  BufferReleased'
  BY <1>1 DEF BufferReleased, Busy
<1>2. CASE Quiet \/ TimerExpires \/ DropHandler \/ EnterHandler \/ TimeoutNotifies \/ Popped
  <2>1. UNCHANGED <<outgoing, writeId_, src_, writes>>
    BY <1>2 DEF Quiet, TimerExpires, DropHandler, EnterHandler, TimeoutNotifies, Popped,
                device, request
  <2> QED
    BY <1>1, <2>1
<1>3. CASE DeviceMoves
  <2>1. UNCHANGED <<writeId_, src_, writes>> /\ Served
    BY <1>3, ServedShape DEF DeviceMoves, request, WiredInv, Base, Assumed
  <2>2. CASE outgoing # <<>> /\ outgoing' = Tail(outgoing)
    <3>1. \A j \in 1..Len(outgoing') : j + 1 \in 1..Len(outgoing) /\ outgoing'[j] = outgoing[j + 1]
      BY <1>0, <2>2, TailAt
    <3> QED
      BY <1>1, <2>1, <3>1
  <2>3. CASE outgoing' = <<>>
    BY <1>1, <2>1, <2>3
  <2>4. CASE UNCHANGED outgoing
    BY <1>1, <2>1, <2>4
  <2> QED
    BY <2>1, <2>2, <2>3, <2>4 DEF Served, Cancel
<1>4. ASSUME NEW t \in Threads, NewWrite(t)
      PROVE  BufferReleased'
  <2>1. PICK w : writes' = Append(writes, w) /\ outgoing' = outgoing /\ ~Busy
    BY <1>4 DEF NewWrite, device
  <2>2. \A i \in 1..Len(writes) : writes'[i] = writes[i]
    BY <1>0, <2>1
  <2>3. \A j \in 1..Len(outgoing) : writes[outgoing[j].src].timed
    BY <2>1 DEF BufferReleased
  <2> QED
    BY <1>0, <2>1, <2>2, <2>3 DEF BufferReleased
<1>5. ASSUME NEW op, NEW from, NEW n, NEW queue, Operation(op, from, n), Asked(op, queue), Busy,
             UNCHANGED <<writeId_, src_, writes>>
      PROVE  BufferReleased'
  <2>1. op \in Handlers /\ op.src = src_
    BY <1>5 DEF Operation, Writing, Told
  <2>2. \A j \in 1..Len(outgoing') : \/ \E i \in 1..Len(outgoing) : outgoing'[j] = outgoing[i]
                                     \/ outgoing'[j] = op
    BY <1>0, <1>5, <2>1, AskedKeeps
  <2> QED
    BY <1>5, <2>1, <2>2 DEF BufferReleased, Busy
<1>6. ASSUME NEW t \in Threads, Issue(t)
      PROVE  BufferReleased'
  BY <1>5, <1>6, IssueShape DEF WiredInv, request
<1>7. CASE Continue
  <2>1. UNCHANGED <<writeId_, src_, writes>> /\ Busy /\ (Ends(Head(ready)) \/ GoesOn(Head(ready)))
    BY <1>7, ContinueShape, InCurrent DEF WiredInv, request
  <2>2. CASE Ends(Head(ready))
    BY <1>1, <2>1, <2>2 DEF Ends
  <2>3. CASE GoesOn(Head(ready))
    BY <1>5, <2>1, <2>3 DEF GoesOn
  <2> QED
    BY <2>1, <2>2, <2>3
<1>8. CASE FinishHandler
  <2>1. pc[Worker] = "end" /\ UNCHANGED <<outgoing, writes>>
    BY <1>8, FinishShape DEF WiredInv, device
  <2>2. outgoing = <<>> \/ writes[src_].timed
    BY <2>1, EndsAlone
  <2>3. \A j \in 1..Len(outgoing) : writes[outgoing[j].src].timed
    BY <2>2 DEF BufferReleased
  <2> QED
    BY <2>1, <2>3 DEF BufferReleased
<1> QED
  BY <1>2, <1>3, <1>4, <1>6, <1>7, <1>8, Shapes DEF WiredInv, Base, Assumed

LEMMA ReleasedInvariance ==
    ASSUME NoWrap, ~SlowCaller PROVE Spec => [](WiredInv /\ BufferReleased)
<1>1. Init => BufferReleased
  BY DEF Init, DevicesInit, BufferReleased
<1>2. WiredInv /\ BufferReleased /\ [Next]_vars => BufferReleased'
  BY StepReleased
<1>3. WiredInv <=> Base /\ TruthInv /\ OrderInv /\ PieceInv
  BY DEF WiredInv
<1> QED
  BY <1>1, <1>2, <1>3, PieceInvariance, PTL DEF Spec

(* Once its callback has been posted, the device holds the buffer of a write   *)
(* no longer, unless it was given a timeout: the operation of a write that     *)
(* timed out is not cancelled.                                               *)
THEOREM BuffersReleased == ASSUME NoWrap, ~SlowCaller PROVE Spec => []BufferReleased
  BY ReleasedInvariance, PTL

(* No step but the last of a write posts a callback. *)
NoNewCallback ==
    \A i \in 1..Len(ready') :
        ready'[i].what = "callback" => \E j \in 1..Len(ready) : ready'[i] = ready[j]

LEMMA ExtendedBy ==
    ASSUME NEW queue \in Seq(Handlers), NEW r \in Seq(Handlers), ready' = queue \o r,
           \A i \in 1..Len(r) : r[i].what # "callback",
           \A i \in 1..Len(queue) : \E j \in 1..Len(ready) : queue[i] = ready[j]
    PROVE  NoNewCallback
<1>1. \A i \in 1..Len(ready') : \/ i \in 1..Len(queue) /\ ready'[i] = queue[i]
                                \/ i - Len(queue) \in 1..Len(r) /\ ready'[i] = r[i - Len(queue)]
  BY JoinedAt
<1> QED
  BY <1>1 DEF NoNewCallback

LEMMA TailFrom == ASSUME NEW S, NEW s \in Seq(S), s # <<>>
                  PROVE  \A i \in 1..Len(Tail(s)) : \E j \in 1..Len(s) : Tail(s)[i] = s[j]
<1>1. \A i \in 1..Len(Tail(s)) : i + 1 \in 1..Len(s) /\ Tail(s)[i] = s[i + 1]
  BY TailAt
<1> QED
  BY <1>1

LEMMA TakesNone ==
    ASSUME NEW op \in Handlers, IsAnswer(op), NEW queue \in Seq(Handlers), NEW k,
           NEW err \in BOOLEAN, Takes(op, queue, k, err),
           \A i \in 1..Len(queue) : \E j \in 1..Len(ready) : queue[i] = ready[j]
    PROVE  NoNewCallback
<1> DEFINE h == Answered(op, k, err)
<1>1. h \in Handlers /\ h.what # "callback" /\ ready' = Append(queue, h)
  BY AnsweredFields DEF Takes, IsAnswer
<1> HIDE DEF h
<1>2. Append(queue, h) = queue \o <<h>> /\ <<h>> \in Seq(Handlers)
      /\ Len(<<h>>) = 1 /\ <<h>>[1] = h
  BY <1>1, AppendJoins
<1>3. \A i \in 1..Len(<<h>>) : <<h>>[i].what # "callback"
  BY <1>1
<1> QED
  BY <1>1, <1>2, <1>3, ExtendedBy

(* A callback keeps its count while the bytes of its write stay as many. *)
SameCount ==
    \A i \in 1..Len(ready) :
        ready[i].what = "callback" /\ ~writes[ready[i].src].timed
            => Places(wire', ready[i].src) = Places(wire, ready[i].src)

LEMMA KeptCounts ==
    ASSUME CountIsTrue, NoNewCallback, SameCount,
           \A i \in 1..Len(ready) : writes'[ready[i].src] = writes[ready[i].src]
    PROVE  CountIsTrue'
<1> SUFFICES ASSUME NEW i \in 1..Len(ready'), ready'[i].what = "callback",
                    ~writes'[ready'[i].src].timed
             PROVE  LET h == ready'[i]
                        w == writes'[h.src]
                    IN  /\ h.n = Cardinality(Places(wire', h.src))
                        /\ w.kind = "all" /\ ~h.err => h.n = w.size
  BY DEF CountIsTrue, OnWire, Places
<1>1. PICK j \in 1..Len(ready) : ready'[i] = ready[j]
  BY DEF NoNewCallback
<1> QED
  BY <1>1 DEF CountIsTrue, OnWire, Places, SameCount

(* What the device takes belongs to the current write, or one with a timeout. *)
LEMMA TakesKeepCounts ==
    ASSUME WiredInv, NEW op \in Handlers, NEW queue, NEW k, NEW err, Takes(op, queue, k, err),
           Follows(wire, op.src, op.from), (Busy /\ op.src = src_) \/ writes[op.src].timed
    PROVE  SameCount
<1>1. wire \in Seq(ByteNames) /\ k \in Nat /\ wire' = wire \o Bytes(op, k) /\ InPieces(wire)
  BY DEF Takes, Handlers, WiredInv, PieceInv, Base, Assumed, TypeInv, DeviceTypes
<1>2. \A w : w # op.src => Places(wire', w) = Places(wire, w)
  BY <1>1, Taken
<1> SUFFICES ASSUME NEW i \in 1..Len(ready), ready[i].what = "callback",
                    ~writes[ready[i].src].timed
             PROVE  ready[i].src # op.src
  BY <1>2 DEF SameCount
<1>3. ready[i].src <= Len(posted) /\ ready[i].src \in Nat /\ Len(posted) \in Nat
  BY Queues DEF WiredInv, Told, TrueOf
<1>4. Busy => src_ = Len(posted) + 1
  BY DEF WiredInv, Base, Assumed, OutcomeInv, Numbered, OneOutcome
<1> QED
  BY <1>3, <1>4

LEMMA SameWireCounts == ASSUME UNCHANGED wire PROVE SameCount
  BY DEF SameCount

LEMMA AskedCounts ==
    ASSUME WiredInv, CountIsTrue, NEW op, NEW from, NEW n, Operation(op, from, n), Busy,
           Follows(wire, op.src, op.from), NEW queue \in Seq(Handlers), UNCHANGED writes,
           \A i \in 1..Len(queue) : \E j \in 1..Len(ready) : queue[i] = ready[j],
           Asked(op, queue)
    PROVE  CountIsTrue'
<1>1. op \in Handlers /\ IsAnswer(op) /\ op.src = src_
  BY DEF Operation, Writing, Told
<1>2. ASSUME NEW k, Takes(op, queue, k, FALSE)
      PROVE  CountIsTrue'
  BY <1>1, <1>2, TakesNone, TakesKeepCounts, KeptCounts
<1>3. CASE ready' = queue /\ UNCHANGED wire
  <2>1. NoNewCallback
    BY <1>3 DEF NoNewCallback
  <2> QED
    BY <1>3, <2>1, SameWireCounts, KeptCounts
<1> QED
  BY <1>2, <1>3 DEF Asked

LEMMA DeviceCounts == ASSUME WiredInv, BufferReleased, CountIsTrue, DeviceMoves
                      PROVE  CountIsTrue'
<1>0. /\ Served /\ writes' = writes
      /\ ready \in Seq(Handlers) /\ outgoing \in Seq(Handlers) /\ Len(outgoing) \in Nat
  BY ServedShape, Queues DEF DeviceMoves, request, WiredInv, Base, Assumed
<1>1. ASSUME outgoing # <<>>, NEW k, NEW err \in BOOLEAN, Takes(Head(outgoing), ready, k, err)
      PROVE  CountIsTrue'
  <2> DEFINE op == Head(outgoing)
  <2>1. op = outgoing[1] /\ 1 \in 1..Len(outgoing) /\ op \in Handlers /\ IsAnswer(op)
    BY <1>1, Outstanding, Queues DEF WiredInv
  <2>2. Follows(wire, op.src, op.from)
    BY <1>1 DEF WiredInv, PieceInv
  <2>3. (Busy /\ op.src = src_) \/ writes[op.src].timed
    BY <2>1 DEF BufferReleased
  <2> HIDE DEF op
  <2>4. SameCount
    BY <1>1, <2>1, <2>2, <2>3, TakesKeepCounts DEF op
  <2>5. NoNewCallback
    BY <1>0, <1>1, <2>1, TakesNone DEF op
  <2> QED
    BY <1>0, <2>4, <2>5, KeptCounts
<1>2. CASE Cancel /\ UNCHANGED wire
  <2>1. PICK answers \in Seq(Handlers) :
           /\ ready' = ready \o answers
           /\ Len(answers) = Len(outgoing)
           /\ \A i \in 1..Len(answers) : answers[i].what = outgoing[i].what
    BY <1>0, <1>2, Cancelled
  <2>2. \A i \in 1..Len(answers) : answers[i].what # "callback"
    BY <2>1, Queues DEF WiredInv, IsAnswer
  <2> QED
    BY <1>0, <1>2, <2>1, <2>2, ExtendedBy, SameWireCounts, KeptCounts
<1>3. CASE UNCHANGED <<ready, wire>>
  <2>1. NoNewCallback
    BY <1>3 DEF NoNewCallback
  <2> QED
    BY <1>0, <1>3, <2>1, SameWireCounts, KeptCounts
<1> QED
  BY <1>0, <1>1, <1>2, <1>3 DEF Served

LEMMA FinishCounts == ASSUME WiredInv, CountIsTrue, FinishHandler
                      PROVE  CountIsTrue'
<1> DEFINE h == UserCallback(Head(ready).err)
<1>1. /\ InHandler /\ pc[Worker] = "end" /\ ready' = Append(Tail(ready), h)
      /\ writes' = writes /\ wire' = wire
  BY FinishShape DEF WiredInv, device
<1>2. h.n = processed_ /\ h.src = src_ /\ h.err = Head(ready).err
  BY DEF UserCallback, Handler
<1> HIDE DEF h
<1>3. ready # <<>> /\ ready \in Seq(Handlers) /\ Tail(ready) \in Seq(Handlers)
  BY <1>1, InCurrent, Queues, QueueType DEF WiredInv
<1>4. \A i \in 1..Len(ready') : \/ \E j \in 1..Len(ready) : ready'[i] = ready[j]
                                \/ ready'[i] = h
  <2>1. \A i \in 1..Len(ready') : \/ i \in 1..Len(Tail(ready)) /\ ready'[i] = Tail(ready)[i]
                                  \/ ready'[i] = h
    BY <1>1, <1>3
  <2> QED
    BY <1>3, <2>1, TailFrom
<1>5. ~writes[src_].timed =>
         /\ processed_ = Cardinality(Places(wire, src_))
         /\ writes[src_].kind = "all" /\ ~Head(ready).err => processed_ = writes[src_].size
  BY <1>1, EndsAlone DEF WiredInv, PieceInv, Ended, Follows
<1> SUFFICES ASSUME NEW i \in 1..Len(ready'), ready'[i].what = "callback",
                    ~writes[ready'[i].src].timed
             PROVE  LET g == ready'[i]
                        w == writes[g.src]
                    IN  /\ g.n = Cardinality(Places(wire, g.src))
                        /\ w.kind = "all" /\ ~g.err => g.n = w.size
  BY <1>1 DEF CountIsTrue, OnWire, Places
<1>6. CASE ready'[i] = h
  BY <1>2, <1>5, <1>6
<1>7. CASE \E j \in 1..Len(ready) : ready'[i] = ready[j]
  BY <1>7 DEF CountIsTrue, OnWire, Places
<1> QED
  BY <1>4, <1>6, <1>7

LEMMA StepCounts == ASSUME WiredInv, BufferReleased, CountIsTrue, [Next]_vars
                    PROVE  CountIsTrue'
<1>0. /\ ready \in Seq(Handlers) /\ timer_ \in Seq(Handlers) /\ writes \in Seq(Writes)
      /\ \A i \in 1..Len(ready) : ready[i].src \in 1..Len(writes)
  BY Queues DEF WiredInv, Told, TrueOf, Base, Assumed, OutcomeInv, Numbered
<1>1. ASSUME UNCHANGED wire, UNCHANGED ready \/ (ready # <<>> /\ ready' = Tail(ready)),
             UNCHANGED writes
      PROVE  CountIsTrue'
  <2>1. NoNewCallback
    <3>1. CASE UNCHANGED ready
      BY <3>1 DEF NoNewCallback
    <3>2. CASE ready # <<>> /\ ready' = Tail(ready)
      BY <1>0, <3>2, TailFrom DEF NoNewCallback
    <3> QED
      BY <1>1, <3>1, <3>2
  <2> QED
    BY <1>1, <2>1, SameWireCounts, KeptCounts
<1>2. CASE Quiet \/ EnterHandler \/ TimeoutNotifies \/ DropHandler \/ Popped
  BY <1>1, <1>2 DEF Quiet, EnterHandler, TimeoutNotifies, DropHandler, Popped, device, request
<1>3. ASSUME ready' = ready \o timer_
      PROVE  NoNewCallback
  <2>1. \A i \in 1..Len(timer_) : timer_[i].what = "timeout"
    <3>1. \A i \in 1..Len(timer_) : timer_[i] \in Expiring(writes, Len(posted))
      BY LenType DEF WiredInv, TruthInv
    <3> QED
      BY <3>1 DEF Expiring
  <2> QED
    BY <1>0, <1>3, <2>1, ExtendedBy
<1>4. CASE TimerExpires
  BY <1>3, <1>4, SameWireCounts, KeptCounts DEF TimerExpires, device, request
<1>5. ASSUME NEW t \in Threads, NewWrite(t)
      PROVE  CountIsTrue'
  <2>1. PICK w : /\ writes' = Append(writes, w) /\ wire' = wire
                 /\ ready' = ready \/ ready' = ready \o timer_
    BY <1>5 DEF NewWrite, device, Arm
  <2>2. \A i \in 1..Len(writes) : writes'[i] = writes[i]
    BY <1>0, <2>1
  <2>3. NoNewCallback
    BY <1>3, <2>1 DEF NoNewCallback
  <2> QED
    BY <1>0, <2>1, <2>2, <2>3, SameWireCounts, KeptCounts
<1>6. ASSUME NEW t \in Threads, Issue(t)
      PROVE  CountIsTrue'
  <2>1. PICK op : Operation(op, 0, requestedSize_) /\ Asked(op, ready)
    BY <1>6, IssueShape DEF WiredInv
  <2>2. /\ Busy /\ writes' = writes /\ op.src = src_ /\ op.from = 0
        /\ Follows(wire, src_, 0)
    BY <1>6, <2>1, IssueShape DEF WiredInv, PieceInv, Operation, request
  <2> QED
    BY <1>0, <2>1, <2>2, AskedCounts
<1>7. CASE Continue
  <2> DEFINE h == Head(ready)
  <2>1. /\ pc[Worker] = "continue" /\ InHandler /\ IsAnswer(h) /\ writes' = writes
        /\ Ends(h) \/ GoesOn(h)
    BY <1>7, ContinueShape DEF WiredInv, request
  <2>2. /\ ready # <<>> /\ h = ready[1] /\ 1 \in 1..Len(ready) /\ h.id = writeId_ /\ h.src = src_
        /\ Busy
    BY <2>1, InCurrent DEF WiredInv
  <2>3. CASE Ends(h)
    BY <1>1, <2>1, <2>3 DEF Ends
  <2>4. CASE GoesOn(h)
    <3>1. PICK op : Operation(op, processed_', requestedSize_ - processed_') /\ Asked(op, Tail(ready))
      BY <2>4 DEF GoesOn
    <3>2. /\ processed_' = processed_ + h.n /\ op.src = src_ /\ op.from = processed_'
          /\ Follows(wire, src_, processed_ + h.n)
      BY <2>1, <2>2, <2>4, <3>1 DEF GoesOn, Operation, WiredInv, PieceInv, Reported
    <3>3. Tail(ready) \in Seq(Handlers)
      BY <1>0, <2>2, QueueType
    <3>4. \A i \in 1..Len(Tail(ready)) : \E j \in 1..Len(ready) : Tail(ready)[i] = ready[j]
      BY <1>0, <2>2, TailFrom
    <3> HIDE DEF h
    <3> QED
      BY <2>1, <2>2, <3>1, <3>2, <3>3, <3>4, AskedCounts
  <2> QED
    BY <2>1, <2>3, <2>4
<1> QED
  BY <1>2, <1>4, <1>5, <1>6, <1>7, Shapes, DeviceCounts, FinishCounts
  DEF WiredInv, Base, Assumed

(* Without a timeout, the callback of a write is given the number of its bytes *)
(* that reached the device, and that of an async_write that reports no error   *)
(* all of them: the count is taken by finish_write from processed_, which the *)
(* answers of the device alone have moved since the write started.            *)
THEOREM CountsAreTrue == ASSUME NoWrap, ~SlowCaller PROVE Spec => []CountIsTrue
<1>1. Init => CountIsTrue
  BY DEF Init, DevicesInit, CountIsTrue
<1>2. WiredInv /\ BufferReleased /\ CountIsTrue /\ [Next]_vars => CountIsTrue'
  BY StepCounts
<1> QED
  BY <1>1, <1>2, ReleasedInvariance, PTL DEF Spec

-----------------------------------------------------------------------------
(* The dump file.  Todo are the handlers whose turn is to come, dump_callback  *)
(* included; the bytes their answers report are the backlog of the file.      *)

Todo == IF InHandler THEN Tail(ready) ELSE ready

Answers(queue) == {queue[i] : i \in {k \in 1..Len(queue) : IsAnswer(queue[k])}}

Backlog(A) == UNION {Content(Bytes(h, h.n)) : h \in A}

Behind(b, src, from) == b[1] < src \/ (b[1] = src /\ b[2] <= from)

Ascending(bytes) == \A i, j \in 1..Len(bytes) : i < j => Before(bytes[i], bytes[j])

LEMMA ContentJoins == ASSUME NEW S, NEW s \in Seq(S), NEW r \in Seq(S)
                      PROVE  Content(s \o r) = Content(s) \cup Content(r)
<1>1. /\ Len(s \o r) = Len(s) + Len(r) /\ Len(s) \in Nat /\ Len(r) \in Nat
      /\ \A i \in 1..Len(s) : (s \o r)[i] = s[i]
      /\ \A i \in 1..Len(s \o r) : i > Len(s) => i - Len(s) \in 1..Len(r)
                                                 /\ (s \o r)[i] = r[i - Len(s)]
  BY JoinedAt
<1>2. Content(s) \subseteq Content(s \o r)
  BY <1>1 DEF Content
<1>3. Content(r) \subseteq Content(s \o r)
  <2> SUFFICES ASSUME NEW i \in 1..Len(r) PROVE r[i] \in Content(s \o r)
    BY DEF Content
  <2>1. /\ Len(s) + i \in 1..Len(s \o r) /\ Len(s) + i > Len(s)
        /\ (Len(s) + i) - Len(s) = i
    BY <1>1
  <2>2. (s \o r)[Len(s) + i] = r[i]
    BY <1>1, <2>1
  <2> QED
    BY <2>1, <2>2 DEF Content
<1>4. Content(s \o r) \subseteq Content(s) \cup Content(r)
  BY <1>1 DEF Content
<1> QED
  BY <1>2, <1>3, <1>4

LEMMA AnswersJoin == ASSUME NEW S, NEW s \in Seq(S), NEW r \in Seq(S)
                     PROVE  Answers(s \o r) = Answers(s) \cup Answers(r)
<1>1. \A q : Answers(q) = {h \in Content(q) : IsAnswer(h)}
  BY DEF Answers, Content
<1> QED
  BY <1>1, ContentJoins

LEMMA AnswersOf == ASSUME NEW S, NEW s \in Seq(S), s # <<>>
                   PROVE  Answers(s) = Answers(Tail(s)) \cup Answers(<<Head(s)>>)
<1>1. s = <<Head(s)>> \o Tail(s) /\ <<Head(s)>> \in Seq(S) /\ Tail(s) \in Seq(S)
  OBVIOUS
<1> DEFINE one  == <<Head(s)>>
           rest == Tail(s)
<1> HIDE DEF one, rest
<1>2. Answers(one \o rest) = Answers(one) \cup Answers(rest)
  BY <1>1, AnswersJoin DEF one, rest
<1> QED
  BY <1>1, <1>2 DEF one, rest

LEMMA AnswersOne == \A h : Answers(<<h>>) = IF IsAnswer(h) THEN {h} ELSE {}
<1> TAKE h
<1>1. Len(<<h>>) = 1 /\ <<h>>[1] = h
  OBVIOUS
<1> QED
  BY <1>1 DEF Answers

LEMMA AnswersNone == \A q : NoAnswers(q) => Answers(q) = {}
  BY DEF NoAnswers, Answers

LEMMA BytesContent == ASSUME NEW op \in Handlers, NEW k \in Nat
                      PROVE  Content(Bytes(op, k)) = {<<op.src, op.from + i>> : i \in 1..k}
<1>1. Len(Bytes(op, k)) = k
  BY BytesType
<1> QED
  BY <1>1 DEF Content, Bytes

LEMMA BacklogOf == /\ \A A, B : Backlog(A \cup B) = Backlog(A) \cup Backlog(B)
                   /\ \A h : Backlog({h}) = Content(Bytes(h, h.n))
                   /\ Backlog({}) = {}
  BY DEF Backlog

(* The file stays in order when the bytes of an answer are written after       *)
(* bytes that are behind them.                                               *)
LEMMA DumpedAscends ==
    ASSUME NEW bytes \in Seq(ByteNames), NEW op \in Handlers, NEW k \in Nat, Ascending(bytes),
           \A b \in Content(bytes) : Behind(b, op.src, op.from)
    PROVE  Ascending(bytes \o Bytes(op, k))
<1> DEFINE m    == Len(bytes)
           more == Bytes(op, k)
           all  == bytes \o more
<1>1. m \in Nat /\ (\A i \in 1..m : bytes[i] \in ByteNames) /\ op.src \in Nat /\ op.from \in Nat
  BY LenType DEF Handlers
<1>2. more \in Seq(ByteNames) /\ Len(more) = k
  BY BytesType
<1>3. \A i \in 1..k : more[i] = <<op.src, op.from + i>>
  BY DEF Bytes
<1> HIDE DEF more
<1>4. /\ Len(all) = m + k
      /\ \A i \in 1..m : all[i] = bytes[i]
      /\ \A i \in 1..(m + k) : i > m => i - m \in 1..k /\ all[i] = more[i - m]
  BY <1>2, JoinedAt
<1> HIDE DEF all
<1>5. \A i \in 1..(m + k) : i > m => i - m \in 1..k /\ all[i] = <<op.src, op.from + (i - m)>>
  BY <1>3, <1>4
<1> SUFFICES ASSUME NEW i \in 1..(m + k), NEW j \in 1..(m + k), i < j
             PROVE  Before(all[i], all[j])
  BY <1>4 DEF Ascending, all, more
<1>6. CASE j <= m
  <2>1. i \in 1..m /\ j \in 1..m
    BY <1>1, <1>6
  <2> QED
    BY <1>4, <2>1 DEF Ascending
<1>7. CASE i <= m /\ j > m
  <2>1. i \in 1..m /\ j - m \in 1..k /\ all[i] = bytes[i] /\ all[j] = <<op.src, op.from + (j - m)>>
    BY <1>1, <1>4, <1>7, <1>5
  <2>2. Behind(bytes[i], op.src, op.from) /\ bytes[i][1] \in Nat /\ bytes[i][2] \in Nat
    BY <1>1, <2>1 DEF Content, ByteNames
  <2>3. op.from + (j - m) > op.from
    BY <1>1, <2>1
  <2> QED
    BY <1>1, <2>1, <2>2, <2>3 DEF Behind, Before
<1>8. CASE i > m
  <2>1. j > m /\ i - m < j - m
    BY <1>1, <1>8
  <2>2. i - m \in 1..k /\ all[i] = <<op.src, op.from + (i - m)>>
    BY <1>5, <1>8
  <2>3. j - m \in 1..k /\ all[j] = <<op.src, op.from + (j - m)>>
    BY <1>5, <2>1
  <2> QED
    BY <1>1, <2>1, <2>2, <2>3 DEF Before
<1> QED
  BY <1>1, <1>6, <1>7, <1>8

(* What the file holds is behind every operation, queued, outstanding or about *)
(* to be issued, and what these report is not in it yet; of a file that was    *)
(* open all the time nothing else is missing.                                *)
Fits(h) ==
    /\ \A b \in Content(dumped) : Behind(b, h.src, h.from)
    /\ dumping /\ dumps = 0 => h.dump

DumpInv ==
    /\ dumps \in Nat
    /\ Content(dumped) \subseteq Content(wire)
    /\ Ascending(dumped)
    /\ Backlog(Answers(Todo)) \subseteq Content(wire)
    /\ \A h \in Answers(Todo) \cup Content(outgoing) : Fits(h)
    /\ \A b \in Content(dumped) :
          /\ \A t \in Threads : pc[t] = "issue" => b[1] < Len(writes)
          /\ pc[Worker] = "continue" => Behind(b, src_, processed_ + Head(ready).n)
    /\ dumping /\ dumps = 0 => Content(dumped) = Content(wire) \ Backlog(Answers(Todo))

FileKept == UNCHANGED dump \/ (dumps' = dumps + 1 /\ dumped' \in {dumped, <<>>})

(* Answers that join the queue are of operations the file is behind. *)
LEMMA GrownDump ==
    ASSUME DumpInv, NEW N \in SUBSET Handlers,
           Answers(Todo)' = Answers(Todo) \cup N,
           Content(wire)' = Content(wire) \cup Backlog(N),
           \A h \in N \cup Content(outgoing)' : Fits(h),
           FileKept,
           \A t \in Threads : pc'[t] = "issue" =>
              \/ pc[t] = "issue" /\ UNCHANGED writes
              \/ \A b \in Content(dumped) : b[1] < Len(writes'),
           pc'[Worker] = "continue" =>
              pc[Worker] = "continue" /\ UNCHANGED <<src_, processed_>> /\ Head(ready') = Head(ready)
    PROVE  DumpInv'
<1>1. Content(dumped') \subseteq Content(dumped) /\ Ascending(dumped')
  <2>1. Content(<<>>) = {} /\ Ascending(<<>>)
    BY DEF Content, Ascending
  <2> QED
    BY <2>1 DEF FileKept, dump, DumpInv
<1>2. /\ dumps' \in Nat
      /\ dumping' /\ dumps' = 0 => dumping /\ dumps = 0 /\ dumped' = dumped
  BY DEF FileKept, dump, DumpInv
<1>3. Backlog(Answers(Todo)') = Backlog(Answers(Todo)) \cup Backlog(N)
  BY BacklogOf
<1>4. Content(dumped) \cap Backlog(N) = {}
  <2> SUFFICES ASSUME NEW h \in N, NEW b \in Content(Bytes(h, h.n)), b \in Content(dumped)
               PROVE  FALSE
    BY DEF Backlog
  <2>1. h \in Handlers /\ h.n \in Nat /\ h.from \in Nat /\ h.src \in Nat
    BY DEF Handlers
  <2>2. PICK i \in 1..h.n : b = <<h.src, h.from + i>>
    BY <2>1, BytesContent
  <2>3. Behind(b, h.src, h.from)
    BY DEF Fits
  <2> QED
    BY <2>1, <2>2, <2>3 DEF Behind
<1>5. Content(dumped') \subseteq Content(wire') /\ Backlog(Answers(Todo)') \subseteq Content(wire')
  BY <1>1, <1>3 DEF DumpInv
<1>6. \A h \in Answers(Todo)' \cup Content(outgoing') :
         /\ \A b \in Content(dumped') : Behind(b, h.src, h.from)
         /\ dumping' /\ dumps' = 0 => h.dump
  <2>1. \A h \in Answers(Todo)' \cup Content(outgoing') : Fits(h)
    BY DEF DumpInv
  <2> QED
    BY <1>1, <1>2, <2>1 DEF Fits
<1>7. \A b \in Content(dumped') :
         /\ \A t \in Threads : pc'[t] = "issue" => b[1] < Len(writes')
         /\ pc'[Worker] = "continue" => Behind(b, src_', processed_' + Head(ready').n)
  BY <1>1 DEF DumpInv
<1>8. dumping' /\ dumps' = 0 => Content(dumped') = Content(wire') \ Backlog(Answers(Todo)')
  BY <1>2, <1>3, <1>4 DEF DumpInv
<1> QED
  BY <1>1, <1>2, <1>5, <1>6, <1>7, <1>8 DEF DumpInv, Fits

LEMMA TodoJoined ==
    ASSUME Base, TruthInv, pc'[Worker] = pc[Worker], NEW new \in Seq(Handlers),
           ready' = ready \o new
    PROVE  /\ Answers(Todo)' = Answers(Todo) \cup Answers(new)
           /\ InHandler => Head(ready') = Head(ready)
<1>1. ready \in Seq(Handlers) /\ InHandler' = InHandler
  BY Queues DEF InHandler
<1>2. CASE InHandler
  <2>1. ready # <<>>
    BY <1>2, InCurrent
  <2>2. Tail(ready \o new) = Tail(ready) \o new /\ Tail(ready) \in Seq(Handlers)
        /\ Head(ready \o new) = Head(ready)
    BY <1>1, <2>1
  <2>3. Todo = Tail(ready) /\ Todo' = Tail(ready')
    BY <1>1, <1>2 DEF Todo
  <2> QED
    BY <2>2, <2>3, AnswersJoin
<1>3. CASE ~InHandler
  <2>1. Todo = ready /\ Todo' = ready'
    BY <1>1, <1>3 DEF Todo
  <2> QED
    BY <1>1, <1>3, <2>1, AnswersJoin
<1> QED
  BY <1>2, <1>3

(* Timeouts and callbacks, which report no bytes, and steps within a handler. *)
LEMMA SameDumpInv ==
    ASSUME DumpInv, Answers(Todo)' = Answers(Todo), UNCHANGED wire,
           Content(outgoing') \subseteq Content(outgoing), FileKept,
           \A t \in Threads : pc'[t] = "issue" =>
              \/ pc[t] = "issue" /\ UNCHANGED writes
              \/ \A b \in Content(dumped) : b[1] < Len(writes'),
           pc'[Worker] = "continue" =>
              pc[Worker] = "continue" /\ UNCHANGED <<src_, processed_>> /\ Head(ready') = Head(ready)
    PROVE  DumpInv'
<1>1. Content(wire)' = Content(wire) \cup Backlog({})
  BY BacklogOf
<1>2. \A h \in {} \cup Content(outgoing)' : Fits(h)
  BY DEF DumpInv
<1> QED
  BY <1>1, <1>2, GrownDump

LEMMA QuietDump == ASSUME Base, TruthInv, DumpInv, Quiet PROVE DumpInv'
<1>1. /\ UNCHANGED <<ready, wire, outgoing, writes, src_, processed_>>
      /\ \A t \in Threads : pc'[t] = "issue" => pc[t] = "issue"
      /\ pc'[Worker] # pc[Worker] => ~InHandler /\ ~InHandler'
      /\ FileKept
  BY DEF Quiet, device, request, FileKept
<1>2. Todo' = Todo
  BY <1>1 DEF Todo, InHandler
<1> QED
  BY <1>1, <1>2, SameDumpInv DEF InHandler

LEMMA TimerDump == ASSUME Base, TruthInv, DumpInv, TimerExpires PROVE DumpInv'
<1>1. ready' = ready \o timer_ /\ UNCHANGED <<wire, outgoing, dump, writes, src_, processed_, pc>>
  BY DEF TimerExpires, device, request
<1>2. timer_ \in Seq(Handlers) /\ Answers(timer_) = {}
  BY Queues, AnswersNone
<1>3. /\ Answers(Todo)' = Answers(Todo) \cup Answers(timer_)
      /\ InHandler => Head(ready') = Head(ready)
  BY <1>1, <1>2, TodoJoined
<1> QED
  BY <1>1, <1>2, <1>3, SameDumpInv DEF InHandler, FileKept

LEMMA NewWriteDump == ASSUME Base, TruthInv, DumpInv, NEW t \in Threads, NewWrite(t)
                      PROVE  DumpInv'
<1>1. /\ UNCHANGED <<wire, outgoing, dump>> /\ ~Busy /\ Goto(t, "issue")
      /\ UNCHANGED ready \/ ready' = ready \o timer_
      /\ Len(writes') = Len(writes) + 1 /\ Len(writes) \in Nat
  BY DEF NewWrite, Arm, device, Base, Assumed, TypeInv, RequestTypes
<1>2. ~InHandler /\ ~InHandler'
  BY <1>1, InCurrent, WorkerState
  DEF InHandler, Goto, Base, Assumed, TypeInv, ControlTypes
<1>3. Answers(Todo)' = Answers(Todo)
  <2>1. Todo = ready /\ Todo' = ready'
    BY <1>2 DEF Todo
  <2>2. Answers(ready \o timer_) = Answers(ready) \cup {}
    <3>1. ready \in Seq(Handlers) /\ timer_ \in Seq(Handlers) /\ Answers(timer_) = {}
      BY Queues, AnswersNone
    <3>2. Answers(ready \o timer_) = Answers(ready) \cup Answers(timer_)
      BY <3>1, AnswersJoin
    <3> QED
      BY <3>1, <3>2
  <2> QED
    BY <1>1, <2>1, <2>2
<1>4. \A b \in Content(dumped) : b[1] < Len(writes')
  <2>1. \A b \in Content(wire) : b \in Fitting(writes)
    BY LenType DEF TruthInv, Content
  <2> QED
    BY <1>1, <2>1 DEF DumpInv, Fitting
<1>5. pc'[Worker] # "continue"
  BY <1>2 DEF InHandler
<1> QED
  BY <1>1, <1>3, <1>4, <1>5, SameDumpInv DEF FileKept

(* The answers that report no bytes, and the operations they answer. *)
LEMMA NothingTaken == ASSUME NEW N \in SUBSET Handlers, \A h \in N : h.n = 0
                      PROVE  Backlog(N) = {}
<1> SUFFICES ASSUME NEW h \in N PROVE Content(Bytes(h, h.n)) = {}
  BY DEF Backlog
<1>1. Content(Bytes(h, 0)) = {<<h.src, h.from + i>> : i \in 1..0}
  BY BytesContent
<1> QED
  BY <1>1

LEMMA FitsToo == ASSUME NEW h, NEW op, Fits(op), h.src = op.src, h.from = op.from, h.dump = op.dump
                 PROVE  Fits(h)
  BY DEF Fits

LEMMA DeviceDump == ASSUME Base, TruthInv, OrderInv, DumpInv, DeviceMoves
                    PROVE  DumpInv'
<1>0. /\ Served /\ UNCHANGED <<dump, writes, src_, processed_, pc>>
      /\ ready \in Seq(Handlers) /\ outgoing \in Seq(Handlers) /\ wire \in Seq(ByteNames)
  BY ServedShape, Queues DEF DeviceMoves, request, Base, Assumed, TypeInv, DeviceTypes
<1>1. ASSUME NEW new \in Seq(Handlers), ready' = ready \o new,
             Content(wire)' = Content(wire) \cup Backlog(Answers(new)),
             \A h \in Answers(new) \cup Content(outgoing)' : Fits(h)
      PROVE  DumpInv'
  <2>1. /\ Answers(Todo)' = Answers(Todo) \cup Answers(new)
        /\ InHandler => Head(ready') = Head(ready)
    BY <1>0, <1>1, TodoJoined
  <2>2. Answers(new) \in SUBSET Handlers
    BY LenType DEF Answers
  <2> QED
    BY <1>0, <1>1, <2>1, <2>2, GrownDump DEF FileKept, InHandler
<1>2. \A h \in Content(outgoing) : Fits(h)
  BY DEF DumpInv
<1>3. ASSUME outgoing # <<>>, outgoing' = Tail(outgoing), NEW k \in 0..Head(outgoing).n,
             NEW err \in BOOLEAN, Takes(Head(outgoing), ready, k, err)
      PROVE  DumpInv'
  <2> DEFINE op == Head(outgoing)
             h  == Answered(op, k, err)
  <2>1. op = outgoing[1] /\ 1 \in 1..Len(outgoing) /\ op \in Handlers /\ IsAnswer(op)
    BY <1>3, Outstanding, Queues
  <2>2. /\ k \in Nat /\ h \in Handlers /\ IsAnswer(h) /\ h.src = op.src /\ h.from = op.from
        /\ h.dump = op.dump /\ h.n = k
    BY <1>3, <2>1, AnsweredFields DEF IsAnswer
  <2>3. wire' = wire \o Bytes(op, k) /\ ready' = Append(ready, h)
    BY <1>3 DEF Takes
  <2>4. Fits(op)
    BY <1>2, <2>1 DEF Content
  <2> HIDE DEF op, h
  <2>5. Append(ready, h) = ready \o <<h>> /\ <<h>> \in Seq(Handlers) /\ Answers(<<h>>) = {h}
    <3>1. Answers(<<h>>) = {h}
      BY <2>2, AnswersOne
    <3>2. Append(ready, h) = ready \o <<h>> /\ <<h>> \in Seq(Handlers)
      BY <1>0, <2>2, AppendJoins
    <3> QED
      BY <3>1, <3>2
  <2>6. Fits(h)
    BY <2>2, <2>4, FitsToo
  <2>7. Content(wire') = Content(wire) \cup Content(Bytes(op, k))
    <3>1. Bytes(op, k) \in Seq(ByteNames)
      BY <2>1, <2>2, BytesType
    <3> QED
      BY <1>0, <2>3, <3>1, ContentJoins
  <2>8. Content(Bytes(op, k)) = Backlog({h})
    <3>1. Bytes(h, h.n) = Bytes(op, k)
      BY <2>2 DEF Bytes
    <3> QED
      BY <3>1, BacklogOf
  <2>9. Content(outgoing') \subseteq Content(outgoing)
    BY <1>0, <1>3, TailFrom DEF Content
  <2> QED
    BY <1>1, <1>2, <2>3, <2>5, <2>6, <2>7, <2>8, <2>9
<1>4. CASE Cancel /\ UNCHANGED wire
  <2>1. PICK answers \in Seq(Handlers) :
           /\ ready' = ready \o answers /\ outgoing' = <<>>
           /\ Len(answers) = Len(outgoing)
           /\ \A i \in 1..Len(answers) :
                 /\ answers[i].src = outgoing[i].src /\ answers[i].from = outgoing[i].from
                 /\ answers[i].n = 0 /\ answers[i].dump = outgoing[i].dump
    BY <1>0, <1>4, Cancelled
  <2>2. \A h \in Answers(answers) : h.n = 0 /\ Fits(h)
    <3>1. \A i \in 1..Len(answers) : Fits(outgoing[i])
      BY <1>2, <2>1 DEF Content
    <3> QED
      BY <2>1, <3>1, FitsToo DEF Answers
  <2>3. Answers(answers) \in SUBSET Handlers
    BY LenType DEF Answers
  <2>4. Backlog(Answers(answers)) = {} /\ Content(<<>>) = {}
    BY <2>2, <2>3, NothingTaken DEF Content
  <2> QED
    BY <1>1, <1>4, <2>1, <2>2, <2>4
<1>5. CASE UNCHANGED <<ready, outgoing, wire>>
  <2>1. Todo' = Todo
    BY <1>0, <1>5 DEF Todo, InHandler
  <2> QED
    BY <1>0, <1>5, <2>1, SameDumpInv DEF FileKept
<1> QED
  BY <1>0, <1>3, <1>4, <1>5 DEF Served

LEMMA AskedDump ==
    ASSUME DumpInv, outgoing \in Seq(Handlers), wire \in Seq(ByteNames), NEW op \in Handlers,
           IsAnswer(op), Fits(op), NEW queue \in Seq(Handlers), Answers(queue) = Answers(Todo),
           Asked(op, queue), UNCHANGED dump, \A t \in Threads : pc'[t] # "issue", ~InHandler'
    PROVE  DumpInv'
<1>0. Todo' = ready' /\ pc'[Worker] # "continue" /\ FileKept
  BY DEF Todo, InHandler, FileKept
<1>1. \A h \in Content(outgoing) : Fits(h)
  BY DEF DumpInv
<1>2. ASSUME NEW k \in 0..op.n, Takes(op, queue, k, FALSE), UNCHANGED outgoing
      PROVE  DumpInv'
  <2> DEFINE h == Answered(op, k, FALSE)
  <2>1. /\ k \in Nat /\ h \in Handlers /\ IsAnswer(h) /\ h.src = op.src /\ h.from = op.from
        /\ h.dump = op.dump /\ h.n = k
    BY AnsweredFields DEF IsAnswer
  <2>2. wire' = wire \o Bytes(op, k) /\ ready' = Append(queue, h)
    BY <1>2 DEF Takes
  <2> HIDE DEF h
  <2>3. Answers(<<h>>) = {h}
    BY <2>1, AnswersOne
  <2>4. Append(queue, h) = queue \o <<h>> /\ <<h>> \in Seq(Handlers)
    BY <2>1, AppendJoins
  <2>5. Answers(Todo)' = Answers(Todo) \cup {h}
    <3> DEFINE last == <<h>>
    <3>1. last \in Seq(Handlers)
      BY <2>4
    <3> HIDE DEF last
    <3>2. Answers(queue \o last) = Answers(queue) \cup Answers(last)
      BY <3>1, AnswersJoin
    <3> QED
      BY <1>0, <2>2, <2>3, <2>4, <3>2 DEF last
  <2>6. Bytes(h, h.n) = Bytes(op, k) /\ Bytes(op, k) \in Seq(ByteNames)
    BY <2>1, BytesType DEF Bytes
  <2>7. Content(wire') = Content(wire) \cup Backlog({h})
    <3>1. Content(wire \o Bytes(op, k)) = Content(wire) \cup Content(Bytes(op, k))
      BY <2>6, ContentJoins
    <3> QED
      BY <2>2, <2>6, <3>1, BacklogOf
  <2>8. \A g \in {h} \cup Content(outgoing)' : Fits(g)
    <3>1. Fits(h)
      BY <2>1, FitsToo
    <3> QED
      BY <1>1, <1>2, <3>1
  <2>9. {h} \in SUBSET Handlers
    BY <2>1
  <2> QED
    BY <1>0, <2>5, <2>7, <2>8, <2>9, GrownDump
<1>3. ASSUME ready' = queue, UNCHANGED wire, Content(outgoing') \subseteq Content(outgoing) \cup {op}
      PROVE  DumpInv'
  <2>1. Answers(Todo)' = Answers(Todo) \cup {}
    BY <1>0, <1>3
  <2>2. Content(wire)' = Content(wire) \cup Backlog({})
    BY <1>3, BacklogOf
  <2>3. \A h \in {} \cup Content(outgoing)' : Fits(h)
    BY <1>1, <1>3
  <2> QED
    BY <1>0, <2>1, <2>2, <2>3, GrownDump
<1>4. CASE outgoing' = Append(outgoing, op) /\ ready' = queue /\ UNCHANGED wire
  <2>1. Content(outgoing') \subseteq Content(outgoing) \cup {op}
    BY <1>4 DEF Content
  <2> QED
    BY <1>3, <1>4, <2>1
<1>5. CASE ready' = queue /\ UNCHANGED <<outgoing, wire>>
  BY <1>3, <1>5
<1> QED
  BY <1>2, <1>4, <1>5 DEF Asked

LEMMA IssueDump == ASSUME Base, TruthInv, DumpInv, NEW t \in Threads, Issue(t)
                   PROVE  DumpInv'
<1>1. /\ pc[t] = "issue" /\ Busy /\ UNCHANGED dump
      /\ \A u \in Threads : pc'[u] # "issue"
      /\ ~InHandler /\ ~InHandler'
  BY IssueShape
<1>2. PICK op : Operation(op, 0, requestedSize_) /\ Asked(op, ready)
  BY IssueShape
<1>3. op \in Handlers /\ IsAnswer(op) /\ op.src = Len(writes) /\ op.dump = dumping
  BY <1>1, <1>2 DEF Operation, Writing, Told, Base, Assumed, OutcomeInv, Numbered
<1>4. Fits(op) /\ Todo = ready
  BY <1>1, <1>3 DEF Fits, DumpInv, Behind, Todo
<1>5. ready \in Seq(Handlers) /\ outgoing \in Seq(Handlers) /\ wire \in Seq(ByteNames)
  BY DEF Base, Assumed, TypeInv, DeviceTypes
<1> QED
  BY <1>1, <1>2, <1>3, <1>4, <1>5, AskedDump

LEMMA ContinueDump == ASSUME Base, TruthInv, DumpInv, Continue
                      PROVE  DumpInv'
<1> DEFINE h == Head(ready)
<1>1. /\ pc[Worker] = "continue" /\ InHandler /\ UNCHANGED dump
      /\ Ends(h) \/ GoesOn(h)
  BY ContinueShape
<1>2. Todo = Tail(ready) /\ Tail(ready) \in Seq(Handlers) /\ \A t \in Threads : pc[t] # "issue"
  BY <1>1, InCurrent, Queues, QueueType DEF Todo
<1>3. \A s \in {"end", "loop"} :
         Goto(Worker, s) => pc'[Worker] = s /\ \A t \in Threads : pc'[t] # "issue"
  BY <1>2, WorkerState DEF Goto, Base, Assumed, TypeInv, ControlTypes
<1>4. CASE Ends(h)
  <2>1. UNCHANGED <<ready, outgoing, wire>> /\ Goto(Worker, "end")
    BY <1>4 DEF Ends
  <2>2. Todo' = Todo
    BY <1>1, <1>3, <2>1 DEF Todo, InHandler
  <2> QED
    BY <1>1, <1>3, <2>1, <2>2, SameDumpInv DEF FileKept
<1>5. CASE GoesOn(h)
  <2>1. PICK op : Operation(op, processed_', requestedSize_ - processed_') /\ Asked(op, Tail(ready))
    BY <1>5 DEF GoesOn
  <2>2. /\ op \in Handlers /\ IsAnswer(op) /\ op.src = src_ /\ op.from = processed_ + h.n
        /\ op.dump = dumping /\ Goto(Worker, "loop")
    BY <1>5, <2>1 DEF GoesOn, Operation, Writing, Told
  <2>3. Fits(op)
    BY <1>1, <2>2 DEF Fits, DumpInv
  <2>4. ~InHandler'
    BY <1>3, <2>2 DEF InHandler
  <2>5. outgoing \in Seq(Handlers) /\ wire \in Seq(ByteNames)
    BY DEF Base, Assumed, TypeInv, DeviceTypes
  <2> QED
    BY <1>1, <1>2, <1>3, <2>1, <2>2, <2>3, <2>4, <2>5, AskedDump
<1> QED
  BY <1>1, <1>4, <1>5

LEMMA FinishDump == ASSUME Base, TruthInv, DumpInv, FinishHandler
                    PROVE  DumpInv'
<1> DEFINE h == UserCallback(Head(ready).err)
<1>1. /\ InHandler /\ ready' = Append(Tail(ready), h) /\ ~InHandler'
      /\ \A t \in Threads : pc'[t] # "issue"
      /\ UNCHANGED <<outgoing, wire, dump>>
  BY FinishShape DEF device
<1>2. h \in Handlers /\ ~IsAnswer(h)
  <2>1. Head(ready).err \in BOOLEAN
    BY <1>1, InCurrent DEF Handlers
  <2>2. processed_ \in Nat /\ src_ \in Nat
    BY DEF Base, Assumed, TypeInv, RequestTypes
  <2> QED
    BY <2>1, <2>2 DEF UserCallback, Handler, Handlers, IsAnswer
<1> HIDE DEF h
<1>3. Tail(ready) \in Seq(Handlers) /\ Todo = Tail(ready) /\ Todo' = ready'
  BY <1>1, InCurrent, Queues, QueueType DEF Todo
<1>4. Answers(<<h>>) = {}
  BY <1>2, AnswersOne
<1>5. ready' = Tail(ready) \o <<h>> /\ <<h>> \in Seq(Handlers)
  BY <1>1, <1>2, <1>3, AppendJoins
<1>6. Answers(Tail(ready) \o <<h>>) = Answers(Tail(ready)) \cup Answers(<<h>>)
  BY <1>3, <1>5, AnswersJoin
<1> QED
  BY <1>1, <1>3, <1>4, <1>5, <1>6, SameDumpInv DEF InHandler, FileKept

(* The answer at the head of the queue is of an earlier write than the others. *)
LEMMA FirstAnswer ==
    ASSUME Base, TruthInv, OrderInv, ready # <<>>, IsAnswer(Head(ready))
    PROVE  LET h == Head(ready)
           IN  /\ h = ready[1] /\ 1 \in 1..Len(ready)
               /\ h \in Told(writes, Len(posted))
               /\ h.id = h.src /\ h.src \in 1..Len(writes)
               /\ \A g \in Answers(Tail(ready)) \cup Content(outgoing) :
                     g \in Handlers /\ h.src < g.src
<1> DEFINE h == Head(ready)
<1>1. h = ready[1] /\ 1 \in 1..Len(ready)
  BY Queues
<1>2. h \in Told(writes, Len(posted)) /\ h.id = h.src /\ h.src \in 1..Len(writes)
  BY <1>1, Queues
<1>3. ASSUME NEW g \in Answers(Tail(ready))
      PROVE  g \in Handlers /\ h.src < g.src
  <2>1. PICK k \in 1..Len(Tail(ready)) : g = Tail(ready)[k] /\ IsAnswer(g)
    BY DEF Answers
  <2>2. k + 1 \in 1..Len(ready) /\ g = ready[k + 1] /\ 1 < k + 1
    BY <2>1, Queues, TailAt
  <2>3. g \in Handlers
    BY <2>2, Queues, LenType
  <2> QED
    BY <1>1, <2>1, <2>2, <2>3 DEF OrderInv, Ordered
<1>4. ASSUME NEW g \in Content(outgoing)
      PROVE  g \in Handlers /\ h.src < g.src
  <2>1. PICK j \in 1..Len(outgoing) : g = outgoing[j]
    BY DEF Content
  <2>2. g \in Handlers /\ IsAnswer(g)
    BY <2>1, Queues, LenType
  <2> QED
    BY <1>1, <2>1, <2>2 DEF OrderInv, Below
<1> QED
  BY <1>1, <1>2, <1>3, <1>4

(* dump_callback appends what the head of the queue reports.  The file stays   *)
(* behind the answers that remain, and what they report is still missing.     *)
LEMMA HandledDump ==
    ASSUME WiredInv, DumpInv, ready # <<>>, pc[Worker] = "loop", DumpCallback(Head(ready)),
           Todo' = Tail(ready), UNCHANGED <<dumping, dumps, wire, outgoing, writes, src_, processed_>>,
           \A t \in Threads : pc'[t] = "issue" => pc[t] = "issue",
           pc'[Worker] = "continue" =>
              /\ IsAnswer(Head(ready)) /\ Head(ready).id = writeId_
              /\ Head(ready') = Head(ready)
    PROVE  DumpInv'
<1> DEFINE h     == Head(ready)
           rest  == Answers(Tail(ready))
           later == rest \cup Content(outgoing)
           news  == Content(Bytes(h, h.n))
<1>0. Base /\ TruthInv /\ OrderInv
  BY DEF WiredInv
<1>1. /\ ready \in Seq(Handlers) /\ Todo = ready /\ Answers(Todo)' = rest
      /\ h = ready[1] /\ 1 \in 1..Len(ready) /\ h \in Told(writes, Len(posted))
      /\ Answers(Todo) = rest \cup Answers(<<h>>)
  <2>1. ready \in Seq(Handlers) /\ \A i \in 1..Len(ready) : ready[i] \in Told(writes, Len(posted))
    BY <1>0, Queues
  <2>2. h = ready[1] /\ 1 \in 1..Len(ready)
    BY <2>1
  <2>3. Todo = ready
    BY DEF Todo, InHandler
  <2>4. Answers(ready) = rest \cup Answers(<<h>>)
    BY <2>1, AnswersOf
  <2>5. Answers(Todo)' = rest
    OBVIOUS
  <2> QED
    BY <2>1, <2>2, <2>3, <2>4, <2>5
<1>2. CASE ~IsAnswer(h)
  <2>1. Answers(Todo)' = Answers(Todo) /\ ~h.dump
    BY <1>1, <1>2, AnswersOne DEF Told, TrueOf
  <2>2. UNCHANGED dump
    BY <2>1 DEF DumpCallback, dump
  <2> QED
    BY <1>2, <2>1, <2>2, SameDumpInv DEF FileKept
<1>3. CASE IsAnswer(h)
  <2>1. /\ h.id = h.src /\ h.src \in 1..Len(writes) /\ Len(writes) \in Nat
        /\ \A g \in later : g \in Handlers /\ h.src < g.src
    BY <1>0, <1>3, FirstAnswer, Queues
  <2>2. /\ h \in Handlers /\ h.src \in Nat /\ h.from \in Nat /\ h.n \in Nat /\ h.id \in Nat
        /\ h.err \in BOOLEAN /\ h.dump \in BOOLEAN
        /\ h.err => h.n = 0
    BY <1>1, <1>3 DEF Told, TrueOf, Handlers, IsAnswer
  <2>3. Answers(Todo) = rest \cup {h}
    BY <1>1, <1>3, AnswersOne
  <2>4. /\ Backlog(Answers(Todo)) = Backlog(rest) \cup news
        /\ news = {<<h.src, h.from + i>> : i \in 1..h.n}
    <3> HIDE DEF h, rest
    <3>1. news = {<<h.src, h.from + i>> : i \in 1..h.n}
      BY <2>2, BytesContent
    <3>2. Backlog(rest \cup {h}) = Backlog(rest) \cup Backlog({h}) /\ Backlog({h}) = news
      BY BacklogOf
    <3> QED
      BY <2>3, <3>1, <3>2
  <2>5. Fits(h)
    BY <2>3 DEF DumpInv
  <2>6. /\ dumped \in Seq(ByteNames)
        /\ dumped' = dumped \/ dumped' = dumped \o Bytes(h, h.n)
        /\ h.dump /\ ~h.err /\ dumping => dumped' = dumped \o Bytes(h, h.n)
    BY <1>0 DEF DumpCallback, Base, Assumed, TypeInv, DumpTypes
  <2> HIDE DEF h, rest, later
  <2>7. Content(dumped \o Bytes(h, h.n)) = Content(dumped) \cup news
    BY <2>2, <2>6, BytesType, ContentJoins
  <2>8. Content(dumped') \subseteq Content(dumped) \cup news
    BY <2>6, <2>7
  <2>9. Ascending(dumped')
    BY <2>2, <2>5, <2>6, DumpedAscends DEF DumpInv, Fits
  <2>10. ASSUME NEW g \in later
         PROVE  \A b \in Content(dumped') : Behind(b, g.src, g.from)
    <3>1. \A b \in Content(dumped) : Behind(b, g.src, g.from)
      <4>1. Fits(g)
        BY <2>3 DEF DumpInv, later
      <4> QED
        BY <4>1 DEF Fits
    <3>2. \A b \in news : Behind(b, g.src, g.from)
      BY <2>1, <2>4 DEF Behind
    <3> HIDE DEF news
    <3> QED
      BY <2>8, <3>1, <3>2
  <2>11. \A g \in later : dumping /\ dumps = 0 => g.dump
    <3>1. \A g \in later : Fits(g)
      BY <2>3 DEF DumpInv, later
    <3> QED
      BY <3>1 DEF Fits
  <2>12. ASSUME NEW t \in Threads, pc[t] = "issue"
         PROVE  \A b \in Content(dumped') : b[1] < Len(writes)
    <3>1. h.src < Len(writes)
      BY <1>0, <1>1, <1>3, <2>12, Unissued
    <3>2. \A b \in news : b[1] < Len(writes)
      BY <2>4, <3>1
    <3>3. \A b \in Content(dumped) : b[1] < Len(writes)
      BY <2>12 DEF DumpInv
    <3> HIDE DEF news
    <3> QED
      BY <2>8, <3>2, <3>3
  <2>13. ASSUME pc'[Worker] = "continue"
         PROVE  \A b \in Content(dumped') : Behind(b, src_, processed_ + h.n)
    <3>1. h.id = writeId_ /\ h.id # 0
      BY <1>0, <1>1, <1>3, <2>13, Ids DEF h
    <3>2. h.src = src_
      BY <1>0, <2>1, <3>1 DEF Base, Assumed, OutcomeInv, Numbered
    <3>3. h.from = processed_
      BY <1>1, <1>3, <3>1 DEF WiredInv, PieceInv, Reported
    <3>4. \A b \in Content(dumped) : b \in ByteNames
      BY <2>6, LenType DEF Content
    <3>5. \A b \in Content(dumped) : Behind(b, src_, processed_ + h.n)
      BY <2>2, <2>5, <3>2, <3>3, <3>4 DEF Fits, Behind, ByteNames
    <3>6. \A b \in news : Behind(b, src_, processed_ + h.n)
      BY <2>2, <2>4, <3>2, <3>3 DEF Behind
    <3> HIDE DEF news
    <3> QED
      BY <2>8, <3>5, <3>6
  <2>14. ASSUME dumping, dumps = 0
         PROVE  Content(dumped') = Content(wire) \ Backlog(rest)
    <3>1. Content(dumped') = Content(dumped) \cup news
      <4>1. h.dump
        BY <2>5, <2>14 DEF Fits
      <4>2. CASE h.err
        <5>1. news = {}
          BY <2>2, <2>4, <4>2
        <5> QED
          BY <2>6, <2>7, <5>1
      <4>3. CASE ~h.err
        BY <2>6, <2>7, <2>14, <4>1, <4>3
      <4> QED
        BY <4>2, <4>3
    <3>2. news \cap Backlog(rest) = {}
      <4> SUFFICES ASSUME NEW g \in rest, NEW b \in Content(Bytes(g, g.n)), b \in news
                   PROVE  FALSE
        BY DEF Backlog
      <4>1. g \in Handlers /\ h.src < g.src
        BY <2>1 DEF later
      <4>2. g.n \in Nat /\ g.src \in Nat
        BY <4>1 DEF Handlers
      <4>3. b[1] = g.src
        BY <4>1, <4>2, BytesContent
      <4>4. b[1] = h.src
        BY <2>4
      <4> QED
        BY <2>2, <4>1, <4>2, <4>3, <4>4
    <3>3. news \subseteq Content(wire)
      BY <2>4 DEF DumpInv
    <3>4. Content(dumped) = Content(wire) \ (Backlog(rest) \cup news)
      BY <2>4, <2>14 DEF DumpInv
    <3> HIDE DEF news
    <3> QED
      BY <3>1, <3>2, <3>3, <3>4
  <2>15. Content(dumped') \subseteq Content(wire) /\ Backlog(rest) \subseteq Content(wire)
    BY <2>4, <2>8 DEF DumpInv
  <2> HIDE DEF news
  <2>16. \A g \in Answers(Todo)' \cup Content(outgoing') : Fits(g)'
    BY <1>1, <2>10, <2>11 DEF Fits, later, rest
  <2>17. \A b \in Content(dumped') :
           /\ \A t \in Threads : pc'[t] = "issue" => b[1] < Len(writes')
           /\ pc'[Worker] = "continue" => Behind(b, src_', processed_' + Head(ready').n)
    BY <2>12, <2>13 DEF h
  <2>18. dumps' \in Nat
    BY DEF DumpInv
  <2> QED
    BY <1>1, <2>9, <2>14, <2>15, <2>16, <2>17, <2>18 DEF DumpInv, rest
<1> QED
  BY <1>2, <1>3

LEMMA DispatchDump == ASSUME WiredInv, DumpInv, DropHandler \/ EnterHandler PROVE DumpInv'
<1>0. pc \in [Threads -> CallerStates \cup WorkerStates] /\ Worker \in Threads
  BY WriterAssumption DEF WiredInv, Base, Assumed, TypeInv, ControlTypes, Threads
<1>1. /\ ready # <<>> /\ pc[Worker] = "loop" /\ DumpCallback(Head(ready))
      /\ UNCHANGED <<dumping, dumps, wire, outgoing, writes, src_, processed_>>
  BY DEF DropHandler, EnterHandler, device, request
<1>2. CASE DropHandler
  <2>1. ready' = Tail(ready) /\ pc' = pc
    BY <1>2 DEF DropHandler
  <2>2. Todo' = Tail(ready)
    BY <1>1, <2>1 DEF Todo, InHandler
  <2> QED
    BY <1>1, <2>1, <2>2, HandledDump
<1>3. CASE EnterHandler
  <2>1. /\ ready' = ready /\ Head(ready).what \in {"continue", "timeout"}
        /\ Head(ready).id = writeId_ /\ pc' = [pc EXCEPT ![Worker] = Head(ready).what]
    BY <1>3 DEF EnterHandler, WriteIdOk, Goto
  <2>2. pc'[Worker] = Head(ready).what /\ \A t \in Threads : pc'[t] = "issue" => pc[t] = "issue"
    BY <1>0, <2>1
  <2>3. Todo' = Tail(ready)
    BY <2>1, <2>2 DEF Todo, InHandler
  <2> QED
    BY <1>1, <2>1, <2>2, <2>3, HandledDump DEF IsAnswer
<1> QED
  BY <1>2, <1>3

LEMMA LeftDump == ASSUME WiredInv, DumpInv, TimeoutNotifies \/ Popped PROVE DumpInv'
<1>0. /\ pc \in [Threads -> CallerStates \cup WorkerStates] /\ Worker \in Threads
      /\ ready \in Seq(Handlers)
  BY WriterAssumption DEF WiredInv, Base, Assumed, TypeInv, ControlTypes, DeviceTypes, Threads
<1>1. UNCHANGED <<wire, outgoing, dump, writes, src_, processed_>>
  BY DEF TimeoutNotifies, Popped, device, request
<1>2. CASE TimeoutNotifies
  <2>1. pc[Worker] = "timeout" /\ ready' = ready /\ pc' = [pc EXCEPT ![Worker] = "end"]
    BY <1>2 DEF TimeoutNotifies, Goto
  <2>2. pc'[Worker] = "end" /\ \A t \in Threads : pc'[t] = "issue" => pc[t] = "issue"
    BY <1>0, <2>1
  <2>3. Todo' = Todo
    BY <2>1, <2>2 DEF Todo, InHandler
  <2> QED
    BY <1>1, <2>2, <2>3, SameDumpInv DEF FileKept
<1>3. CASE Popped
  <2>1. /\ ready # <<>> /\ ~IsAnswer(Head(ready)) /\ pc[Worker] = "loop" /\ ready' = Tail(ready)
        /\ pc' = pc \/ pc' = [pc EXCEPT ![Worker] = "callback"]
    BY <1>3 DEF Popped, Goto, IsAnswer
  <2>2. pc'[Worker] \in {"loop", "callback"} /\ \A t \in Threads : pc'[t] = "issue" => pc[t] = "issue"
    BY <1>0, <2>1
  <2>3. Todo = ready /\ Todo' = Tail(ready)
    BY <2>1, <2>2 DEF Todo, InHandler
  <2>4. Answers(ready) = Answers(Tail(ready)) \cup Answers(<<Head(ready)>>)
    BY <1>0, <2>1, AnswersOf
  <2>5. Answers(<<Head(ready)>>) = {}
    BY <2>1, AnswersOne
  <2>6. Answers(Todo)' = Answers(Todo)
    BY <2>3, <2>4, <2>5
  <2> QED
    BY <1>1, <2>2, <2>6, SameDumpInv DEF FileKept
<1> QED
  BY <1>2, <1>3

LEMMA StepDump == ASSUME WiredInv, DumpInv, [Next]_vars PROVE DumpInv'
  BY Shapes, QuietDump, DeviceDump, NewWriteDump, IssueDump, TimerDump, DispatchDump, LeftDump,
     ContinueDump, FinishDump DEF WiredInv, Base, Assumed

LEMMA BacklogIsUnhandled == ASSUME WiredInv PROVE NotHandled = Backlog(Answers(Todo))
<1>0. Base /\ TruthInv
  BY DEF WiredInv
<1>1. Answers(Todo) = {ready[i] : i \in Unhandled}
  <2>1. CASE InHandler
    <3>1. Todo = Tail(ready) /\ ready # <<>> /\ ready \in Seq(Handlers) /\ Len(ready) \in Nat
      BY <1>0, <2>1, InCurrent, Queues DEF Todo
    <3>2. /\ Len(Tail(ready)) = Len(ready) - 1
          /\ \A k \in 1..Len(Tail(ready)) : k + 1 \in 1..Len(ready) /\ Tail(ready)[k] = ready[k + 1]
      BY <3>1, TailAt
    <3>3. Unhandled = {i \in 1..Len(ready) : IsAnswer(ready[i]) /\ i # 1}
      BY <2>1 DEF Unhandled, IsAnswer
    <3>4. ASSUME NEW i \in 1..Len(ready), IsAnswer(ready[i]), i # 1
          PROVE  ready[i] \in Answers(Tail(ready))
      <4>1. /\ i - 1 \in 1..Len(Tail(ready)) /\ (i - 1) + 1 = i
        BY <3>1, <3>2, <3>4
      <4>2. Tail(ready)[i - 1] = ready[i]
        BY <3>2, <4>1
      <4> QED
        BY <3>4, <4>1, <4>2 DEF Answers
    <3>5. ASSUME NEW k \in 1..Len(Tail(ready)), IsAnswer(Tail(ready)[k])
          PROVE  Tail(ready)[k] \in {ready[i] : i \in Unhandled}
      <4>1. k + 1 \in 1..Len(ready) /\ k + 1 # 1 /\ Tail(ready)[k] = ready[k + 1]
        BY <3>2
      <4> QED
        BY <3>3, <3>5, <4>1
    <3> QED
      BY <3>1, <3>3, <3>4, <3>5 DEF Answers
  <2>2. CASE ~InHandler
    BY <2>2 DEF Todo, Answers, Unhandled, IsAnswer
  <2> QED
    BY <2>1, <2>2
<1> QED
  BY <1>1 DEF NotHandled, Backlog

(* The dump file holds the bytes of the writes in the order of the device, and  *)
(* none twice: dump_callback appends what each answer reports before it is     *)
(* known whether the answer is too late.  One that was open from the start     *)
(* misses the bytes of the answers still in the queue, and no others.          *)
THEOREM DumpHoldsWire == ASSUME NoWrap, ~SlowCaller PROVE Spec => []DumpIsWire
<1>1. Init => DumpInv
  <2> SUFFICES ASSUME Init PROVE DumpInv
    OBVIOUS
  <2>1. ready = <<>> /\ outgoing = <<>> /\ wire = <<>> /\ dumped = <<>> /\ dumps = 0
    BY DEF Init, DevicesInit
  <2>2. ~InHandler /\ Todo = <<>>
    BY <2>1, WorkerState DEF Init, InHandler, Todo
  <2>3. Content(<<>>) = {} /\ Answers(<<>>) = {} /\ Ascending(<<>>)
    BY DEF Content, Answers, Ascending
  <2>4. Backlog({}) = {}
    BY BacklogOf
  <2> QED
    BY <2>1, <2>2, <2>3, <2>4 DEF DumpInv
<1>2. WiredInv /\ DumpInv /\ [Next]_vars => DumpInv'
  BY StepDump
<1>3. WiredInv /\ DumpInv => DumpIsWire
  BY BacklogIsUnhandled DEF DumpInv, DumpIsWire, Ascending
<1> QED
  BY <1>1, <1>2, <1>3, PieceInvariance, PTL DEF Spec, WiredInv

=============================================================================
