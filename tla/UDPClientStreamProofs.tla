------------------------ MODULE UDPClientStreamProofs ------------------------
(***************************************************************************)
(* With one read at a time the datagram buffer implements ByteStream, for   *)
(* any sizes of buffer, datagrams and reads.  The invariant says which      *)
(* bytes buffer_ holds: those not handed over are the last that arrived,    *)
(* and a datagram whose handler has not run lies alone at its start.        *)
(***************************************************************************)
EXTENDS UDPClientStream, TLAPS

(* The unread bytes, when they end at `end', are the last to have arrived. *)
LastArrived(end) ==
    \A i \in bufferBegin_..(end - 1) : buffer_[i] = arrived - (end - 1 - i)

StartsWhenEmpty == Available = 0 => bufferBegin_ = 0 /\ bufferEnd_ = 0

Inv ==
    /\ BufferTypeOK
    /\ Outstanding \in 0..1
    /\ ReceivesIntoEmpty
    /\ StartsWhenEmpty
    /\ LastArrived(bufferEnd_ + Pending)
    /\ \A i \in 1..Len(completed) : completed[i].err => completed[i].received = 0

(* What remains to be read once no datagram waits for its handler. *)
NextUnread == IF Available > 0 THEN buffer_[bufferBegin_] ELSE arrived + 1

(* The bytes from `from' up to, but not including, `to' go to the reader. *)
HandsOver(from, to) ==
    /\ to \in from..(arrived + 1)
    /\ handed' = handed \o [i \in 1..(to - from) |-> from + i - 1]

-----------------------------------------------------------------------------
(* What is handed over is a part of what has arrived, in its order. *)
LEMMA TakeHandsOver ==
    ASSUME BufferTypeOK, NEW size \in ReadSizes, NEW end \in 0..BufferSize,
           end > bufferBegin_, LastArrived(end), Take(size, end),
           UNCHANGED <<buffer_, arrived>>
    PROVE  /\ bufferBegin_' \in 0..BufferSize
           /\ bufferEnd_' \in bufferBegin_'..BufferSize
           /\ StartsWhenEmpty'
           /\ LastArrived(bufferEnd_)'
           /\ HandsOver(buffer_[bufferBegin_], NextUnread')
<1> DEFINE begin == bufferBegin_
           next  == buffer_[begin]
<1>1. /\ BufferSize \in Nat /\ size \in Nat /\ arrived \in Nat
      /\ begin \in 0..BufferSize /\ end \in 0..BufferSize /\ begin < end
  BY UDPAssumption DEF BufferTypeOK
<1>2. \A i \in begin..(end - 1) : buffer_[i] = next + (i - begin)
  BY <1>1 DEF LastArrived
<1>3. next = arrived - (end - 1 - begin)
  BY <1>1 DEF LastArrived
<1>4. CASE size >= end - begin
  <2>1. /\ handed' = handed \o [i \in 1..(end - begin) |-> buffer_[begin + i - 1]]
        /\ bufferBegin_' = 0
        /\ bufferEnd_' = 0
    <3>1. ~(size < end - begin)
      BY <1>1, <1>4
    <3> QED
      BY <3>1, Zenon DEF Take, GiveBytes, EmptyBuffer
  <2>2. [i \in 1..(end - begin) |-> buffer_[begin + i - 1]]
           = [i \in 1..(end - begin) |-> next + i - 1]
    BY <1>1, <1>2, <1>3
  <2>3. arrived + 1 - next = end - begin
    BY <1>1, <1>3
  <2>4. Available' = 0
    BY <2>1 DEF Available
  <2>5. NextUnread' = arrived + 1
    BY <2>4 DEF NextUnread
  <2>6. HandsOver(next, NextUnread')
    <3>1. NextUnread' \in next..(arrived + 1)
      BY <1>1, <1>3, <2>5
    <3>2. NextUnread' - next = end - begin
      BY <1>1, <1>3, <2>3, <2>5
    <3> QED
      BY <2>1, <2>2, <3>1, <3>2, Zenon DEF HandsOver
  <2>7. StartsWhenEmpty' /\ LastArrived(bufferEnd_)'
    BY <2>1 DEF StartsWhenEmpty, LastArrived
  <2>8. /\ bufferBegin_' \in 0..BufferSize
        /\ bufferEnd_' \in bufferBegin_'..BufferSize
    BY <1>1, <2>1
  <2> QED
    BY <2>6, <2>7, <2>8
<1>5. CASE size < end - begin
  <2>1. /\ handed' = handed \o [i \in 1..size |-> buffer_[begin + i - 1]]
        /\ bufferBegin_' = begin + size
        /\ bufferEnd_' = end
    <3>1. ~(size >= end - begin)
      BY <1>1, <1>5
    <3> QED
      BY <3>1, Zenon DEF Take, GiveBytes
  <2>2. [i \in 1..size |-> buffer_[begin + i - 1]] = [i \in 1..size |-> next + i - 1]
    BY <1>1, <1>2, <1>3, <1>5
  <2>3. buffer_[begin + size] - next = size
    BY <1>1, <1>2, <1>3, <1>5
  <2>4. Available' > 0 /\ Available' # 0
    BY <1>1, <1>5, <2>1 DEF Available
  <2>5. LastArrived(bufferEnd_)'
    BY <1>1, <1>5, <2>1 DEF LastArrived
  <2>6. NextUnread' = buffer_[begin + size]
    BY <2>1, <2>4 DEF NextUnread
  <2>7. HandsOver(next, NextUnread')
    <3>1. NextUnread' \in next..(arrived + 1)
      BY <1>1, <1>2, <1>3, <1>5, <2>6
    <3>2. NextUnread' - next = size
      BY <2>3, <2>6
    <3> QED
      BY <2>1, <2>2, <3>1, <3>2, Zenon DEF HandsOver
  <2>8. StartsWhenEmpty'
    BY <2>4 DEF StartsWhenEmpty
  <2>9. /\ bufferBegin_' \in 0..BufferSize
        /\ bufferEnd_' \in bufferBegin_'..BufferSize
    BY <1>1, <1>5, <2>1
  <2> QED
    BY <2>5, <2>7, <2>8, <2>9
<1> QED
  BY <1>1, <1>4, <1>5

-----------------------------------------------------------------------------
LEMMA Single ==
    ASSUME NEW S, NEW s \in Seq(S)
    PROVE  /\ Len(s) \in Nat
           /\ Len(s) = 0 <=> s = <<>>
           /\ Len(s) = 1 => s[1] \in S /\ s = <<s[1]>> /\ Head(s) = s[1]
  OBVIOUS

(* With one read at a time the two queues hold at most one entry together. *)
LEMMA OneEntry ==
    ASSUME Inv
    PROVE  /\ Len(waiting) \in Nat /\ Len(completed) \in Nat
           /\ waiting = <<>> \/ (waiting = <<waiting[1]>> /\ completed = <<>>)
           /\ completed = <<>> \/ (completed = <<completed[1]>> /\ waiting = <<>>)
           /\ waiting # <<>> => Head(waiting) \in ReadSizes
           /\ completed # <<>> =>
                 /\ Outstanding > 0
                 /\ Head(completed) \in
                       [size : ReadSizes, err : BOOLEAN, received : 0..BufferSize]
                 /\ Head(completed).err => Head(completed).received = 0
<1> DEFINE Answers == [size : ReadSizes, err : BOOLEAN, received : 0..BufferSize]
<1>1. /\ waiting \in Seq(ReadSizes)
      /\ completed \in Seq(Answers)
      /\ Outstanding \in 0..1
      /\ \A i \in 1..Len(completed) : completed[i].err => completed[i].received = 0
  BY DEF Inv, BufferTypeOK
<1> HIDE DEF Answers
<1>2. Len(waiting) \in Nat /\ Len(completed) \in Nat
  BY <1>1, Single
<1>3. Outstanding = Len(waiting) + Len(completed)
  BY DEF Outstanding
<1>4. \/ Len(waiting) = 0 /\ Len(completed) = 0
      \/ Len(waiting) = 1 /\ Len(completed) = 0
      \/ Len(waiting) = 0 /\ Len(completed) = 1
  <2>1. \A m, n \in Nat : m + n \in 0..1 =>
           (m = 0 /\ n = 0) \/ (m = 1 /\ n = 0) \/ (m = 0 /\ n = 1)
    OBVIOUS
  <2>2. Len(waiting) + Len(completed) \in 0..1
    BY <1>1, <1>3, Zenon
  <2> QED
    BY <1>2, <2>1, <2>2, Zenon
<1>5. CASE Len(completed) = 0
  <2>1. completed = <<>>
    BY <1>1, <1>5, Single
  <2>2. waiting = <<>> \/ (waiting[1] \in ReadSizes /\ waiting = <<waiting[1]>>
                             /\ Head(waiting) = waiting[1])
    BY <1>1, <1>4, <1>5, Single, Zenon
  <2> QED
    BY <1>2, <2>1, <2>2, Zenon
<1>6. CASE Len(completed) # 0
  <2>1. Len(waiting) = 0 /\ Len(completed) = 1 /\ Outstanding > 0
    BY <1>3, <1>4, <1>6
  <2>2. waiting = <<>> /\ completed # <<>>
    BY <1>1, <1>6, <2>1, Single
  <2>3. completed[1] \in Answers /\ completed = <<completed[1]>>
        /\ Head(completed) = completed[1]
    BY <1>1, <2>1, Single, Zenon
  <2>4. completed[1].err => completed[1].received = 0
    BY <1>1, <2>1
  <2> QED
    BY <1>2, <2>1, <2>2, <2>3, <2>4, Zenon DEF Answers
<1> QED
  BY <1>5, <1>6

(* Nothing is unread while a receive is outstanding. *)
LEMMA PendingByte ==
    ASSUME Inv
    PROVE  /\ Pending \in 0..BufferSize
           /\ bufferEnd_ + Pending \in bufferBegin_..BufferSize
           /\ completed # <<>> =>
                 /\ bufferBegin_ = 0 /\ bufferEnd_ = 0
                 /\ NextByte = arrived - Pending + 1
           /\ completed = <<>> => Pending = 0 /\ NextByte = NextUnread
<1>1. /\ BufferSize \in Nat /\ arrived \in Nat
      /\ bufferBegin_ \in 0..BufferSize /\ bufferEnd_ \in bufferBegin_..BufferSize
  BY UDPAssumption DEF Inv, BufferTypeOK
<1>2. CASE completed = <<>>
  BY <1>1, <1>2 DEF Pending, NextByte, NextUnread
<1>3. CASE completed # <<>>
  <2>1. Pending = Head(completed).received /\ Pending \in 0..BufferSize
    BY <1>3, OneEntry DEF Pending
  <2>2. bufferBegin_ = 0 /\ bufferEnd_ = 0
    BY <1>3, OneEntry DEF Inv, ReceivesIntoEmpty
  <2> QED
    BY <1>1, <1>3, <2>1, <2>2 DEF NextByte, Available
<1> QED
  BY <1>2, <1>3

(* Cancelling moves the read that waits, if any, to the answered ones. *)
LEMMA CancelKeeps ==
    ASSUME Inv, Cancel
    PROVE  /\ waiting' = <<>>
           /\ completed' \in Seq([size : ReadSizes, err : BOOLEAN, received : 0..BufferSize])
           /\ Outstanding' = Outstanding
           /\ Pending' = Pending
           /\ \A i \in 1..Len(completed') : completed'[i].err => completed'[i].received = 0
<1>1. CASE waiting = <<>>
  <2>1. completed' = completed /\ waiting' = waiting
    BY <1>1 DEF Cancel, Inv, BufferTypeOK
  <2> QED
    BY <1>1, <2>1 DEF Inv, BufferTypeOK, Outstanding, Pending
<1>2. CASE waiting # <<>>
  <2>1. completed = <<>> /\ waiting = <<waiting[1]>> /\ waiting[1] \in ReadSizes
    BY <1>2, OneEntry
  <2>2. completed' = <<Answer(waiting[1], TRUE, 0)>> /\ waiting' = <<>>
    <3>1. [i \in 1..Len(waiting) |-> Answer(waiting[i], TRUE, 0)]
             = <<Answer(waiting[1], TRUE, 0)>>
      <4> DEFINE f == [i \in 1..1 |-> Answer(waiting[i], TRUE, 0)]
                 S == {Answer(waiting[1], TRUE, 0)}
      <4>1. Len(waiting) = 1
        BY <2>1
      <4>2. f \in Seq(S) /\ Len(f) = 1
        OBVIOUS
      <4> HIDE DEF f, S
      <4>3. f = <<f[1]>> /\ f[1] \in S
        BY <4>2, Single
      <4> QED
        <5>1. f[1] = Answer(waiting[1], TRUE, 0)
          BY <4>3 DEF S
        <5>2. f = [i \in 1..Len(waiting) |-> Answer(waiting[i], TRUE, 0)]
          BY <4>1, Zenon DEF f
        <5> QED
          BY <4>3, <5>1, <5>2, Zenon
    <3>2. completed' = <<>> \o <<Answer(waiting[1], TRUE, 0)>> /\ waiting' = <<>>
      BY <2>1, <3>1, Zenon DEF Cancel
    <3> QED
      BY <3>2
  <2> QED
    BY <2>1, <2>2, UDPAssumption DEF Answer, Outstanding, Pending
<1> QED
  BY <1>1, <1>2

-----------------------------------------------------------------------------
StreamStep == [Stream!Next]_(Stream!vars)

DropsNothing == handed' = handed => NextByte' = NextByte

LEMMA AppendRun ==
    ASSUME NEW h \in Seq(Nat), NEW from \in Nat, NEW last \in Nat, NEW to \in from..last
    PROVE  h \o [i \in 1..(to - from) |-> from + i - 1] \in Seq(Nat)
<1> DEFINE run(n) == [i \in 1..n |-> from + i - 1]
<1>1. \A n \in Nat : run(n) \in Seq(Nat)
  OBVIOUS
<1>2. to - from \in Nat
  OBVIOUS
<1>3. run(to - from) \in Seq(Nat)
  BY <1>1, <1>2
<1> HIDE DEF run
<1>4. h \o run(to - from) \in Seq(Nat)
  BY <1>3
<1> QED
  BY <1>4 DEF run

LEMMA EmptyRun ==
    ASSUME NEW h \in Seq(Nat), NEW from \in Nat, NEW last \in Nat, NEW to \in from..last,
           h \o [i \in 1..(to - from) |-> from + i - 1] = h
    PROVE  to = from
<1> DEFINE run == [i \in 1..(to - from) |-> from + i - 1]
<1>1. to - from \in Nat /\ Len(h) \in Nat
  OBVIOUS
<1>2. run \in Seq(Nat) /\ Len(run) = to - from
  BY <1>1
<1>3. h \o run = h
  OBVIOUS
<1> HIDE DEF run
<1>4. Len(h) + Len(run) = Len(h)
  <2>1. \A a, b \in Seq(Nat) : Len(a \o b) = Len(a) + Len(b)
    OBVIOUS
  <2> QED
    BY <1>2, <1>3, <2>1, Zenon
<1> QED
  BY <1>1, <1>2, <1>4

(* Handing bytes over, or adding datagrams, is a step of the byte stream. *)
LEMMA PassStep ==
    ASSUME handed \in Seq(Nat), NextByte \in Nat, arrived \in Nat, arrived' = arrived,
           HandsOver(NextByte, NextByte')
    PROVE  handed' \in Seq(Nat) /\ StreamStep /\ DropsNothing
<1>1. NextByte' \in NextByte..(arrived + 1)
  BY DEF HandsOver
<1>2. handed' = handed \o [i \in 1..(NextByte' - NextByte) |-> NextByte + i - 1]
  BY Zenon DEF HandsOver
<1>3. handed' \in Seq(Nat)
  <2>1. arrived + 1 \in Nat
    OBVIOUS
  <2> QED
    BY <1>1, <1>2, <2>1, AppendRun, Zenon
<1>4. Stream!Pass
  BY <1>1, <1>2 DEF Stream!Pass
<1>5. DropsNothing
  <2>1. arrived + 1 \in Nat
    OBVIOUS
  <2> QED
    BY <1>1, <1>2, <2>1, EmptyRun, Zenon DEF DropsNothing
<1> QED
  BY <1>3, <1>4, <1>5 DEF StreamStep, Stream!Next

(* A read without datagram: bytes of the buffer, or a new receive. *)
LEMMA ReadInv == ASSUME Inv, MaxOutstanding = 1, Read
                 PROVE  Inv' /\ StreamStep /\ DropsNothing
<1> USE UDPAssumption
<1>1. PICK size \in ReadSizes : AsyncReadSome(size, bufferEnd_)
  BY DEF Read
<1>2. waiting = <<>> /\ completed = <<>> /\ completed' = <<>> /\ Outstanding = 0
  <2>1. Outstanding < 1
    BY DEF Read
  <2>2. Outstanding = Len(waiting) + Len(completed)
    BY DEF Outstanding
  <2>3. Len(waiting) = 0 /\ Len(completed) = 0
    BY <2>1, <2>2, OneEntry
  <2> QED
    BY <2>2, <2>3, OneEntry DEF Read, Inv, BufferTypeOK
<1>3. UNCHANGED <<socket_, buffer_, completed, arrived>> /\ arrived \in Nat
  BY DEF Read, Inv, BufferTypeOK
<1>4. Pending = 0 /\ Pending' = 0
  BY <1>2 DEF Pending
<1>5. NextByte = NextUnread /\ NextByte' = NextUnread'
  <2>1. arrived' - Pending' + 1 = arrived' + 1 /\ arrived - Pending + 1 = arrived + 1
    BY <1>3, <1>4
  <2> QED
    BY <2>1, Zenon DEF NextByte, NextUnread
<1>6. CASE bufferEnd_ > bufferBegin_
  <2>1. /\ bufferBegin_ \in Nat /\ bufferEnd_ \in 0..BufferSize
        /\ ~(bufferEnd_ <= bufferBegin_) /\ Available > 0
        /\ buffer_[bufferBegin_] \in Nat
    BY <1>6 DEF Inv, BufferTypeOK, Available
  <2>2. Take(size, bufferEnd_) /\ waiting' = waiting
    BY <1>1, <2>1, Zenon DEF AsyncReadSome
  <2>3. LastArrived(bufferEnd_)
    BY <1>4, <2>1 DEF Inv
  <2>4. /\ bufferBegin_' \in 0..BufferSize
        /\ bufferEnd_' \in bufferBegin_'..BufferSize
        /\ StartsWhenEmpty'
        /\ LastArrived(bufferEnd_)'
        /\ HandsOver(buffer_[bufferBegin_], NextUnread')
    <3>1. BufferTypeOK
      BY DEF Inv
    <3> QED
      BY <1>3, <1>6, <2>1, <2>2, <2>3, <3>1, TakeHandsOver, Zenon
  <2>5. NextByte = buffer_[bufferBegin_]
    BY <2>1 DEF NextByte
  <2>6. handed' \in Seq(Nat) /\ StreamStep /\ DropsNothing
    BY <1>3, <1>5, <2>1, <2>4, <2>5, PassStep DEF Inv, BufferTypeOK
  <2>7. Outstanding' = 0
    BY <1>2, <2>2 DEF Outstanding
  <2>8. ReceivesIntoEmpty'
    BY <2>7 DEF ReceivesIntoEmpty
  <2>9. LastArrived(bufferEnd_ + Pending)'
    <3>1. \A n \in Int : n + 0 = n
      OBVIOUS
    <3>2. bufferEnd_' \in Int
      BY <2>4
    <3> QED
      BY <1>4, <2>4, <3>1, <3>2, Zenon DEF LastArrived
  <2>10. BufferTypeOK'
    BY <1>3, <2>2, <2>4, <2>6 DEF Inv, BufferTypeOK
  <2> QED
    BY <1>2, <2>4, <2>6, <2>7, <2>8, <2>9, <2>10 DEF Inv
<1>7. CASE bufferEnd_ <= bufferBegin_
  <2>1. ~(bufferEnd_ > bufferBegin_) /\ bufferBegin_ = 0 /\ bufferEnd_ = 0
    BY <1>7 DEF Inv, BufferTypeOK, StartsWhenEmpty, Available
  <2>2. /\ waiting' = <<size>>
        /\ UNCHANGED <<bufferBegin_, bufferEnd_, handed>>
    BY <1>1, <1>2, <2>1 DEF AsyncReadSome
  <2>3. NextUnread' = NextUnread
    BY <1>3, <2>2 DEF NextUnread, Available
  <2>4. StreamStep /\ DropsNothing
    BY <1>3, <1>5, <2>2, <2>3 DEF StreamStep, DropsNothing, Stream!vars
  <2>5. Outstanding' = 1
    BY <1>2, <2>2 DEF Outstanding
  <2>6. BufferTypeOK'
    BY <1>3, <2>2 DEF Inv, BufferTypeOK
  <2>7. LastArrived(bufferEnd_ + Pending)'
    BY <1>4, <2>1, <2>2 DEF LastArrived
  <2>8. ReceivesIntoEmpty' /\ StartsWhenEmpty'
    BY <2>1, <2>2 DEF ReceivesIntoEmpty, StartsWhenEmpty
  <2> QED
    BY <1>2, <2>4, <2>5, <2>6, <2>7, <2>8 DEF Inv
<1>8. bufferEnd_ > bufferBegin_ \/ bufferEnd_ <= bufferBegin_
  <2>1. BufferSize \in Nat /\ bufferBegin_ \in 0..BufferSize
        /\ bufferEnd_ \in bufferBegin_..BufferSize
    BY DEF Inv, BufferTypeOK
  <2> QED
    BY <2>1
<1> QED
  BY <1>6, <1>7, <1>8

(* A datagram arrives in an empty buffer, and its bytes are the next ones. *)
LEMMA ReceiveInv == ASSUME Inv, NEW n \in DatagramSizes, Receive(n)
                    PROVE  Inv' /\ StreamStep /\ DropsNothing
<1>1. /\ n \in 0..BufferSize /\ n \in Nat /\ BufferSize \in Nat /\ arrived \in Nat
      /\ 0 \in 0..BufferSize
  BY UDPAssumption DEF Inv, BufferTypeOK
<1>2. /\ waiting = <<waiting[1]>> /\ completed = <<>>
      /\ Head(waiting) \in ReadSizes /\ Outstanding = 1
  <2>1. waiting = <<waiting[1]>> /\ completed = <<>> /\ Head(waiting) \in ReadSizes
    BY OneEntry DEF Receive
  <2> QED
    BY <2>1 DEF Outstanding
<1>3. bufferBegin_ = 0 /\ bufferEnd_ = 0
  BY <1>2 DEF Inv, ReceivesIntoEmpty
<1>4. /\ UNCHANGED <<socket_, bufferBegin_, bufferEnd_, handed>>
      /\ arrived' = arrived + n
      /\ completed' = <<Answer(Head(waiting), FALSE, n)>>
      /\ waiting' = <<>>
      /\ buffer_' = [i \in 0..(BufferSize - 1) |->
                         IF i < n THEN arrived + i + 1 ELSE buffer_[i]]
  <2>1. /\ completed' = Append(completed, Answer(Head(waiting), FALSE, n))
        /\ waiting' = Tail(waiting)
    BY Zenon DEF Receive
  <2>2. completed' = <<Answer(Head(waiting), FALSE, n)>> /\ waiting' = <<>>
    <3>1. \A x : Append(<<>>, x) = <<x>> /\ Tail(<<x>>) = <<>>
      OBVIOUS
    <3> QED
      BY <1>2, <2>1, <3>1, Zenon
  <2> QED
    BY <2>2, Zenon DEF Receive
<1>5. Outstanding' = 1 /\ Pending' = n
  <2>1. Head(completed') = Answer(Head(waiting), FALSE, n) /\ completed' # <<>>
    BY <1>4
  <2>2. Pending' = n
    BY <2>1 DEF Pending, Answer
  <2>3. Outstanding' = 1
    BY <1>4 DEF Outstanding
  <2> QED
    BY <2>2, <2>3
<1>6. NextByte = arrived + 1 /\ NextByte' = arrived + 1
  <2>1. Pending = 0
    BY <1>2 DEF Pending
  <2>2. ~(Available > 0) /\ ~(Available' > 0)
    BY <1>3, <1>4 DEF Available
  <2>3. arrived - 0 + 1 = arrived + 1 /\ (arrived + n) - n + 1 = arrived + 1
    BY <1>1
  <2> QED
    BY <1>4, <1>5, <2>1, <2>2, <2>3, Zenon DEF NextByte
<1>7. StreamStep /\ DropsNothing
  <2>1. handed' = handed \o [i \in 1..(NextByte' - NextByte) |-> NextByte + i - 1]
    <3>1. [i \in 1..(NextByte' - NextByte) |-> NextByte + i - 1] = <<>>
      BY <1>1, <1>6
    <3>2. handed = handed \o <<>>
      BY DEF Inv, BufferTypeOK
    <3> QED
      BY <1>4, <3>1, <3>2, Zenon
  <2>2. Stream!Pass
    <3>1. /\ arrived' \in Nat /\ arrived' >= arrived
          /\ arrived + 1 \in (arrived + 1)..(arrived' + 1)
      BY <1>1, <1>4
    <3> QED
      BY <1>6, <2>1, <3>1, Zenon DEF Stream!Pass
  <2> QED
    BY <1>6, <2>2 DEF StreamStep, DropsNothing, Stream!Next
<1>8. LastArrived(bufferEnd_ + Pending)'
  BY <1>1, <1>3, <1>4, <1>5 DEF LastArrived
<1>9. BufferTypeOK'
  BY <1>1, <1>2, <1>3, <1>4 DEF Inv, BufferTypeOK, Answer
<1>10. /\ ReceivesIntoEmpty' /\ StartsWhenEmpty'
       /\ \A i \in 1..Len(completed') : completed'[i].err => completed'[i].received = 0
  BY <1>3, <1>4 DEF ReceivesIntoEmpty, StartsWhenEmpty, Answer
<1> QED
  BY <1>5, <1>7, <1>8, <1>9, <1>10 DEF Inv

(* The handler gives the start of the datagram to the read, makes it wait     *)
(* again, or passes an error on.                                             *)
LEMMA ReceiveContinueInv == ASSUME Inv, ReceiveContinue
                            PROVE  Inv' /\ StreamStep /\ DropsNothing
<1> DEFINE answer == Head(completed)
<1>1. /\ completed = <<completed[1]>> /\ waiting = <<>>
      /\ answer.size \in ReadSizes
      /\ answer.err \in BOOLEAN
      /\ answer.err => answer.received = 0
      /\ answer.received = Pending
      /\ completed # <<>>
  BY OneEntry DEF ReceiveContinue, Pending
<1>2. /\ bufferBegin_ = 0 /\ bufferEnd_ = 0
      /\ Pending \in 0..BufferSize
      /\ NextByte = arrived - Pending + 1
  BY <1>1, PendingByte
<1>3. /\ UNCHANGED <<socket_, buffer_, arrived>>
      /\ completed' = <<>>
      /\ arrived \in Nat /\ BufferSize \in Nat /\ bufferEnd_ + Pending = Pending
      /\ handed \in Seq(Nat)
      /\ BufferTypeOK
  <2>1. BufferTypeOK /\ BufferSize \in Nat
    BY UDPAssumption DEF Inv
  <2>2. UNCHANGED <<socket_, buffer_, arrived>> /\ completed' = Tail(completed)
    BY DEF ReceiveContinue
  <2>3. completed' = <<>>
    BY <1>1, <2>2
  <2>4. bufferEnd_ + Pending = Pending
    BY <1>2
  <2> QED
    BY <2>1, <2>2, <2>3, <2>4 DEF BufferTypeOK
<1>4. \/ ~answer.err /\ AsyncReadSome(answer.size, Pending)
      \/ /\ answer.err
         /\ bufferEnd_' = Pending
         /\ UNCHANGED <<bufferBegin_, waiting, handed>>
  BY <1>1, <1>3, Zenon DEF ReceiveContinue
<1>5. Pending' = 0 /\ NextByte' = NextUnread'
  <2>1. Pending' = 0
    BY <1>3 DEF Pending
  <2>2. arrived' - 0 + 1 = arrived' + 1
    BY <1>3
  <2> QED
    BY <2>1, <2>2, Zenon DEF NextByte, NextUnread
<1>6. CASE Pending > 0
  <2>1. /\ ~(Pending <= bufferBegin_) /\ Pending > bufferBegin_ /\ ~answer.err
        /\ Pending \in Nat
    BY <1>1, <1>2, <1>6
  <2>2. Take(answer.size, Pending) /\ waiting' = waiting
    BY <1>4, <2>1, Zenon DEF AsyncReadSome
  <2>3. LastArrived(Pending)
    BY <1>3 DEF Inv
  <2>4. /\ bufferBegin_' \in 0..BufferSize
        /\ bufferEnd_' \in bufferBegin_'..BufferSize
        /\ StartsWhenEmpty'
        /\ LastArrived(bufferEnd_)'
        /\ HandsOver(buffer_[bufferBegin_], NextUnread')
    BY <1>1, <1>2, <1>3, <2>1, <2>2, <2>3, TakeHandsOver, Zenon
  <2>5. NextByte = buffer_[bufferBegin_] /\ NextByte \in Nat
    <3>1. 0 \in 0..(Pending - 1) /\ 0 \in 0..(BufferSize - 1)
      BY <1>2, <1>3, <1>6
    <3>2. buffer_[0] = arrived - (Pending - 1 - 0) /\ buffer_[0] \in Nat
      BY <1>2, <2>3, <3>1 DEF LastArrived, Inv, BufferTypeOK
    <3> QED
      BY <1>2, <1>3, <3>2
  <2>6. handed' \in Seq(Nat) /\ StreamStep /\ DropsNothing
    BY <1>3, <1>5, <2>4, <2>5, PassStep
  <2>7. Outstanding' = 0
    BY <1>1, <1>3, <2>2 DEF Outstanding
  <2>8. ReceivesIntoEmpty'
    BY <2>7 DEF ReceivesIntoEmpty
  <2>9. LastArrived(bufferEnd_ + Pending)'
    <3>1. \A n \in Int : n + 0 = n
      OBVIOUS
    <3>2. bufferEnd_' \in Int
      BY <2>4
    <3> QED
      BY <1>5, <2>4, <3>1, <3>2, Zenon DEF LastArrived
  <2>10. BufferTypeOK'
    BY <1>3, <2>2, <2>4, <2>6 DEF BufferTypeOK
  <2> QED
    BY <1>3, <2>4, <2>6, <2>7, <2>8, <2>9, <2>10 DEF Inv
<1>7. CASE Pending = 0
  <2>1. /\ UNCHANGED <<bufferBegin_, handed>>
        /\ bufferEnd_' = 0
        /\ waiting' = <<>> \/ waiting' = <<answer.size>>
    BY <1>1, <1>2, <1>4, <1>7 DEF AsyncReadSome
  <2>2. NextByte' = arrived + 1 /\ NextByte = arrived + 1
    <3>1. ~(Available' > 0)
      BY <1>2, <2>1 DEF Available
    <3>2. arrived - 0 + 1 = arrived + 1
      BY <1>3
    <3> QED
      BY <1>2, <1>3, <1>5, <1>7, <3>1, <3>2, Zenon DEF NextUnread
  <2>3. StreamStep /\ DropsNothing
    BY <1>3, <2>1, <2>2 DEF StreamStep, DropsNothing, Stream!vars
  <2>4. Outstanding' \in 0..1
    BY <1>3, <2>1 DEF Outstanding
  <2>5. BufferTypeOK'
    <3>1. waiting' \in Seq(ReadSizes)
      <4>1. /\ \A size \in ReadSizes : <<size>> \in Seq(ReadSizes)
            /\ <<>> \in Seq(ReadSizes)
        OBVIOUS
      <4> QED
        BY <1>1, <2>1, <4>1, Zenon
    <3>2. bufferBegin_' \in 0..BufferSize /\ bufferEnd_' \in bufferBegin_'..BufferSize
      BY <1>2, <1>3, <2>1
    <3>3. completed' \in Seq([size : ReadSizes, err : BOOLEAN, received : 0..BufferSize])
      BY <1>3
    <3> QED
      BY <1>3, <2>1, <3>1, <3>2, <3>3 DEF BufferTypeOK
  <2>6. ReceivesIntoEmpty' /\ StartsWhenEmpty'
    BY <1>2, <2>1 DEF ReceivesIntoEmpty, StartsWhenEmpty
  <2>7. LastArrived(bufferEnd_ + Pending)'
    BY <1>2, <1>5, <2>1 DEF LastArrived
  <2> QED
    BY <1>3, <2>3, <2>4, <2>5, <2>6, <2>7 DEF Inv
<1> QED
  BY <1>2, <1>6, <1>7

(* An error leaves the bytes alone. *)
LEMMA ReceiveFailsInv == ASSUME Inv, ReceiveFails
                         PROVE  Inv' /\ StreamStep /\ DropsNothing
<1>1. /\ waiting = <<waiting[1]>> /\ completed = <<>> /\ Outstanding > 0
      /\ Head(waiting) \in ReadSizes
  <2>1. waiting = <<waiting[1]>> /\ completed = <<>> /\ Head(waiting) \in ReadSizes
    BY OneEntry DEF ReceiveFails
  <2> QED
    BY <2>1 DEF Outstanding
<1>2. /\ UNCHANGED <<socket_, buffer_, bufferBegin_, bufferEnd_, arrived, handed>>
      /\ completed' = <<Answer(Head(waiting), TRUE, 0)>>
      /\ waiting' = <<>>
  BY <1>1 DEF ReceiveFails
<1>3. Pending = 0 /\ Pending' = 0 /\ Outstanding' = 1
  BY <1>1, <1>2 DEF Pending, Answer, Outstanding
<1>4. StreamStep /\ DropsNothing
  BY <1>2, <1>3 DEF StreamStep, DropsNothing, Stream!vars, NextByte, Available
<1>5. ReceivesIntoEmpty' /\ StartsWhenEmpty' /\ LastArrived(bufferEnd_ + Pending)'
  BY <1>1, <1>2, <1>3
  DEF Inv, ReceivesIntoEmpty, StartsWhenEmpty, LastArrived, Available
<1>6. BufferTypeOK'
  BY <1>1, <1>2, UDPAssumption DEF Inv, BufferTypeOK, Answer
<1>7. \A i \in 1..Len(completed') : completed'[i].err => completed'[i].received = 0
  BY <1>2 DEF Answer
<1> QED
  BY <1>3, <1>4, <1>5, <1>6, <1>7 DEF Inv

(* So does close(). *)
LEMMA CloseInv == ASSUME Inv, Close
                  PROVE  Inv' /\ StreamStep /\ DropsNothing
<1>1. /\ Cancel
      /\ UNCHANGED <<buffer_, bufferBegin_, bufferEnd_, arrived, handed>>
      /\ socket_' \in {"none", "connected", "unconnected"}
  BY DEF Close
<1>2. /\ Outstanding' = Outstanding /\ Pending' = Pending
      /\ waiting' \in Seq(ReadSizes)
      /\ completed' \in Seq([size : ReadSizes, err : BOOLEAN, received : 0..BufferSize])
      /\ \A i \in 1..Len(completed') : completed'[i].err => completed'[i].received = 0
  BY <1>1, CancelKeeps
<1>3. StreamStep /\ DropsNothing
  BY <1>1, <1>2, Zenon DEF StreamStep, DropsNothing, Stream!vars, NextByte, Available
<1>4. ReceivesIntoEmpty' /\ StartsWhenEmpty' /\ LastArrived(bufferEnd_ + Pending)'
  BY <1>1, <1>2, Zenon
  DEF Inv, ReceivesIntoEmpty, StartsWhenEmpty, LastArrived, Available
<1>5. BufferTypeOK'
  BY <1>1, <1>2 DEF Inv, BufferTypeOK
<1> QED
  BY <1>2, <1>3, <1>4, <1>5 DEF Inv

(* Emptying the buffer discards what is unread, and a datagram that waits for *)
(* its handler is not lost.                                                  *)
LEMMA EmptyBufferInv ==
    ASSUME Inv, EmptyBuffer, UNCHANGED <<buffer_, arrived, handed>>,
           socket_' \in {"none", "connected", "unconnected"},
           waiting' \in Seq(ReadSizes),
           completed' \in Seq([size : ReadSizes, err : BOOLEAN, received : 0..BufferSize]),
           Outstanding' = Outstanding, Pending' = Pending,
           \A i \in 1..Len(completed') : completed'[i].err => completed'[i].received = 0
    PROVE  Inv' /\ StreamStep
<1>1. bufferBegin_' = 0 /\ bufferEnd_' = 0 /\ ~(Available' > 0)
  BY DEF EmptyBuffer, Available
<1>2. BufferSize \in Nat /\ arrived \in Nat
  BY UDPAssumption DEF Inv, BufferTypeOK
<1>3. ASSUME completed = <<>>
      PROVE  LastArrived(bufferEnd_ + Pending)' /\ StreamStep
  <2>1. Pending = 0 /\ Pending' = 0
    BY <1>3 DEF Pending
  <2>2. arrived - 0 + 1 = arrived + 1
    BY <1>2
  <2>3. NextByte' = arrived + 1
    BY <1>1, <2>1, <2>2, Zenon DEF NextByte
  <2>4. StreamStep
    BY <2>3 DEF StreamStep, Stream!Next, Stream!Discard
  <2>5. LastArrived(bufferEnd_ + Pending)'
    BY <1>1, <2>1 DEF LastArrived
  <2> QED
    BY <2>4, <2>5
<1>4. ASSUME completed # <<>>
      PROVE  LastArrived(bufferEnd_ + Pending)' /\ StreamStep
  <2>1. bufferBegin_ = 0 /\ bufferEnd_ = 0 /\ NextByte = arrived - Pending + 1
    BY <1>4, PendingByte
  <2>2. NextByte' = NextByte
    BY <1>1, <2>1, Zenon DEF NextByte
  <2>3. StreamStep
    BY <2>2 DEF StreamStep, Stream!vars
  <2>4. LastArrived(bufferEnd_ + Pending)'
    BY <1>1, <2>1, Zenon DEF Inv, LastArrived
  <2> QED
    BY <2>3, <2>4
<1>5. LastArrived(bufferEnd_ + Pending)' /\ StreamStep
  BY <1>3, <1>4
<1>6. BufferTypeOK'
  BY <1>1, <1>2 DEF Inv, BufferTypeOK
<1>7. ReceivesIntoEmpty' /\ StartsWhenEmpty'
  BY <1>1 DEF ReceivesIntoEmpty, StartsWhenEmpty
<1> QED
  BY <1>5, <1>6, <1>7 DEF Inv

LEMMA FlushInv == ASSUME Inv, Flush
                  PROVE  Inv' /\ StreamStep
<1>1. /\ UNCHANGED <<socket_, buffer_, waiting, completed, arrived, handed>>
      /\ EmptyBuffer
  BY DEF Flush
<1>2. Outstanding' = Outstanding /\ Pending' = Pending
  BY <1>1 DEF Outstanding, Pending
<1> QED
  BY <1>1, <1>2, EmptyBufferInv DEF Inv, BufferTypeOK

LEMMA ResetInv == ASSUME Inv, Reset
                  PROVE  Inv' /\ StreamStep
<1>1. /\ UNCHANGED <<buffer_, arrived, handed>>
      /\ Cancel /\ EmptyBuffer
      /\ socket_' \in {"none", "connected", "unconnected"}
  BY DEF Reset
<1>2. waiting' \in Seq(ReadSizes)
  BY <1>1, CancelKeeps
<1> QED
  BY <1>1, <1>2, CancelKeeps, EmptyBufferInv, Zenon

-----------------------------------------------------------------------------
LEMMA InitInv == Init => Inv /\ Stream!Init
<1> SUFFICES ASSUME Init PROVE Inv /\ Stream!Init
  OBVIOUS
<1>1. BufferTypeOK
  BY UDPAssumption DEF Init, BufferTypeOK
<1>2. Outstanding = 0 /\ Pending = 0 /\ Available = 0
  BY DEF Init, Outstanding, Pending, Available
<1>3. Stream!Init
  BY <1>2 DEF Init, Stream!Init, NextByte
<1> QED
  BY <1>1, <1>2, <1>3
  DEF Init, Inv, ReceivesIntoEmpty, StartsWhenEmpty, LastArrived

LEMMA StepInv == ASSUME MaxOutstanding = 1, Inv, [Next]_vars
                 PROVE  Inv' /\ StreamStep /\ (Flush \/ Reset \/ DropsNothing)
<1>1. CASE Next
  BY <1>1, ReadInv, ReceiveInv, ReceiveFailsInv, ReceiveContinueInv, CloseInv,
     FlushInv, ResetInv, Zenon DEF Next
<1>2. CASE UNCHANGED vars
  <2>1. Inv' <=> Inv
    BY <1>2
    DEF vars, Inv, BufferTypeOK, Outstanding, ReceivesIntoEmpty, StartsWhenEmpty,
        LastArrived, Pending, Available
  <2>2. StreamStep /\ DropsNothing
    BY <1>2
    DEF vars, StreamStep, DropsNothing, Stream!vars, NextByte, Available, Pending
  <2> QED
    BY <2>1, <2>2
<1> QED
  BY <1>1, <1>2

LEMMA Invariance == ASSUME MaxOutstanding = 1 PROVE Spec => []Inv
  BY InitInv, StepInv, PTL DEF Spec

(* With one read at a time the iterators stay within buffer_ and in order,    *)
(* and the members keep their types (UDPClientStream.cpp).                    *)
THEOREM TypeCorrect == ASSUME MaxOutstanding = 1 PROVE Spec => []BufferTypeOK
<1>1. Inv => BufferTypeOK
  BY DEF Inv
<1> QED
  BY <1>1, Invariance, PTL

(* A datagram is written where nothing is unread: the comment of              *)
(* UDPClientStream.cpp:131 stays true until the handler runs.                 *)
THEOREM WritesNothingUnread ==
    ASSUME MaxOutstanding = 1 PROVE Spec => []ReceivesIntoEmpty
<1>1. Inv => ReceivesIntoEmpty
  BY DEF Inv
<1> QED
  BY <1>1, Invariance, PTL

(* With one read at a time the stream implements a stream of bytes: nothing   *)
(* is repeated or reordered, and nothing lost but by flush() and reset(), for *)
(* any sizes of datagrams and reads.                                          *)
THEOREM Refinement == ASSUME MaxOutstanding = 1 PROVE Spec => ImplementsByteStream
<1>1. Inv /\ [Next]_vars => [Stream!Next]_(Stream!vars)
  BY StepInv DEF StreamStep
<1>2. Inv /\ [Next]_vars
         => [handed' = handed /\ NextByte' # NextByte => Flush \/ Reset]_vars
  BY StepInv DEF DropsNothing
<1> QED
  BY <1>1, <1>2, InitInv, Invariance, PTL
  DEF Spec, ImplementsByteStream, OnlyFlushDrops, Stream!Spec

ByteStreamFacts == INSTANCE ByteStreamProofs WITH next <- NextByte

(* The bytes the callbacks are given stay in the order of arrival, each       *)
(* comes at most once, and all come before the next one in buffer_: whatever  *)
(* the sizes of datagrams and reads, the errors, flushes and resets, as long  *)
(* as there is one read at a time.                                            *)
THEOREM DatagramsInOrder == ASSUME MaxOutstanding = 1 PROVE Spec => []Stream!InOrder
<1>1. Stream!Spec => []Stream!InOrder
  BY ByteStreamFacts!HandedInOrder, PTL
  DEF Stream!Spec, Stream!Init, Stream!Next, Stream!vars, Stream!Pass, Stream!Discard,
      Stream!InOrder, ByteStreamFacts!Spec, ByteStreamFacts!Init, ByteStreamFacts!Next,
      ByteStreamFacts!vars, ByteStreamFacts!Pass, ByteStreamFacts!Discard,
      ByteStreamFacts!InOrder
<1> QED
  BY <1>1, Refinement, PTL DEF ImplementsByteStream

=============================================================================
