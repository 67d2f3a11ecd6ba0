-------------------------- MODULE ByteStreamProofs --------------------------
(* What every implementation of ByteStream gives its reader. *)
EXTENDS ByteStream, SequenceTheorems, TLAPS

Inv ==
    /\ arrived \in Nat
    /\ next \in Nat
    /\ handed \in Seq(Nat)
    /\ next <= arrived + 1
    /\ InOrder

LEMMA InitInv == Init => Inv
  BY DEF Init, Inv, InOrder

(* The numbers of s ascend, and stay below `bound'. *)
Ascends(s, bound) ==
    /\ \A i \in 1..Len(s) : s[i] < bound
    /\ \A i, j \in 1..Len(s) : i < j => s[i] < s[j]

(* The bytes a step adds follow each other, after all those handed before. *)
LEMMA AppendRun ==
    ASSUME NEW h \in Seq(Nat), NEW from \in Nat, NEW n \in Nat, Ascends(h, from)
    PROVE  LET k == h \o [i \in 1..n |-> from + i - 1]
           IN  k \in Seq(Nat) /\ Ascends(k, from + n)
<1> DEFINE run == [i \in 1..n |-> from + i - 1]
           k   == h \o run
<1>1. run \in Seq(Nat) /\ Len(run) = n /\ \A i \in 1..n : run[i] = from + i - 1
  OBVIOUS
<1> HIDE DEF run
<1>2. k \in Seq(Nat) /\ Len(h) \in Nat /\ Len(k) = Len(h) + n
  <2>1. Len(h) \in Nat
    OBVIOUS
  <2> QED
    BY <1>1, <2>1, ConcatProperties, Zenon
<1>3. \A i \in 1..Len(k) :
         \/ i <= Len(h) /\ k[i] = h[i]
         \/ i > Len(h) /\ k[i] = from + (i - Len(h)) - 1
  <2> SUFFICES ASSUME NEW i \in 1..Len(k)
               PROVE  \/ i <= Len(h) /\ k[i] = h[i]
                      \/ i > Len(h) /\ k[i] = from + (i - Len(h)) - 1
    OBVIOUS
  <2>1. k[i] = IF i <= Len(h) THEN h[i] ELSE run[i - Len(h)]
    BY <1>1, <1>2, ConcatProperties, Zenon
  <2> HIDE DEF k
  <2>2. CASE i <= Len(h)
    BY <2>1, <2>2
  <2>3. CASE i > Len(h)
    <3>1. i - Len(h) \in 1..n /\ ~(i <= Len(h))
      BY <1>2, <2>3
    <3> QED
      BY <1>1, <2>1, <2>3, <3>1
  <2> QED
    BY <1>2, <2>2, <2>3
<1>4. /\ \A i \in 1..Len(h) : h[i] \in Nat /\ h[i] < from
      /\ \A i, j \in 1..Len(h) : i < j => h[i] < h[j]
  BY DEF Ascends
<1> HIDE DEF k
<1>5. \A i \in 1..Len(k) : k[i] < from + n
  BY <1>2, <1>3, <1>4, SMTT(60)
<1>6. ASSUME NEW i \in 1..Len(k), NEW j \in 1..Len(k), i < j
      PROVE  k[i] < k[j]
  <2>1. CASE j <= Len(h)
    <3>1. i \in 1..Len(h) /\ j \in 1..Len(h) /\ k[i] = h[i] /\ k[j] = h[j]
      BY <1>2, <1>3, <1>6, <2>1, SMTT(60)
    <3> QED
      BY <1>4, <1>6, <3>1
  <2>2. CASE j > Len(h) /\ i <= Len(h)
    <3>1. i \in 1..Len(h) /\ k[i] = h[i]
      BY <1>2, <1>3, <2>2
    <3>2. k[j] = from + (j - Len(h)) - 1 /\ h[i] \in Nat /\ h[i] < from
      BY <1>2, <1>3, <1>4, <2>2, <3>1, SMTT(60)
    <3> QED
      BY <1>2, <2>2, <3>1, <3>2, SMTT(60)
  <2>3. CASE i > Len(h)
    <3>1. /\ k[i] = from + (i - Len(h)) - 1
          /\ k[j] = from + (j - Len(h)) - 1
      BY <1>2, <1>3, <1>6, <2>3, SMTT(60)
    <3> QED
      BY <1>2, <1>6, <3>1
  <2> QED
    BY <1>2, <2>1, <2>2, <2>3
<1>7. Ascends(k, from + n)
  BY <1>5, <1>6 DEF Ascends
<1> QED
  BY <1>2, <1>7 DEF k, run

LEMMA PassInv == ASSUME Inv, Pass PROVE Inv'
<1>1. /\ arrived' \in Nat /\ next \in Nat /\ handed \in Seq(Nat)
      /\ Ascends(handed, next)
  BY DEF Inv, InOrder, Ascends, Pass
<1>2. next' \in next..(arrived' + 1)
  BY DEF Pass
<1>3. PICK n \in Nat : next' = next + n
  <2>1. \A m \in Nat, a \in Nat : \A x \in m..(a + 1) : \E n \in Nat : x = m + n
    <3> SUFFICES ASSUME NEW m \in Nat, NEW a \in Nat, NEW x \in m..(a + 1)
                 PROVE  \E n \in Nat : x = m + n
      OBVIOUS
    <3>1. x - m \in Nat /\ x = m + (x - m)
      OBVIOUS
    <3> QED
      BY <3>1
  <2> QED
    BY <1>1, <1>2, <2>1, Zenon
<1>4. next' - next = n /\ next + n \in Nat
  BY <1>1, <1>3
<1>5. handed' = handed \o [i \in 1..n |-> next + i - 1]
  BY <1>4, Zenon DEF Pass
<1>6. handed' \in Seq(Nat) /\ Ascends(handed', next')
  BY <1>1, <1>3, <1>5, AppendRun, Zenon
<1>7. next' \in Nat /\ next' <= arrived' + 1
  <2>1. \A m \in Nat, a \in Nat, x \in Nat : x \in m..(a + 1) => x <= a + 1
    OBVIOUS
  <2> QED
    BY <1>1, <1>2, <1>3, <1>4, <2>1, Zenon
<1> QED
  BY <1>1, <1>6, <1>7, Zenon DEF Inv, InOrder, Ascends

LEMMA DiscardInv == ASSUME Inv, Discard PROVE Inv'
  BY DEF Inv, InOrder, Discard

(* Bytes are handed over in the order of their arrival and none twice: to be  *)
(* instantiated by what implements the stream.                                *)
LEMMA HandedInOrder == Spec => []InOrder
<1>1. Inv /\ [Next]_vars => Inv'
  <2>1. CASE UNCHANGED vars
    BY <2>1 DEF Inv, InOrder, vars
  <2> QED
    BY <2>1, PassInv, DiscardInv DEF Next
<1>2. Inv => InOrder
  BY DEF Inv
<1> QED
  BY <1>1, <1>2, InitInv, PTL DEF Spec

=============================================================================
