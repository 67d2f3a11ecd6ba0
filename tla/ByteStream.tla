----------------------------- MODULE ByteStream -----------------------------
(***************************************************************************)
(* What a stream of bytes promises its reader: bytes are handed over in the *)
(* order in which they arrived, none twice, and none is missing unless the  *)
(* reader discarded all it had not read.  Bytes are numbered by arrival.    *)
(***************************************************************************)
EXTENDS Integers, Sequences

VARIABLES
    arrived,  \* the number of bytes that have arrived
    next,     \* the byte to hand over next
    handed    \* the bytes handed over, in that order

vars == <<arrived, next, handed>>

Init ==
    /\ arrived = 0
    /\ next = 1
    /\ handed = <<>>

(* Bytes arrive, and some of those that have arrived are handed over. *)
Pass ==
    /\ arrived' \in Nat
    /\ arrived' >= arrived
    /\ next' \in next..(arrived' + 1)
    /\ handed' = handed \o [i \in 1..(next' - next) |-> next + i - 1]

(* The reader drops everything it has not read. *)
Discard ==
    /\ next' = arrived + 1
    /\ UNCHANGED <<arrived, handed>>

Next == Pass \/ Discard

Spec == Init /\ [][Next]_vars

(* The bytes handed over are in order, and all come before the next one. *)
InOrder ==
    /\ \A i \in 1..Len(handed) : handed[i] < next
    /\ \A i, j \in 1..Len(handed) : i < j => handed[i] < handed[j]

=============================================================================
