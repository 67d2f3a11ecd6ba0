---------------------------- MODULE ClosedWriter ----------------------------
(***************************************************************************)
(* StreamWriter with a history variable: which writes had an operation      *)
(* outstanding in the device when close() or reset() was called, whatever   *)
(* state the call left the device in (src/src/TCPClientStream.cpp,          *)
(* src/src/SerialStream.cpp).                                               *)
(***************************************************************************)
EXTENDS StreamWriter

VARIABLE abandoned  \* those writes

closedVars == <<vars, abandoned>>

ClosedInit == Init /\ abandoned = {}

Closes == \E t \in Threads : CloseLink(t) \/ Reset(t)

ClosedNext ==
    /\ Next
    /\ abandoned' =
           IF Closes THEN abandoned \cup {outgoing[i].src : i \in 1..Len(outgoing)}
                     ELSE abandoned

ClosedSpec == ClosedInit /\ [][ClosedNext]_closedVars /\ Fairness

-----------------------------------------------------------------------------
(* A write that was outstanding when the device was closed or reset ends,     *)
(* without a timeout and although the device never answers: also when close() *)
(* returned early, on an error of shutdown(), and left the socket open.       *)
ClosedEnds == \A k \in 1..MaxWrites : k \in abandoned ~> Over(k) \/ ~Running

=============================================================================
