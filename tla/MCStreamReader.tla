--------------------------- MODULE MCStreamReader ---------------------------
(* Small instances of StreamReader for TLC. *)
EXTENDS StreamReader, TLC

CONSTANTS c1, c2

NoThread      == {}
OneCaller     == {c1}
OtherCaller   == {c2}
TwoCallers    == {c1, c2}
TwoAndWorker  == {c1, c2, Worker}
OneAndWorker  == {c1, Worker}

AllKinds   == {"some", "all", "until"}
SyncKinds  == {"all", "until"}
UntilOnly  == {"until"}
AllOnly    == {"all"}
OneOrTwo   == {1, 2}
Two        == {2}
One        == {1}

Sometimes == {TRUE, FALSE}
Always    == {TRUE}
Never     == {FALSE}

CallerSymmetry == Permutations(Callers)

=============================================================================
