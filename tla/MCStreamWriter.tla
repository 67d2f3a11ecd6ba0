--------------------------- MODULE MCStreamWriter ---------------------------
(* Small instances of StreamWriter for TLC. *)
EXTENDS ClosedWriter, TLC

CONSTANTS c1, c2

NoThread     == {}
OneCaller    == {c1}
TwoCallers   == {c1, c2}
OneAndWorker == {c1, Worker}
TheWorker    == {Worker}

SomeAndAll == {"some", "all"}
AllOnly    == {"all"}
Clients    == {"tcp", "serial"}
EveryDevice == {"tcp", "serial", "string"}
Two        == {2}
OneOrTwo   == {1, 2}

Sometimes == {TRUE, FALSE}
Always    == {TRUE}
Never     == {FALSE}

=============================================================================
