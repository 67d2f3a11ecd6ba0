----------------------------- MODULE MCLoopBack -----------------------------
(* Small instances of LoopBack for TLC. *)
EXTENDS LoopBack, TLC

CONSTANTS c1

NoThread  == {}
OneCaller == {c1}
OneAndWorker == {c1, Worker}

Memory   == {"string"}
SomeOnly == {"some"}
OneOrTwo == {1, 2}

Request(kind, size, timed) == [kind |-> kind, size |-> size, timed |-> timed]

(* The reads of a delimiter may leave two bytes in readBuffer_, of which a      *)
(* read of one byte loses one, or some there and others in the stream.       *)
FourRequests ==
    {Request("some", 1, FALSE), Request("all", 2, TRUE), Request("until", 2, FALSE),
     Request("until", 3, FALSE)}

Sometimes == {TRUE, FALSE}
Never     == {FALSE}

=============================================================================
