--------------------------- MODULE MCAsyncService ---------------------------
(* Small instances of AsyncService for TLC. *)
EXTENDS AsyncService, TLC

CONSTANTS c1, c2

OneCaller    == {c1}
TwoCallers   == {c1, c2}

AllOps        == {"start", "stop", "run", "stream_run", "post"}
StartStopPost == {"start", "stop", "post"}
StartStop     == {"start", "stop"}

CallerSymmetry == Permutations(Callers)

=============================================================================
