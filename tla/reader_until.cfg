\* read_until with bytes left in readBuffer_ by an earlier one. The user may stop reading.
SPECIFICATION Spec
CONSTANTS
    c1 = c1
    c2 = c2
    Callers <- OneCaller
    Worker = Worker
    NoOwner = NoOwner
    SyncCallers <- NoThread
    AsyncCallers <- OneCaller
    Kinds <- UntilOnly
    Sizes <- Two
    Timeouts <- Never
    ReadErrors = FALSE
    SlowCaller = FALSE
    Modulus = 8
    MaxReads = 2
INVARIANTS
    UntilInBound
CHECK_DEADLOCK FALSE
