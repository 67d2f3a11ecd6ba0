\* Two synchronous readers with timeouts, which may expire during the call, and a device that may be silent. The user may stop reading.
SPECIFICATION FairSpec
CONSTANTS
    c1 = c1
    c2 = c2
    Callers <- TwoCallers
    Worker = Worker
    NoOwner = NoOwner
    SyncCallers <- TwoCallers
    AsyncCallers <- NoThread
    Kinds <- SyncKinds
    Sizes <- Two
    Timeouts <- Always
    ReadErrors = FALSE
    SlowCaller = TRUE
    Modulus = 8
    MaxReads = 2
INVARIANTS
    OneOutcome
PROPERTIES
    SyncReturns
    ReadEnds
CHECK_DEADLOCK FALSE
