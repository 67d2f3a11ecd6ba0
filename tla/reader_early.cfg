\* A synchronous reader with timeouts. The user may stop reading.
SPECIFICATION Spec
CONSTANTS
    c1 = c1
    c2 = c2
    Callers <- OneCaller
    Worker = Worker
    NoOwner = NoOwner
    SyncCallers <- OneCaller
    AsyncCallers <- NoThread
    Kinds <- AllOnly
    Sizes <- Two
    Timeouts <- Always
    ReadErrors = FALSE
    SlowCaller = FALSE
    Modulus = 8
    MaxReads = 2
PROPERTIES
    NoStaleWakeUp
CHECK_DEADLOCK FALSE
