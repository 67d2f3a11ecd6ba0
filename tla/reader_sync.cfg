\* A synchronous reader beside an asynchronous one, without timeouts. The user may stop reading.
SPECIFICATION Spec
CONSTANTS
    c1 = c1
    c2 = c2
    Callers <- TwoCallers
    Worker = Worker
    NoOwner = NoOwner
    SyncCallers <- OneCaller
    AsyncCallers <- OtherCaller
    Kinds <- SyncKinds
    Sizes <- OneOrTwo
    Timeouts <- Never
    ReadErrors = TRUE
    SlowCaller = FALSE
    Modulus = 8
    MaxReads = 3
PROPERTIES
    ReturnsWhenOver
CHECK_DEADLOCK FALSE
