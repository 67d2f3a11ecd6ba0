\* Asynchronous reads of every kind by a thread and by the user callbacks. The user may stop reading.
SPECIFICATION Spec
CONSTANTS
    c1 = c1
    c2 = c2
    Callers <- OneCaller
    Worker = Worker
    NoOwner = NoOwner
    SyncCallers <- NoThread
    AsyncCallers <- OneAndWorker
    Kinds <- AllKinds
    Sizes <- OneOrTwo
    Timeouts <- Sometimes
    ReadErrors = TRUE
    SlowCaller = FALSE
    Modulus = 8
    MaxReads = 3
INVARIANTS
    TypeOK
    OneOutcome
    LateIsIgnored
    OneUnderWay
    CountInBound
    FullCount
CHECK_DEADLOCK FALSE
