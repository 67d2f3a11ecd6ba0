\* Writes and reads of a thread and of its callbacks, through a StringStream. The user may stop.
SPECIFICATION LoopFairSpec
CONSTANTS
    c1 = c1
    Callers <- OneCaller
    Worker = Worker
    NoOwner = NoOwner
    SyncCallers <- NoThread
    AsyncCallers <- OneAndWorker
    Kinds <- SomeOnly
    Sizes <- OneOrTwo
    Timeouts <- Never
    Dumps <- Sometimes
    MaxDumps = 1
    SlowCaller = FALSE
    Modulus = 8
    MaxWrites = 2
    Transports <- Memory
    Capacity = 3
    MaxResets = 1
    Requests <- FourRequests
    WideDelimiter = FALSE
    MaxReads = 2
    MaxControls = 1
INVARIANTS
    NothingMadeUp
    PipelineInOrder
    UntilExact
    DumpedOnce
PROPERTIES
    LostOnlyHere
    ReadEnds
CHECK_DEADLOCK FALSE
