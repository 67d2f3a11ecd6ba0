\* Writes of a thread and of the user callbacks, synchronous and not, on every device. The user may stop writing.
SPECIFICATION ClosedSpec
CONSTANTS
    c1 = c1
    c2 = c2
    Callers <- OneCaller
    Worker = Worker
    NoOwner = NoOwner
    SyncCallers <- OneCaller
    AsyncCallers <- OneAndWorker
    Kinds <- AllOnly
    Sizes <- Two
    Timeouts <- Sometimes
    Dumps <- Always
    MaxDumps = 0
    SlowCaller = FALSE
    Modulus = 8
    MaxWrites = 2
    Transports <- Clients
    Capacity = 1
    MaxResets = 1
INVARIANTS
    TypeOK
    OneOutcome
    LateIsIgnored
    WireInOrder
    WithinBuffer
    CountIsTrue
    BufferReleased
    DumpIsWire
PROPERTIES
    ReturnsWhenOver
    SyncReturns
    WriteEnds
    ClosedEnds
CHECK_DEADLOCK FALSE
