\* stop() right after start().
SPECIFICATION FairSpec
CONSTANTS
    c1 = c1
    c2 = c2
    Callers <- OneCaller
    Worker = Worker
    NoOwner = NoOwner
    Ops <- StartStop
    StopSettled = FALSE
    MaxCalls = 2
PROPERTIES
    StopReturns
CHECK_DEADLOCK FALSE
