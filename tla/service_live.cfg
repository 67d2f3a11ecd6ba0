\* Concurrent calls of start(), stop() and post(), each stop() of a service that has settled. The service may stop for good once MaxCalls is used up.
SPECIFICATION FairSpec
CONSTANTS
    c1 = c1
    c2 = c2
    Callers <- TwoCallers
    Worker = Worker
    NoOwner = NoOwner
    Ops <- StartStopPost
    StopSettled = TRUE
    MaxCalls = 5
PROPERTIES
    StartReturns
    StopReturns
    PostedRuns
    StartedOnReturn
CHECK_DEADLOCK FALSE
