\* Every mix of the four operations by two callers. The service may stop for good once MaxCalls is used up.
SPECIFICATION Spec
CONSTANTS
    c1 = c1
    c2 = c2
    Callers <- TwoCallers
    Worker = Worker
    NoOwner = NoOwner
    Ops <- AllOps
    StopSettled = FALSE
    MaxCalls = 7
SYMMETRY CallerSymmetry
INVARIANTS
    HandleGuarded
    OneRunner
    RunningIsTruthful
    HandleOwnsWorker
    GuardKeepsBusy
CHECK_DEADLOCK FALSE
