\* Two and three workers, two scenarios per candidate, every kind of failure.
SPECIFICATION Spec
CONSTANTS
    Unknown = Unknown
    NoQoR = NoQoR
    NoRecord = NoRecord
    NoScore = NoScore
    Eps = 1
    Resolution = 4
    RequiredSetup = 0
    RequiredHold = 0
    AllowUnsafe = FALSE
    Priorities <- DefaultPriorities
    WorkerCounts = {2, 3}
    MaxIterations = 3
    MaxEdaRuns = 11
    Patience = 2
    MinHeadroom = 0
    TaskCost = 2
    NumTunables = 2
    Low = 0
    High = 2
    Step = 1
    Moves <- Pairs
    BaselineSet <- Middle
    Results <- FailingResults
    MaxRuns = 1
INVARIANTS AppliedInPlanOrder LedgerMatchesResult NeverReevaluated RunSettled EdaBudgetKept BoundedFlight
PROPERTIES LedgerLifecycle
