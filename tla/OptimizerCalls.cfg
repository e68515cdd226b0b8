\* One Optimizer run twice, with and without workers, every result and fault.
SPECIFICATION FairSpec
CONSTANTS
    Unknown = Unknown
    NoQoR = NoQoR
    NoRecord = NoRecord
    NoScore = NoScore
    Eps = 1
    Resolution = 4
    RequiredSetup = 0
    RequiredHold = 0
    AllowUnsafe = FALSE
    Priorities <- DefaultPriorities
    WorkerCounts = {1, 2}
    MaxIterations = 2
    MaxEdaRuns = 5
    Patience = 2
    MinHeadroom = 0
    TaskCost = 1
    NumTunables = 2
    Low = 0
    High = 2
    Step = 1
    Moves <- Pairs
    BaselineSet <- Corner
    Results <- MixedResults
    MaxRuns = 2
INVARIANTS TypeOK FinalEligible StopHonoured StopIsPrompt
PROPERTIES RunReturns
