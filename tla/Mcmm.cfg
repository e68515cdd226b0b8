\* Every result of two scenarios, and every order of two workers.
SPECIFICATION Spec
CONSTANTS
    Unknown = Unknown
    NoQoR = NoQoR
    Eps = 1
    Resolution = 10
    RequiredSetup = 0
    RequiredHold = 0
    AllowUnsafe = FALSE
    Priorities <- Priority
    Plays <- MCPlays
    Workers = {w1, w2}
INVARIANTS
    MarginsComparable
    FeasibleEverywhere
    FrontExact
    BindingRespectsDominance
    FinalIsBest
CHECK_DEADLOCK FALSE
