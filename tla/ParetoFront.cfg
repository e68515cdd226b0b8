\* Measured, missing and proxy metrics, in values the tolerance blurs and values
\* it tells apart.
SPECIFICATION LoopSpec
CONSTANTS
    Unknown = Unknown
    NoQoR = NoQoR
    Eps = 1
    Resolution = 4
    RequiredSetup = 1
    RequiredHold = 1
    AllowUnsafe = TRUE
    QoRs <- AllQoRs
    Priorities <- DefaultPriorities
    MaxPool = 4
INVARIANTS
    TypeOK
    FrontIrredundant
    FrontIsNondominated
    LeadingBucketDecides
    FinalBeatsPool
CHECK_DEADLOCK FALSE
