SPECIFICATION Spec
CONSTANTS
    Garbled = Garbled
    Refused = Refused
    NoAnswer = NoAnswer
    Wildcards = {}
    HighAbove = 1
    FormalAbove = 2
    CriticalAbove = 3
    RoundedAway = 2000
    Backends = {"generic"}
    Catalogue <- MCCatalogue
    Starting <- MCStarting
    Designs <- MCDesigns
    Projects <- MCProjects
    Proofs <- MCProofs
    Snapshots <- MCSnapshots
    RequiredAssumptions = {"asm1"}
    MaxEdits = 2
INVARIANTS
    ReadyIsEarned
    CompareExact
CHECK_DEADLOCK FALSE
