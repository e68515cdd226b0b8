SPECIFICATION Spec
CONSTANTS
    None = None
    Unreadable = Unreadable
    Torn = Torn
    Ucms <- MCUcms
    Projects <- MCProjects
    Configs <- MCConfigs
    Targets = {"OPENSTA_OPENROAD"}
    Packers = {"p1", "p2"}
    MaxFaults = 1
INVARIANTS
    ReleaseJustified
    RevokedReleaseFinal
PROPERTIES
    HandoffTraced
CHECK_DEADLOCK FALSE
