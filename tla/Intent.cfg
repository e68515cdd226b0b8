SPECIFICATION Spec
CONSTANTS
    None = None
    Refused = Refused
    Torn = Torn
    clk = clk  aux = aux  din = din  pair = pair  div = div
    s1 = s1  p10 = p10  p12 = p12  d2 = d2
    sa = sa
    Sessions = {sa}
    Worlds <- MCWorlds
    Scenarios = {}
    Packages <- MCPackages
    UserIntent <- MCUserIntent
    NameOrder <- MCNameOrder
    MaxConstraints = 3
    MaxEdges = 2
INVARIANTS SavedSetRestores RetryRecognised StaleReachesDependents
PROPERTY AppliedIsFresh
CHECK_DEADLOCK FALSE
