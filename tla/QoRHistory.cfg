SPECIFICATION Spec
CONSTANTS
    None = None
    Conflict = Conflict
    r1 = r1  r2 = r2
    c0 = c0  c1 = c1
    S1 = S1  S2 = S2
    a = a  b = b  u = u
    setup = setup  hold = hold
    p1 = p1  p2 = p2  p3 = p3
    Processes = {p1, p2, p3}
    Scripts <- MCScripts
    Versions = {0, 1, 2, 3}
    RunOrder <- MCRunOrder
    MaxCrashes = 1
INVARIANTS RefusalMeansProgress RecordedIsNoOp SessionWhole
PROPERTY EvidenceImmutable
CHECK_DEADLOCK FALSE
