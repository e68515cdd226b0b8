\* Two processes, two run directories, three calls, crashes and one fault.
SPECIFICATION Spec
CONSTANTS
    Procs = {p1, p2}
    Dirs = {1, 2}
    Worlds = {w1, w2}
    Sdcs = {s1}
    Missing = Missing
    Torn = Torn
    Unread = Unread
    Unhashable = {"netlist"}
    MaxCalls = 3
    MaxFaults = 1
INVARIANTS TypeOK EntriesTruthful ResultFaithful MissJustified
SYMMETRY Interchangeable
