CONSTANTS
    s = s
    t = t
    c = c
    d = d
    Shells = {s, t}
    Clusters = {c, d}
    MaxPid = 3
    MaxForeign = 1
    MaxDeletes = 1
    MaxFaults = 1
    MaxOverlaps = 1
SYMMETRY MCSymmetry
SPECIFICATION Spec
INVARIANTS
    TypeOK
    OrphansAreAccountedFor
    StopLeavesNothing
CHECK_DEADLOCK FALSE
