CONSTANTS
    Shells = {"s", "t"}
    Clusters = {"c"}
    MaxPid = 3
    MaxForeign = 0
    MaxDeletes = 0
    MaxFaults = 0
    MaxOverlaps = 1
SPECIFICATION Spec
INVARIANT PidIsStored
CHECK_DEADLOCK FALSE
