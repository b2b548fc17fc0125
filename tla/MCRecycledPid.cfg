CONSTANTS
    Shells = {"s"}
    Clusters = {"c"}
    MaxPid = 2
    MaxForeign = 1
    MaxDeletes = 0
    MaxFaults = 0
    MaxOverlaps = 1
SPECIFICATION Spec
PROPERTY StopKillsTheForward
CHECK_DEADLOCK FALSE
