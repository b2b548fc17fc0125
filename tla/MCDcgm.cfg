CONSTANTS
    Names = {1, 2}
    Nodes = {"k", "l"}
    Gpus = {"g0", "g1"}
    Utils = {"unset", "10-20"}
    MaxUid = 1
    MaxFaults = 0
    MaxCrashes = 1
SPECIFICATION DcgmFairSpec
INVARIANT DcgmTypeOK
PROPERTIES
    EventuallyReported
    EventuallyForgotten
CHECK_DEADLOCK FALSE
