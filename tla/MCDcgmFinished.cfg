CONSTANTS
    Names = {1, 2, 3}
    Nodes = {"k"}
    Gpus = {"g0", "g1"}
    Utils = {"unset"}
    MaxUid = 1
    MaxFaults = 0
    MaxCrashes = 0
SPECIFICATION DcgmFairSpec
PROPERTY EveryHolderReported
CHECK_DEADLOCK FALSE
