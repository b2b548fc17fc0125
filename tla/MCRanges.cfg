CONSTANTS
    Names = {1}
    Nodes = {"k1"}
    Gpus = {"g1"}
    Utils = {"unset", "malformed", "60-80"}
    DefaultUtil = "5-15"
    MaxUid = 2
    MaxFaults = 1
    MaxCrashes = 1
SPECIFICATION ReapedFairSpec
PROPERTIES
    EventuallyInRange
CHECK_DEADLOCK FALSE
