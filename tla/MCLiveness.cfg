CONSTANTS
    Names = {1, 2}
    Nodes = {"k1"}
    Gpus = {"g1"}
    Utils = {"unset"}
    DefaultUtil = "5-15"
    MaxUid = 1
    MaxFaults = 1
    MaxCrashes = 1
SPECIFICATION ReapedFairSpec
PROPERTIES
    EventuallyCharged
    EventuallyIdle
CHECK_DEADLOCK FALSE
