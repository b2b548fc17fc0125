CONSTANTS
    Names = {1, 2}
    Nodes = {"k1"}
    Gpus = {"g1"}
    Utils = {"unset"}
    DefaultUtil = "5-15"
    MaxUid = 1
    MaxFaults = 0
    MaxCrashes = 0
SPECIFICATION FairSpec
PROPERTIES
    EventuallyCharged
CHECK_DEADLOCK FALSE
