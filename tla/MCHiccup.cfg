CONSTANTS
    Names = {1}
    Nodes = {"k1"}
    Gpus = {"g1"}
    Utils = {"unset"}
    DefaultUtil = "5-15"
    MaxUid = 1
    MaxFaults = 1
    MaxCrashes = 0
SPECIFICATION Spec
PROPERTIES
    HiccupKeepsRange
CHECK_DEADLOCK FALSE
