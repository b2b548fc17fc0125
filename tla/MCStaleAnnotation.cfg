CONSTANTS
    Names = {1}
    Nodes = {"k1"}
    Gpus = {"g1"}
    Utils = {"unset"}
    DefaultUtil = "5-15"
    MaxUid = 2
    MaxFaults = 0
    MaxCrashes = 0
SPECIFICATION FairSpec
PROPERTIES
    AnnotationFollowsKubelet
CHECK_DEADLOCK FALSE
