CONSTANTS
    Plugins = {"p", "q"}
    GPUCount = 2
    Overlap = TRUE
    MaxKubeletStops = 0
    MaxListenerFailures = 0
    MaxFaults = 0
SPECIFICATION FairSpec
PROPERTY EveryPodServes
CHECK_DEADLOCK FALSE
