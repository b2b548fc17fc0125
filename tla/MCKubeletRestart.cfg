CONSTANTS
    Plugins = {"p", "q"}
    GPUCount = 2
    Overlap = FALSE
    MaxKubeletStops = 1
    MaxListenerFailures = 0
    MaxFaults = 0
SPECIFICATION FairSpec
PROPERTY KubeletRestartCaught
CHECK_DEADLOCK FALSE
