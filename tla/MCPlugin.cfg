CONSTANTS
    Plugins = {"p", "q"}
    GPUCount = 2
    Overlap = TRUE
    MaxKubeletStops = 1
    MaxListenerFailures = 1
    MaxFaults = 2
SPECIFICATION FairSpec
INVARIANT TypeOK
PROPERTIES
    AloneUndisturbed
    EventuallyAdvertised
    EventuallyServes
    StopCompletes
CHECK_DEADLOCK FALSE
