CONSTANTS
    Names = {1, 2}
    Nodes = {"k1"}
    Gpus = {"g1", "g2"}
    Utils = {"unset"}
    DefaultUtil = "5-15"
    MaxUid = 1
    MaxFaults = 1
    MaxCrashes = 0
SPECIFICATION Spec
INVARIANTS
    TypeOK
    AttributionNotInvented
    WorldStateCoherent
    AllOrNothing
    RunningPodChargedForItsOwn
PROPERTIES
    AttributionSticks
    ImplementsAttribution
CHECK_DEADLOCK FALSE
