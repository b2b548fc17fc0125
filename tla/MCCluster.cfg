CONSTANTS
    Shells = {"s", "t"}
    Workers = 2
    MaxCommands = 4
    MaxFaults = 1
    MaxKills = 1
SPECIFICATION Spec
INVARIANTS
    TypeOK
    SuccessIsTrue
    NoKubeconfigLeft
    LabelledBeforeInstall
CHECK_DEADLOCK FALSE
