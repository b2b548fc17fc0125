CONSTANTS
    Shells = {"s"}
    Workers = 2
    MaxCommands = 1
    MaxFaults = 0
    MaxKills = 0
SPECIFICATION Spec
PROPERTY StacksAreIndependent
CHECK_DEADLOCK FALSE
