CONSTANTS
    Configs = {"a"}
    Specs <- MCTwoSpecs
    Default = "amd"
    GPUsPerNode = 2
    Tamperable <- MCWatched
    MaxGen = 1
    MaxChanges = 1
    MaxFaults = 1
SPECIFICATION Spec
INVARIANTS
    StatusRetried
CHECK_DEADLOCK FALSE
