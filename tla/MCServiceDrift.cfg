CONSTANTS
    Configs = {"a"}
    Specs <- MCTwoSpecs
    Default = "amd"
    GPUsPerNode = 2
    Tamperable <- MCChildren
    MaxGen = 1
    MaxChanges = 1
    MaxFaults = 0
SPECIFICATION Spec
INVARIANTS
    ServiceReconciled
CHECK_DEADLOCK FALSE
