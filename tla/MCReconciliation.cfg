CONSTANTS
    a = a
    b = b
    Configs = {a, b}
    Specs <- MCTwoSpecs
    Default = "amd"
    GPUsPerNode = 2
    Tamperable = {}
    MaxGen = 2
    MaxChanges = 0
    MaxFaults = 0
SYMMETRY MCSymmetry
SPECIFICATION Spec
PROPERTIES
    ImplementsReconciliation
CHECK_DEADLOCK FALSE
