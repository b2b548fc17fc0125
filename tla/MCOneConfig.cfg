CONSTANTS
    Configs = {"a"}
    Specs <- MCSpecs
    Default = "amd"
    GPUsPerNode = 2
    Tamperable <- MCWatched
    MaxGen = 1
    MaxChanges = 2
    MaxFaults = 0
SPECIFICATION Spec
INVARIANTS
    TypeOK
    RestMeansReconciled
    StatusTruthful
    InventoriesAgree
CHECK_DEADLOCK FALSE
