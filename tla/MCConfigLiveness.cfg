CONSTANTS
    Configs = {"a"}
    Specs <- MCTwoSpecs
    Default = "amd"
    GPUsPerNode = 2
    Tamperable <- MCChildren
    MaxGen = 1
    MaxChanges = 1
    MaxFaults = 1
SPECIFICATION FairSpec
INVARIANTS
    StatusTruthful
PROPERTIES
    ImplementsReconciliation
    WritesDieOut
    EventuallyRight
    NothingLeftBehind
CHECK_DEADLOCK FALSE
