CONSTANTS
    Families <- MCFamilies
    FlagSets <- MCFlagSets
    Files <- MCFiles
    Texts <- MCTexts
    None = None
    Unset = Unset
    NoFile = NoFile
    NoText = NoText
    NaN = NaN
    Junk = Junk
SPECIFICATION FairSpec
INVARIANTS
    TypeOK
    ReadyAsAsked
    StackAgrees
    DrawnInBounds
    DefaultApplies
PROPERTIES
    SoundIsReady
CHECK_DEADLOCK FALSE
