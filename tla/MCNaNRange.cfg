CONSTANTS
    Families <- MCFamilies
    FlagSets <- MCCountFlags
    Files <- MCNoFiles
    Texts <- MCNaNTexts
    None = None
    Unset = Unset
    NoFile = NoFile
    NoText = NoText
    NaN = NaN
    Junk = Junk
SPECIFICATION FairSpec
INVARIANTS
    DrawnInBounds
CHECK_DEADLOCK FALSE
