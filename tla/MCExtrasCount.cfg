CONSTANTS
    Families <- MCFamilies
    FlagSets <- MCCountFlags
    Files <- MCNoFiles
    Texts <- MCTexts
    None = None
    Unset = Unset
    NoFile = NoFile
    NoText = NoText
    NaN = NaN
    Junk = Junk
SPECIFICATION FairSpec
INVARIANTS
    ExtrasFollowFlags
CHECK_DEADLOCK FALSE
