CONSTANTS
    Families <- MCFamilies
    FlagSets <- MCTaintFlags
    Files <- MCNoFiles
    Texts <- MCTexts
    None = None
    Unset = Unset
    NoFile = NoFile
    NoText = NoText
    NaN = NaN
    Junk = Junk
SPECIFICATION FairSpec
PROPERTIES
    AcceptedIsReady
CHECK_DEADLOCK FALSE
