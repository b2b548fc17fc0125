CONSTANTS
    Families <- MCFamilies
    FlagSets <- MCPlainFlags
    Files <- MCModeFiles
    Texts <- MCTexts
    None = None
    Unset = Unset
    NoFile = NoFile
    NoText = NoText
    NaN = NaN
    Junk = Junk
SPECIFICATION FairSpec
PROPERTIES
    AcceptedIsReady
CHECK_DEADLOCK FALSE
