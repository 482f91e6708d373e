SPECIFICATION FairSpec
CONSTANTS
    c1 = c1
    c2 = c2
    f1 = f1
    f2 = f2
    NoData = NoData
    NoFile = NoFile
    Contents <- MCContents
    NewContent = c1
    Files <- MCFiles
    FrontEnd = "mfc"
    SaveImmediately = FALSE
    BackupFirst = TRUE
    Risky <- BackOutAndUnopened
    MaxCommands = 3
INVARIANTS TypeOK ChainLeadsToContent CleanIsSaved PositionsTellTruth NeverRefused
PROPERTIES LockLosesNothing ImplementsDocument BackOutEnds
CHECK_DEADLOCK FALSE
