SPECIFICATION Spec
CONSTANTS
    c1 = c1
    c2 = c2
    f1 = f1
    f2 = f2
    NoData = NoData
    NoFile = NoFile
    Contents <- MCContents
    NewContent = c1
    Files <- MCFiles
    FrontEnd = "mfc"
    SaveImmediately = TRUE
    BackupFirst = FALSE
    Risky <- Tolerated
    MaxCommands = 2
INVARIANTS SavedWhenNotified
SYMMETRY AnyFile
CHECK_DEADLOCK FALSE
