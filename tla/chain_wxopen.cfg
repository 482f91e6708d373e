SPECIFICATION Spec
CONSTANTS
    c1 = c1
    c2 = c2
    f1 = f1
    f2 = f2
    NoData = NoData
    NoFile = NoFile
    Contents <- MCContents
    NewContent = c1
    Files <- MCFiles
    FrontEnd = "wx"
    SaveImmediately = FALSE
    BackupFirst = TRUE
    Risky <- NoRisk
    MaxCommands = 3
INVARIANTS ChainLeadsToContent
CHECK_DEADLOCK FALSE
