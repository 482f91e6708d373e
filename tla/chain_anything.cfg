SPECIFICATION Spec
CONSTANTS
    c1 = c1
    c2 = c2
    f1 = f1
    f2 = f2
    NoData = NoData
    NoFile = NoFile
    Contents <- MCContents
    NewContent = c1
    Files <- MCFiles
    FrontEnd = "wx"
    SaveImmediately = FALSE
    BackupFirst = FALSE
    Risky <- RiskyKinds
    MaxCommands = 2
INVARIANT IteratorsInStep
SYMMETRY AnyFile
CHECK_DEADLOCK FALSE
