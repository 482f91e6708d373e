SPECIFICATION Spec
CONSTANTS
    Contents <- FewContents
    LastNumber = 3
    Times = {t1}
    Plain = Plain
    NoName = NoName
    Missing = Missing
    Partial = Partial
    Damaged = Damaged
    Hidden = Hidden
    NoSig = NoSig
    Risky <- NoRisk
INVARIANTS TypeOK BackupIsWhole TrimmedToMax BackupsInOrder CleanIsOnDisk
PROPERTIES NewestKept
CHECK_DEADLOCK FALSE
