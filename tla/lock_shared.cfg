SPECIFICATION Spec
CONSTANTS
    p1 = p1
    p2 = p2
    p3 = p3
    f1 = f1
    f2 = f2
    l1 = l1
    l2 = l2
    here = here
    there = there
    Procs <- TwoProcs
    Account <- OneAccount
    Files <- TwoFiles
    Locks <- TwoLocks
    LockOf <- OwnLocks
    NoFile = NoFile
    Nobody = Nobody
    NoPid = NoPid
    Risky <- NoRisk
INVARIANTS TypeOK OneWriter WritersAreCurrent LocksNameWriters
PROPERTIES LocksOutliveWriters ImplementsExclusiveWriter
