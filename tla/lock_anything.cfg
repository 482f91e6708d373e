SPECIFICATION FairSpec
CONSTANTS
    p1 = p1
    p2 = p2
    p3 = p3
    f1 = f1
    f2 = f2
    l1 = l1
    l2 = l2
    here = here
    there = there
    Procs <- TwoProcs
    Account <- OneAccount
    Files <- OneFile
    Locks <- OnlyLock
    LockOf <- OneLock
    NoFile = NoFile
    Nobody = Nobody
    NoPid = NoPid
    Risky <- AnyRisk
PROPERTIES OrphansGo
