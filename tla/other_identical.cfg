SPECIFICATION SpecOther
CONSTANTS
    a = a  b = b  p1 = p1  p2 = p2  k1 = k1
    P = P  v1 = v1  v2 = v2  m1 = m1  m2 = m2
    Ids <- SixIds
    Passwords <- BothPasswords
    Keys = {k1}
    NoId = NoId
    NoPassword = NoPassword
    NoKey = NoKey
    FrontEnd = "mfc"
    MaxCommands = 2
    Cases <- AllCases
    Renewed <- NewIds
    FieldSets <- SomeFields
    Subgroups <- SomeNames
    NoOwn = NoOwn
    NoPolicy = NoPolicy
    RenamedPolicy <- NewPolicies
    Risky <- IdenticalOnly
INVARIANTS BasesFound
CHECK_DEADLOCK FALSE
