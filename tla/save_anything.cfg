SPECIFICATION FairSpec
CONSTANTS
    Contents <- OneContent
    LastNumber = 3
    Times = {t1}
    Plain = Plain
    NoName = NoName
    Missing = Missing
    Partial = Partial
    Damaged = Damaged
    Hidden = Hidden
    NoSig = NoSig
    Risky <- AnyFailure
PROPERTIES SaveEnds
CHECK_DEADLOCK FALSE
