SPECIFICATION SmallSpec
CONSTANTS
    e1 = e1  e2 = e2  e3 = e3  a1 = a1  a2 = a2  t1 = t1  t2 = t2  x1 = x1  x2 = x2
    Ids <- EntryIds
    Bases = {e1}
    Atts <- AttIds
    Titles = {t1, t2}
    Texts = {x1, x2}
    NoAtt = NoAtt
    NoTitle = NoTitle
    UIntMax = 99
    Risky = {}
    MaxCommands = 2
    MaxRefs = 3
SYMMETRY Symmetry
INVARIANTS TypeOK RefsResolve NeverFreedEarly AttachmentsRestored
