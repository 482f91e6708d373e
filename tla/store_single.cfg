SPECIFICATION SmallSpec
CONSTANTS
    e1 = e1  e2 = e2  e3 = e3  p1 = p1  p2 = p2
    Ids <- EntryIds
    Passwords <- BothPasswords
    Keys = {k1}
    NoId = NoId
    NoPassword = NoPassword
    NoKey = NoKey
    FrontEnd = "mfc"
    MaxCommands = 2
SYMMETRY Symmetry
INVARIANTS TypeOK UndoIsExact DependentsAgree BasesFound ListsAgree
PROPERTY DeletionKeepsPasswords
