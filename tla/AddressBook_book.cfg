SPECIFICATION FairSpec
CONSTANTS
    p1 = p1
    p2 = p2
    t1 = t1
    t2 = t2
    None = None
    Procs = {p1, p2}
    Texts = {t1}
    Edits <- BookEdits
    MayFail = TRUE
    MaxAddresses = 3
    MaxDeleted = 1
    MaxRows = 5
INVARIANTS
    TypeOK
    DefaultsBounded
    AddressesBounded
PROPERTIES
    DeletedStaysDeleted
    RequestsEnd
