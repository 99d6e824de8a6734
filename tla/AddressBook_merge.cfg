SPECIFICATION Spec
CONSTANTS
    p1 = p1
    p2 = p2
    t1 = t1
    t2 = t2
    None = None
    Procs = {p1, p2}
    Texts = {t1, t2}
    Edits <- AllEdits
    MayFail = FALSE
    MaxAddresses = 1
    MaxDeleted = 1
    MaxRows = 1
PROPERTY
    LeftOutFieldsKept
