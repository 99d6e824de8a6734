SPECIFICATION Spec
CONSTANTS
    p1 = p1
    p2 = p2
    e1 = e1
    e2 = e2
    ph1 = ph1
    ph2 = ph2
    r1 = r1
    r2 = r2
    None = None
    Guests = {1}
    Emails = {e1}
    Phones = {}
    Roles = {}
    Procs = {p1, p2}
    CutAt = {}
    MaxAttempts = 5
    MaxRate = 2
    MaxPhoneRate = 1
    MaxUsers = 0
    MaxCodes = 2
    MaxWrong = 14
SYMMETRY ProcSymmetry
INVARIANTS
    TriesBounded
    EmailRateWindowCloses
