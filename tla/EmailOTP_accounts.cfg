SPECIFICATION Spec
CONSTANTS
    p1 = p1
    p2 = p2
    e1 = e1
    e2 = e2
    ph1 = ph1
    ph2 = ph2
    r1 = r1
    r2 = r2
    None = None
    Guests = {1}
    Emails = {e1, e2}
    Phones = {ph1, ph2}
    Roles = {r1}
    Procs = {p1, p2}
    CutAt = {"commit", "save", "unmark"}
    MaxAttempts = 1
    MaxRate = 3
    MaxPhoneRate = 1
    MaxUsers = 2
    MaxCodes = 3
    MaxWrong = 0
VIEW WithoutRates
SYMMETRY RequestSymmetry
INVARIANTS
    TypeOK
    EmailProven
    AccountsUnique
