SPECIFICATION Spec
CONSTANTS
    a1 = a1
    a2 = a2
    d1 = d1
    d2 = d2
    p1 = p1
    p2 = p2
    p3 = p3
    None = None
    Accounts = {a1, a2}
    Devices = {d1, d2}
    Procs = {p1, p2}
    MayFail = TRUE
    MaxAttempts = 2
    AttemptsCheck = 2
    MaxRate = 1
    ResendCheck = 1
    OTPTTL = 1
    BlockedWindow = 1
    RateWindow = 1
    MaxOTPs = 2
    MaxTime = 1
SYMMETRY Symmetry
INVARIANTS
    TypeOK
    LoginIsAtomic
    OneFirstTimeCode
    BlockOutlivesCode
    LoginMatchesRequest
PROPERTY
    ImplementsBudget
