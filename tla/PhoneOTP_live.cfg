SPECIFICATION FairSpec
CONSTANTS
    a1 = a1
    a2 = a2
    d1 = d1
    d2 = d2
    p1 = p1
    p2 = p2
    p3 = p3
    None = None
    Accounts = {a1}
    Devices = {d1}
    Procs = {p1, p2}
    MayFail = FALSE
    MaxAttempts = 2
    AttemptsCheck = 2
    MaxRate = 1
    ResendCheck = 1
    OTPTTL = 1
    BlockedWindow = 1
    RateWindow = 1
    MaxOTPs = 3
    MaxTime = 1
INVARIANTS
    RateOvershootBounded
    RateWindowCloses
PROPERTY
    RequestsEnd
