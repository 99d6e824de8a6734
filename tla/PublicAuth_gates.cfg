SPECIFICATION Spec
CONSTANTS
    Routes = {"check-phone", "register", "send-otp", "verify-otp", "send-email-otp", "verify-email"}
    Devices = {d1, d2}
    NoDevice = NoDevice
    IPs = {a1, a2}
    Spellings <- MCSpellings
    RoleNames = {"client", "Client"}
    Capacity <- MCCapacity
    MaxTokens = 2
    MaxRequests = 2
    MaxRefills = 1
    MaxFaults = 1
SYMMETRY Symmetry
INVARIANTS
    TypeOK
    SpellingsShareBucket
    DeviceBound
    NumbersReadAlike
CHECK_DEADLOCK FALSE
