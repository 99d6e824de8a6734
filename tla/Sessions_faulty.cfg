SPECIFICATION FairBackendSpec
CONSTANTS
    p1 = p1
    p2 = p2
    n1 = n1
    n2 = n2
    v1 = v1
    None = None
    Procs = {p1, p2}
    MayFail = TRUE
    MaxSessions = 1
    Names = {n1, n2}
    Values = {v1}
    Updates <- MCUpdates
    Migrations = 2
INVARIANTS
    AllTypesOK
    UsableMeansCommitted
    LoggedOutForGood
    UntimedNeverUsed
    ServesWholeSchema
    StopIsGraceful
    UpdatesKept
    LateUpdatesBounded
PROPERTY
    Settles
