SPECIFICATION Spec
CONSTANTS
    None = None
    Spread = 1
    Capacity = 3
    Cost = 5
    Rate = 2
    TTL = 8
    MaxTime = 20
INVARIANTS
    TypeOK
    RetryAfterHonoured
    AdmittedBounded
PROPERTY
    ImplementsTokenBucket
