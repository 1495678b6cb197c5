SPECIFICATION FairSpec
CONSTANTS
    w1 = w1
    w2 = w2
    Workers = {w1, w2}
    Rows <- ThreeRows
    Limit = 2
    MAX_RETRIES = 1
    Faults <- Refuses
    MaxTroubles = 1
INVARIANTS
    TypeOK
    ClaimedOnce
    CopiesBounded
    AttemptsBounded
    DeadLettersBounded
PROPERTIES
    ImplementsDelivery
    EveryRowSettles
