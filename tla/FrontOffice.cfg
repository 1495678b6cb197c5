SPECIFICATION FairFrontSpec
CONSTANTS
    r1 = r1
    r2 = r2
    trader = trader
    signer = signer
    NoKey = NoKey
    NoRequest = NoRequest
    Requests = {r1, r2}
    ApiKeys = {trader, signer}
    KeyRole <- MCKeyRole
    Shapes <- MCShapes
    idempotency_key <- MCIdempotencyKey
    MaxTroubles = 1
INVARIANTS
    FrontTypeOK
    OnlyPermittedTakesEffect
    InactiveKeyIsPowerless
    EffectsAreRecorded
    FillsBounded
PROPERTIES
    CreationIsBooked
    NoCrashLoop
CHECK_DEADLOCK FALSE
