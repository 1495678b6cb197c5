SPECIFICATION FrontSpec
CONSTANTS
    r1 = r1
    r2 = r2
    trader = trader
    signer = signer
    NoKey = NoKey
    NoRequest = NoRequest
    Requests = {r1, r2}
    ApiKeys = {trader, signer}
    KeyRole <- MCKeyRole
    Shapes <- MCShapes
    idempotency_key <- MCIdempotencyKey
    MaxTroubles = 0
INVARIANTS
    EveryRequestAudited
CHECK_DEADLOCK FALSE
