SPECIFICATION Spec
CONSTANTS
    w1 = w1
    w2 = w2
    Workers = {w1, w2}
    Rows <- TwoRows
    Limit = 2
    MAX_RETRIES = 1
    Faults <- Refuses
    MaxTroubles = 0
INVARIANTS
    DlqIsPublished
