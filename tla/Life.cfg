SPECIFICATION LifeFairSpec
CONSTANTS
    Ids = {i1, i2}
    Entries = {e1, e2}
    Workers = {w1}
    Retaining = {}
    PriorityCount = 1
    Capacity = 2
    AckTimeout = 0
    MaxRetries = 2
    BoostTimeout = 0
    Delays = {0, 1}
    Tokens = {1, 2, 3, 4}
    NoId = NoId
    NoEntry = NoEntry
    NoToken = NoToken
INVARIANTS
    FreedLast
PROPERTIES
    DestructionEndsIfDelayed
    OnlyDelayThreadMissesStop
