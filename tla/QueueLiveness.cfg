SPECIFICATION FairSpec
CONSTANTS
    Ids = {i1}
    Entries = {e1}
    Workers = {w1, w2}
    Retaining = {}
    PriorityCount = 2
    Capacity = 1
    AckTimeout = 1
    MaxRetries = 2
    BoostTimeout = 0
    Delays = {0, 1}
    Tokens = {1, 2, 3, 4}
    NoId = NoId
    NoEntry = NoEntry
    NoToken = NoToken
PROPERTIES
    DelayEnds
    StalledIsRecovered
    WaitersAreServed
    UnboostedIsBoosted
