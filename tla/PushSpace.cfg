SPECIFICATION ServerSpec
CONSTANTS
    Ids = {i1, i2}
    Entries = {e1}
    Workers = {w1, w2}
    Retaining = {}
    PriorityCount = 1
    Capacity = 1
    AckTimeout = 1
    MaxRetries = 1
    BoostTimeout = 0
    Delays = {0}
    Tokens = {1, 2, 3}
    NoId = NoId
    NoEntry = NoEntry
    NoToken = NoToken
    MaxThreads = 2
    Batches <- Pairs
PROPERTIES
    PushWaitsForSpace
