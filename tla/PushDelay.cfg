SPECIFICATION ServerSpec
CONSTANTS
    Ids = {i1, i2}
    Entries = {e1, e2}
    Workers = {w1}
    Retaining = {}
    PriorityCount = 1
    Capacity = 2
    AckTimeout = 1
    MaxRetries = 1
    BoostTimeout = 0
    Delays = {0}
    Tokens = {1, 2, 3}
    NoId = NoId
    NoEntry = NoEntry
    NoToken = NoToken
    MaxThreads = 1
    Batches <- Delayed
PROPERTIES
    DelayIsOptional
