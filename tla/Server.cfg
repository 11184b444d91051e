SPECIFICATION FairServerSpec
CONSTANTS
    Ids = {i1}
    Entries = {e1}
    Workers = {w1, w2}
    Retaining = {w1}
    PriorityCount = 1
    Capacity = 1
    AckTimeout = 1
    MaxRetries = 2
    BoostTimeout = 0
    Delays = {0}
    Tokens = {1, 2, 3}
    NoId = NoId
    NoEntry = NoEntry
    NoToken = NoToken
    MaxThreads = 2
    Batches <- Mixed
INVARIANTS
    AckedIsFinal
PROPERTIES
    RequestIsAnswered
