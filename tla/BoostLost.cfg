SPECIFICATION Spec
CONSTANTS
    Ids = {i1}
    Entries = {e1}
    Workers = {w1}
    Retaining = {}
    PriorityCount = 2
    Capacity = 1
    AckTimeout = 1
    MaxRetries = 2
    BoostTimeout = 0
    Delays = {0}
    Tokens = {1, 2, 3}
    NoId = NoId
    NoEntry = NoEntry
    NoToken = NoToken
SYMMETRY Symmetry
INVARIANTS
    BoostedIsInFirstQueue
