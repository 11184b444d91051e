SPECIFICATION Spec
CONSTANTS
    Ids = {i1, i2, i3}
    Entries = {e1, e2, e3}
    Workers = {w1, w2}
    Retaining = {}
    PriorityCount = 1
    Capacity = 2
    AckTimeout = 1
    MaxRetries = 2
    BoostTimeout = 0
    Delays = {0}
    Tokens = {1, 2, 3, 4, 5}
    NoId = NoId
    NoEntry = NoEntry
    NoToken = NoToken
SYMMETRY Symmetry
INVARIANTS
    TypeOK
    CountsAgree
    AllocationBounded
    NoLostWakeup
    TokenNamesOneDelivery
