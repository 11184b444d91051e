SPECIFICATION Spec
CONSTANTS
    Ids = {i1, i2}
    Entries = {e1, e2}
    Workers = {w1}
    Retaining = {}
    PriorityCount = 2
    Capacity = 2
    AckTimeout = 1
    MaxRetries = 2
    BoostTimeout = 0
    Delays = {0, 1, 2}
    Tokens = {1, 2, 3, 4}
    NoId = NoId
    NoEntry = NoEntry
    NoToken = NoToken
SYMMETRY Symmetry
INVARIANTS
    OnePlace
    NoInternalError
    DelayOrdered
    DelayThreadInTime
PROPERTIES
    NoOvertaking
    ImplementsLeaseQueue
