SPECIFICATION Spec
CONSTANTS
    Clients = {c1, c2}
    Strings = {s1, s2, s3}
    WireLimit = 4
    MaxInFlight = 2
    MaxRequests = 1
SYMMETRY Symmetry
CHECK_DEADLOCK FALSE
INVARIANTS
    CacheInv
    ContiguousUpdates
    ReadersUnderstand
    KnownIsPrefix
