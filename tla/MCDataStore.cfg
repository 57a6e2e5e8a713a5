SPECIFICATION Spec
CONSTANTS
    x = x
    y = y
    m1 = m1
    m2 = m2
    m3 = m3
    Hashes <- MCHashes
    Number <- MCNumber
    Messages <- MCMessages
    Included <- MCIncluded
    CacheSize = 2
    Boundary = 2
    MaxId = 3
    MaxReceived = 2
INVARIANTS
    TypeOK
    NoPanic
    Conservation
    OldAreForgotten
PROPERTIES
    ForwardsAvailable
    AvailableAreForwarded
CHECK_DEADLOCK FALSE
