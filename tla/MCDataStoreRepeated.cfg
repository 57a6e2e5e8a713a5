SPECIFICATION Spec
CONSTANTS
    x = x
    y = y
    m1 = m1
    m2 = m2
    m3 = m3
    Hashes <- MCHashes
    Number <- MCNumber
    Messages <- MCMessages
    Included <- MCRepeated
    CacheSize = 2
    Boundary = 2
    MaxId = 3
    MaxReceived = 1
PROPERTIES
    AvailableAreForwarded
CHECK_DEADLOCK FALSE
