SPECIFICATION Spec
CONSTANTS
    g = g
    a1 = a1
    a2 = a2
    a3 = a3
    b2 = b2
    c1 = c1
    c2 = c2
    Blocks <- MCBlocks
    Genesis = g
    Number <- MCNumber
    Ancestors <- MCAncestors
    SessionPeriod = 2
    Data <- MCData
INVARIANTS
    TypeOK
    ReturnsPath
PROPERTIES
    Returns
CHECK_DEADLOCK FALSE
