SPECIFICATION Spec
CONSTANTS
    SessionPeriod = 2
    MillisecsPerBlock = 5
    PruneWindow = 1
    ApiFails = {1}
    MaxBlock = 4
    MaxFork = 2
    MaxQueue = 1
INVARIANTS
    TypeOK
PROPERTIES
    RequestsAreNeeded
    SessionEndsAreFinalized
    DeliveredIsFinalized
CHECK_DEADLOCK FALSE
