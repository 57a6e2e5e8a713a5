CONSTANTS
    FirstFinalized = 1
    LastBlock = 5
    MaxBlock = 6
SPECIFICATION FairSpec
CHECK_DEADLOCK FALSE
INVARIANTS
    TypeOK
    InChainOrder
    NoSignatureLost
    EndsWithSession
PROPERTIES
    StartedIsJustified
    ComesToEnd
