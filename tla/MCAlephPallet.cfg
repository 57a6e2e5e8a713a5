SPECIFICATION Spec
CONSTANTS
    a1 = a1
    a2 = a2
    a3 = a3
    k1 = k1
    k2 = k2
    Accounts = {a1, a2, a3}
    Keys = {k1, k2}
    SessionPeriod = 2
    GenesisValidators = {a1, a2}
    GenesisKeys <- MCGenesisKeys
    Lists <- MCLists
    MaxBlock = 9
INVARIANTS
    TypeOK
    ChangeOnTime
PROPERTIES
    AuthoritiesAsAnnounced
CHECK_DEADLOCK FALSE
