SPECIFICATION Spec
CONSTANTS
    g = g
    a1 = a1
    b1 = b1
    b2 = b2
    a2 = a2
    n1 = n1
    n2 = n2
    n3 = n3
    byz = byz
    Blocks <- MCBlocks
    Genesis = g
    Number <- MCNumber
    Ancestors <- MCAncestors
    SessionPeriod = 1
    Honest <- MCHonest
    Faulty = {byz}
    Data <- MCData
    GenesisCommittee <- MCCommittee
    NextAuthorities <- MCNextAuthorities
    PruneWindow = 1
    ApiFails <- MCApiFails
    InitiallyImported <- MCBlocks
    MaxSession = 3
    MaxOrdered <- MCMaxOrdered
    MaxCrashes = 1
SYMMETRY Symmetry
INVARIANTS
    FinalityAgreement
    KeyboxAvailable
    SessionMapBounded
PROPERTIES
    FinalizedByOwnCommittee
CHECK_DEADLOCK FALSE
