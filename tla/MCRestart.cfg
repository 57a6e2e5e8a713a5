SPECIFICATION Spec
CONSTANTS
    g = g
    a1 = a1
    b1 = b1
    a2 = a2
    c2 = c2
    n1 = n1
    n2 = n2
    n3 = n3
    byz = byz
    Blocks <- MCBlocks
    Genesis = g
    Number <- MCNumber
    Ancestors <- MCAncestors
    SessionPeriod = 3
    Honest <- MCHonest
    Faulty = {byz}
    Data <- MCData
    GenesisCommittee <- MCCommittee
    NextAuthorities <- MCNextAuthorities
    PruneWindow = 1
    ApiFails = {}
    InitiallyImported <- MCImported
    MaxSession = 0
    MaxOrdered <- MCMaxOrdered
    MaxCrashes = 1
SYMMETRY Symmetry
INVARIANTS
    NoDoubleSigning
CHECK_DEADLOCK FALSE
