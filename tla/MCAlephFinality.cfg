SPECIFICATION Spec
CONSTANTS
    g = g
    a1 = a1
    b1 = b1
    b2 = b2
    c2 = c2
    n1 = n1
    n2 = n2
    n3 = n3
    byz = byz
    Blocks <- MCBlocks
    Genesis = g
    Number <- MCNumber
    Ancestors <- MCAncestors
    SessionPeriod = 2
    Honest <- MCHonest
    Faulty = {byz}
    Data <- MCData
    GenesisCommittee <- MCCommittee
    NextAuthorities <- MCNextAuthorities
    PruneWindow = 1
    ApiFails = {}
    InitiallyImported <- MCImported
    MaxSession = 1
    MaxOrdered <- MCMaxOrdered
    MaxCrashes = 0
SYMMETRY Symmetry
INVARIANTS
    TypeOK
    CommitteeAgreement
    ConflictingSignaturesOnlyWhenLate
PROPERTIES
    ImplementsFinality
CHECK_DEADLOCK FALSE
