SPECIFICATION Spec
CONSTANTS
    p1 = p1
    p2 = p2
    p3 = p3
    n1 = n1
    n2 = n2
    Peers <- MCTwoPeers
    Faulty = {}
    Nodes <- MCNodes
    Sessions = {0}
    Index <- MCIndex
    NoNode = NoNode
    NoPeer = NoPeer
    Recipient = {All}
    All = All
    MaxConnects = 2
    MaxRestarts = 0
INVARIANTS
    TypeOK
    NoMutualStrangers
PROPERTIES
    EventuallyRouted
CHECK_DEADLOCK FALSE
