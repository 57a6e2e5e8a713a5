SPECIFICATION Spec
CONSTANTS
    p1 = p1
    p2 = p2
    p3 = p3
    n1 = n1
    n2 = n2
    Peers <- MCThreePeers
    Faulty = {p2}
    Nodes <- MCNodes
    Sessions = {0}
    Index <- MCIndex
    NoNode = NoNode
    NoPeer = NoPeer
    Recipient = {}
    All = All
    MaxConnects = 2
    MaxRestarts = 1
INVARIANTS
    RoutesToOwner
    RoutesAreAuthenticated
    NoGhosts
CHECK_DEADLOCK FALSE
