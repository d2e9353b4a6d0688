CONSTANTS
    p1 = p1
    p2 = p2
    p3 = p3
    Peers = {p1, p2, p3}
    Word = 256
    Scale = 4
    Second = 2
    Elapsed = {3}
    HostLimits <- MCHostLimits
    PeerLimits <- MCPeerLimits
    Sizes = {10}
    MaxData = 10
    Steps = {3}
SPECIFICATION Spec
SYMMETRY Symmetry
INVARIANTS
    TypeOK
    LimitedPeersCounted
PROPERTIES
    OutgoingFits
    IncomingShared
