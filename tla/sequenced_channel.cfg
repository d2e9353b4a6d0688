CONSTANTS
    Windows = 7
    WindowSize = 1
    FreeWindows = 4
    Kinds = {"reliable", "unreliable", "unsequenced", "fragmented"}
    FragmentCount = 2
    UnreliableLimit = 2
    Groups = 8
    UnsequencedWindowSize = 2
    FreeUnsequencedWindows = 2
    MaximumWaitingData = 4
    Lifetime = 4
    ReliableAhead = 3
    MaxPackets = 5
    StartAt = 5
    StartGroup = 6
SPECIFICATION Spec
INVARIANTS
    TypeOK
    OnlyUnreadyWaits
    HeldDataCounted
PROPERTIES
    DeliverySpec
