CONSTANTS
    Channels = {c1}
    Windows = 6
    WindowSize = 2
    FreeWindows = 3
    MaximumWaitingData = 2
    TransitLimits = {3}
    FragmentCounts = {1, 2}
    Lifetime = 7
    Lossy = TRUE
    MaxPackets = 2
    StartAt = 9
SPECIFICATION FairSpec
PROPERTIES
    ReliableDelivery
