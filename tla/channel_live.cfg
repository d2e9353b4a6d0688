CONSTANTS
    Channels = {c1, c2}
    Windows = 6
    WindowSize = 2
    FreeWindows = 3
    MaximumWaitingData = 8
    TransitLimits = {2}
    FragmentCounts = {1}
    Lifetime = 8
    Lossy = TRUE
    MaxPackets = 2
    StartAt = 11
SPECIFICATION FairSpec
PROPERTIES
    ForgottenOnlyWhenArrived
    ReliableDelivery
