CONSTANTS
    Channels = {c1}
    Windows = 6
    WindowSize = 2
    FreeWindows = 3
    MaximumWaitingData = 4
    TransitLimits = {2, 8}
    FragmentCounts = {2}
    Lifetime = 7
    Lossy = FALSE
    MaxPackets = 4
    StartAt = 8
SPECIFICATION Spec
INVARIANTS
    TypeOK
    WindowsCountOutstanding
    RetransmitsFirst
    NumbersUnambiguous
    QueueSound
    DataCounted
PROPERTIES
    FifoSpec
