CONSTANTS
    PeerCount = 2
    PacketCount = 2
    Batches <- MCBatches
    FragmentCount = 2
    ThrottleScale = 4
    ThrottleCounter = 3
    Throttles = {1, 4}
    Recipients <- MCRecipients
SPECIFICATION Spec
INVARIANTS
    TypeOK
    ReferencesExact
    DestroyedOnce
    NothingLeaks
    DroppedWhole
