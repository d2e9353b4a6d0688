CONSTANTS
    Word = 128
    Overflow = 40
    SentTimeRange = 8
    AttemptCycle = 3
    TimeoutLimit = 4
    TimeoutMinimum = 3
    TimeoutMaximum = 5
    PingInterval = 4
    DefaultRoundTrip = 2
    RoundTripGain = 2
    VarianceGain = 2
    SlowGain = 4
    Steps = {0, 1, 3}
    MaxStep = 3
    WireLife = 5
    MaxCommands = 2
    StartAt = 121
    MaxTime = 140
SPECIFICATION Spec
CHECK_DEADLOCK FALSE
INVARIANTS
    TypeOK
    NextTimeoutIsOldest
    EstimateWithinSamples
    SilenceEnds
PROPERTIES
    TimeoutDeserved
