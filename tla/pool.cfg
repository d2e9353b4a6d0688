CONSTANTS
    Threads = {t1, t2}
    Blocks = {b1, b2, b3, b4}
    NoBlock = NoBlock
    MaxRetained = 2
    StatsBatch = 2
    MaxAcquires = 4
SYMMETRY PoolSymmetry
SPECIFICATION Spec
INVARIANTS
    TypeOK
    OwnedOnce
    NothingLost
    StackLinked
    StatisticsAddUp
