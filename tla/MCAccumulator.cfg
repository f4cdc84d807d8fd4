SPECIFICATION Spec
SYMMETRY RecordSymmetry
CONSTANTS
    ListenerNum = 2
    Relayer = relayer
    Nobody = nobody
    Records = {r1, r2, r3, r4}
    NoRecord = NoRecord
    PufferSize = 2
    PoolSize = 1
    AccumulationTime = 0
    WordSize = 2
    Values = {0, 1}
    MaxTime = 1
INVARIANTS
    ResultIsWindowSum
    OneOwner
    ReportIsFresh
    ResultIsGrowthOfTotal
PROPERTIES
    LeavesOldOrCrowdedOut
    CriticalSectionShrinks
