SPECIFICATION Spec
CONSTANTS
    ListenerNum = 1
    Aggregating = {0}
    MxRecords = {m1, m2, m3, m4, m5}
    NoRecord = NoRecord
    NoFile = NoFile
    PufferSize = 2
    PoolSize = 1
    MaxRounds = 5
INVARIANTS
    OwnersAndSignals
    EveryRowInItsFile
    AggregationFollowsOutput
PROPERTY EverySampleIsWritten
