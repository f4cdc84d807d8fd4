SPECIFICATION FairSpec
CONSTANTS
    Threads = {sniffer, relayer, interpreter}
    Chained = {sniffer}
    Finishing = {interpreter}
    WaitLimit = 2
INVARIANTS
    FreedUnderThread
PROPERTIES
    StopIsNotLost
    StopReturns
    ToldThreadEnds
