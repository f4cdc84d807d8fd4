SPECIFICATION MCSpec
CONSTANTS
    ListenerNum = 2
    Confs <- MCConfs
    Ids = {1, 2, 3}
    Values = {1, 2}
    TableSize = 2
    Setups <- MCSetups
    PufferSize = 1
INVARIANTS
    OneRowIsFreedOnce
    NoCircularWait
    StopIsServed
    LeakNeedsTwoStops
PROPERTY ShowsMappedVars
