SPECIFICATION Spec
CONSTANTS
    ListenerNum = 2
    Confs <- MCConfs
    Packets <- MCPackets
    NoSniff = NoSniff
    StaleHeads = TRUE
    WordSize = 3
    MaxPackets = 2
INVARIANTS
    TypesAndColumns
    VerdictsAgree
