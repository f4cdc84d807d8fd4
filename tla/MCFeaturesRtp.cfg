SPECIFICATION Spec
CONSTANTS
    ListenerNum = 2
    Confs <- MCConfs
    Packets <- MCPackets
    NoSniff = NoSniff
    StaleHeads = FALSE
    WordSize = 3
    MaxPackets = 2
INVARIANT RtpTypeIsHeeded
