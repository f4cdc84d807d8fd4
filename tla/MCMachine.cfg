SPECIFICATION FairSpec
CONSTANTS
    Main = main
    Handler = handler
    Sniffers = {s1}
    MaxSignals = 2
INVARIANTS
    MisuseHasACause
    StateIsTrue
    ServersComeFirst
PROPERTY TimedRunEnds
CHECK_DEADLOCK FALSE
