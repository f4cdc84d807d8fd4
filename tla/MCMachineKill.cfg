SPECIFICATION FairSpec
CONSTANTS
    Main = main
    Handler = handler
    Sniffers = {s1}
    MaxSignals = 1
PROPERTY KillEndsProgram
CHECK_DEADLOCK FALSE
