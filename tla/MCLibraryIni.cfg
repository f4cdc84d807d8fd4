SPECIFICATION MCSpec
CONSTANTS
    Items = {a, b}
    Size = 4
    NULL = NULL
    Parts = {"ini"}
    Addresses = {x1, x2, x3, x4}
    Gatherers = {g1, g2, g3}
    Gatenum = 2
    Flag = 8
    MaxGates = 3
    Garbage = Garbage
    ItemSize = 4
    InitSize = 2
    MaxItems = 4
    SeqSize = 8
    WordSize = 10
    MaxGap = 2
    Timestamps = {0, 1}
    TreeNodes = {n1, n2, n3, n4}
    Movable = {n2, n3, n4}
    TreeKey <- MCKey
    TreeRecycle = 1
    NIL = NULL
    MaxRefs = 4
    MaxHeld = 1
    MaxDrift = 1
    Values = {1, 2, 3}
    MaxCount = 6
    BaseSize = 2
    Lines <- MCLines
    Lower <- MCLower
    Entries <- MCEntries
    Texts <- MCTexts
    MinSize = 2
    MaxLines = 4
    MaxKeys = 4
    Words <- MCWords
    MaxWords = 3
    MaxErrors = 2
    IntMax = 127
    Factor <- MCFactor
    NONE = NONE
    NumLimit = 3
    TimeLimit = 1
    Percentile = 60
PROPERTY NullDeletes
CHECK_DEADLOCK FALSE
