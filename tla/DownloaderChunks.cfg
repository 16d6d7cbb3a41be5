CONSTANTS
    small = small
    large = large
    NoSegment = NoSegment
    Level <- MCLevel
    Size <- MCSize
    EmptyTail <- MCEmptyTail
    MaxPackets = 3
    InitialChunks = 3
    NackLimit = 2
    Cap = 4
    Segments = {small, large}
    Kind = "WindowNDN"
    CwndType = "tcp"
    Duplication = FALSE
    MaxTries = 1
SPECIFICATION Spec
INVARIANTS TypeOK WindowInBounds EveryRequestGuarded InflightAccounting FirstDownloadIsComplete
CHECK_DEADLOCK FALSE
