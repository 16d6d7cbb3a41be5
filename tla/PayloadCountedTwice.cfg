CONSTANTS
    small = small
    large = large
    NoSegment = NoSegment
    Level <- MCLevel
    Size <- MCSize
    EmptyTail <- MCEmptyTail
    MaxPackets = 3
    InitialChunks = 3
    NackLimit = 2
    Cap = 4
    Segments = {large}
    Kind = "SVCWindowNDN"
    CwndType = "static"
    Duplication = FALSE
    MaxTries = 2
SPECIFICATION Spec
INVARIANT FinishedIsComplete
CHECK_DEADLOCK FALSE
