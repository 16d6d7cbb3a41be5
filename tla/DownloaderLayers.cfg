CONSTANTS
    small = small
    large = large
    NoSegment = NoSegment
    Level <- MCLevel
    Size <- MCSize
    EmptyTail <- MCEmptyTail
    MaxPackets = 3
    InitialChunks = 2
    NackLimit = 2
    Cap = 4
    Segments = {small, large}
    Kind = "NACKCountingSVC"
    CwndType = "static"
    Duplication = FALSE
    MaxTries = 1
SPECIFICATION Spec
INVARIANT OnlyEnhancementsGivenUp
PROPERTY ImplementsIDownloader
CHECK_DEADLOCK FALSE
