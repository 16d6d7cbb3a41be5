CONSTANTS
    small = small
    large = large
    NoSegment = NoSegment
    Level <- MCLevel
    Size <- MCSize
    EmptyTail <- MCEmptyTail
    MaxPackets = 3
    InitialChunks = 3
    NackLimit = 2
    Cap = 4
    Segments = {large}
    Kind = "WindowNDN"
    CwndType = "static"
    Duplication = TRUE
    MaxTries = 1
SPECIFICATION FairSpec
PROPERTY DownloadFinishes
CHECK_DEADLOCK FALSE
