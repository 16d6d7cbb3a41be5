CONSTANTS
    a0 = a0
    a1 = a1
    a2 = a2
    b0 = b0
    b1 = b1
    b2 = b2
    DOWNLOADER_NUMBER = 2
    Segments <- MCSegments
    NoSegment = NoSegment
    Level <- MCLevel
    Layered = TRUE
    Batches <- MCBatches
SPECIFICATION Spec
INVARIANT FinishedWaitsForReset
CHECK_DEADLOCK FALSE
