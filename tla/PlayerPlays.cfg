CONSTANTS
    NumberOfSegments = 8
    MaxLevel = 2
    BUFFER_MIN_SIZE = 2
    BUFFER_ALPHA = 2
    DESIRED_BUFFER_SIZE = 6
SPECIFICATION FairSpec
INVARIANTS TypeOK OneStreamingChain BufferOrdered BaseWithoutGap EnhancementsFollowBase ReportReadable
PROPERTY PlaybackEnds
CHECK_DEADLOCK FALSE
