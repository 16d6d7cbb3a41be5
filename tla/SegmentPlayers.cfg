CONSTANTS
    MaxSize = 7
    Duration = 2
    Bandwidth <- MCBandwidth
    Feasible = {0, 1, 2}
    Stacked = TRUE
    CONSIDERD_HISTORY_SIZE = 2
    SEGMENT_HISTORY = 2
    NumberOfSegments = 8
    DOWNLOADER_NUMBER = 2
    MeasuredRates = {1, 3, 6}
SPECIFICATION FairSpec
INVARIANTS OneRequestAtATime SecondsAccounted HistoriesAligned
PROPERTY PlaybackEnds
CHECK_DEADLOCK FALSE
