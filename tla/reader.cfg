SPECIFICATION ReaderFairSpec
CONSTANTS
    MaxPosts = 3
    MaxEdits = 2
    PollLimit = 2
    BackfillLimit = 3
    MaxQueue = 2
    MaxFaults = 2
CHECK_DEADLOCK FALSE
PROPERTIES
    ReaderKeepsBuffer
