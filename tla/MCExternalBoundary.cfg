SPECIFICATION FairSpec
CONSTANTS
    Frames <- MCFrames
    MaxChunk = 2
    MaxBuffered = 6
    MaxFramesPerIter = 2
    MaxFeeds = 4
INVARIANTS
    LogTellsTheLife
    LifecyclesAgree
    PeerNeverBlamed
PROPERTIES
    WorkerEndsReported
CHECK_DEADLOCK FALSE
