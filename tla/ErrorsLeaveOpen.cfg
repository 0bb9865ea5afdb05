SPECIFICATION Spec
CONSTANTS
    Frames <- MCFrames
    MaxChunk = 2
    MaxBuffered = 6
    MaxFramesPerIter = 2
    MaxFeeds = 4
INVARIANT ErrorsClose
CHECK_DEADLOCK FALSE
