SPECIFICATION FairSpec
CONSTANTS
    Clients = {"a", "b"}
    Self = "self"
    MaxCalls = 4
    Streams <- MCStreams
    ReadSizes = {1, 2, 3, 7}
    Header = 2
    MaxFrame = 5
    MaxBuffered = 6
    MaxFramesPerIter = 2
    MaxChunk = 2
    MaxReads = 4
INVARIANTS
    SecondStart
    LimitsMeetTheLarge
    TraceReliable
PROPERTIES
    EverythingEnds
CHECK_DEADLOCK FALSE
