SPECIFICATION MCSpec
CONSTANTS
    HeaderLen = 6
    BodyLens = {0, 2}
    MaxFrames = 3
    MaxFailures = 2
    MaxSources = 3
    Wires <- MCWires
    Recorded <- MCRecorded
INVARIANTS
    ChunkIndependence
    NeverRepeatedOrReordered
    SourcesJoin
PROPERTIES
    CollectReturns
CHECK_DEADLOCK FALSE
