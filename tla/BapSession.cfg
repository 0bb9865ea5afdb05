SPECIFICATION FrameSpec
CONSTANTS
    MaxFrames = 5
    MaxFaults = 2
INVARIANTS
    AlignedDespiteTampering
    NoReplay
PROPERTIES
    FailuresHaveACause
CHECK_DEADLOCK FALSE
