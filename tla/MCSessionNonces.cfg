SPECIFICATION MCSpec
CONSTANTS
    ByteRange = 4
    NonceLen = 3
    LowRange <- MCLowRange
    HighRange = 4
    MaxIssued = 15
    CapturedFrames <- MCCapturedFrames
    MaxCapture = 4
INVARIANTS
    Schedule
    BytewiseScheduleAgrees
    VerifiersVouchFor
PROPERTIES
    NeverReused
CHECK_DEADLOCK FALSE
