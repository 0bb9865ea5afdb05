SPECIFICATION MCSpec
CONSTANTS
    RawIds <- MCRawIds
    Fixtures <- MCFixtures
    MaxCalls = 4
    MaxReplayCalls = 3
    MaxConnects = 2
    MaxTimeouts = 1
INVARIANTS
    ClientInStep
    PeersAgree
    StaleSessionFails
PROPERTIES
    NobodyLeftWaiting
CHECK_DEADLOCK FALSE
