SPECIFICATION FairSpec
CONSTANTS
    Clients = {"a", "b", "c"}
    Self = "self"
    MaxConnections = 2
    MaxEvents = 1
    MaxErrors = 1
INVARIANTS
    LimitHolds
    EventsAttributed
PROPERTIES
    NothingServedAfterShutdown
    NobodyWaitsForever
CHECK_DEADLOCK FALSE
