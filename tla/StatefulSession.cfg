SPECIFICATION Spec
CONSTANT MaxCalls = 7
INVARIANTS
    LogIsAPath
    DispatcherKeepsUp
PROPERTY RepliesInOrder
CHECK_DEADLOCK FALSE
