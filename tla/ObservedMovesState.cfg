SPECIFICATION Spec
CONSTANT MaxCalls = 5
PROPERTY ObservedIsNoOp
CHECK_DEADLOCK FALSE
