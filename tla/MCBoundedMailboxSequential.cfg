SPECIFICATION Spec
CONSTANTS
    MaxMessages = 4
    Capacity = 2
INVARIANTS
    OneAtATime
CHECK_DEADLOCK FALSE
