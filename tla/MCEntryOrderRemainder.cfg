SPECIFICATION Spec
CONSTANTS
    Quantity = 2
    MaxAttempts = 3
    OrderTypes <- OnlyLimit
    MaxFaults = 0
INVARIANTS
    OnlyTheRemainder
CHECK_DEADLOCK FALSE
