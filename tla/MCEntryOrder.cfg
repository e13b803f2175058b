SPECIFICATION Spec
CONSTANTS
    Quantity = 3
    MaxAttempts = 2
    OrderTypes <- BothTypes
    MaxFaults = 3
INVARIANTS
    TypeOK
    EnteredIsHeld
    NothingLeftOpen
    ExactWhenAnswered
PROPERTIES
    Settles
CHECK_DEADLOCK FALSE
