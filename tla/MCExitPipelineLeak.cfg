SPECIFICATION Spec
CONSTANTS
    EntryFills <- OneLot
    Size = 1
    MaxLives = 2
    MaxCalls = 1
PROPERTIES
    NotLeftAlone
CHECK_DEADLOCK FALSE
