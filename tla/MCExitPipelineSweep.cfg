SPECIFICATION Spec
CONSTANTS
    EntryFills <- OneLot
    Size = 1
    MaxLives = 2
    MaxCalls = 2
PROPERTIES
    BackupKept
CHECK_DEADLOCK FALSE
