SPECIFICATION Spec
CONSTANTS
    EntryFills <- UnequalFills
    Size = 3
    MaxLives = 1
    MaxCalls = 1
INVARIANTS
    RecordedOnce
    BooksAgree
PROPERTIES
    RecordedWhenFlat
CHECK_DEADLOCK FALSE
