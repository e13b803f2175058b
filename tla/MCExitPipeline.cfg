SPECIFICATION StreamSpec
CONSTANTS
    EntryFills <- OneLot
    Size = 1
    MaxLives = 2
    MaxCalls = 2
INVARIANTS
    TypeOK
    RecordedOnce
    BooksAgree
PROPERTIES
    ClosedIsRecorded
CHECK_DEADLOCK FALSE
