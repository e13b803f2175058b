SPECIFICATION Spec
CONSTANTS
    a = a
    b = b
    c = c
    NoSymbol = NoSymbol
    Symbols <- Three
    Confidence = {5, 6}
    MaxPositions = 2
    EnableRecycling = TRUE
    MaxCandles = 2
    MaxSyncs = 1
SYMMETRY Alike
INVARIANTS
    TypeOK
    OneBatchPerCandle
    PendingWithinSlots
    LimitsHoldWhenSeen
PROPERTIES
    RecycledIsWorse
CHECK_DEADLOCK FALSE
