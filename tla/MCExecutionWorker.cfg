SPECIFICATION Spec
CONSTANTS
    Symbols = {s1, s2, s3}
    Types = {"stop_loss", "take_profit_full"}
    MaxRequests = 3
    MaxSize = 2
    MaxRetries = 3
INVARIANTS
    TypeOK
    TrackingExact
    NothingLost
    RetryBound
    DrainedOnStop
PROPERTIES
    ServiceSpec
    AcceptedIsResolved
    StopReturns
CHECK_DEADLOCK FALSE
