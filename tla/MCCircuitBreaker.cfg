SPECIFICATION Spec
CONSTANTS
    s1 = s1
    s2 = s2
    Symbols <- TwoSymbols
    Side <- TwoSides
    DayLength = 4
    MaxLosses = 2
    Cooldown = 1
    Schedule <- Escalating
    SideLimit = 2
    SideWindow = 1
    SideCooldown = 3
    DirectionThreshold = 2
    DirectionWindow = 1
    DirectionCooldown = 2
    DailyLimit = 2
    DailyCooldown = 0
    Drawdown = 30
    BlockedWindows <- TwoWindows
    Offset = 3
    Balances <- TwoBalances
    MaxClock = 6
    MaxCalls = 3
SYMMETRY SymbolSymmetry
INVARIANTS
    TypeOK
    CausesBlock
    BlocksHaveCauses
    DrawdownHalts
    DeadZoneExact
CHECK_DEADLOCK FALSE
