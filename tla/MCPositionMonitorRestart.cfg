SPECIFICATION Spec
CONSTANTS
    Nothing = Nothing
    Entry = 10
    Target = 20
    DefaultTarget = 20
    LocalStop = 7
    SignalStops = {8}
    HardCap = 5
    BackupStop = 5
    Extreme = 4
    Breakeven = 11
    Trail = 10
    Prices = {3, 15, 21}
    Short = TRUE
    MaxInFlight = 2
PROPERTIES
    BreakevenKept
CHECK_DEADLOCK FALSE
