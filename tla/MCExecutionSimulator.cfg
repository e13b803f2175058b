SPECIFICATION Spec
CONSTANTS
  s1 = s1
  s2 = s2
  Symbols = {s1, s2}
  None = None
  Options <- Runs
  Candles <- All
  Signals <- Some
  MinutesPerBar = 2
  InitialBalance = 600
  Target = 100
  Risk = 4
  TakeProfit = 6
  Liq = 10
  BreakevenAt = 3
  Buffer = 1
  Trail = 6
  HardCap = 6
  MaxSl = 5
  AutoClose = 3
  LockAt = 3
  Lock = 2
  Near = 2
  FillBuffer = 1
  Lot = 10
  MarginUnit = 11
  EntryFee = 1
  ExitFee = 1
  Slip = 1
  FundingUnit = 1
  FundingBars = 1
  Reversal = 9
INVARIANTS TypeOK AccountSound StopsHonoured EachTradeToldOnce
PROPERTY StopBeforeLiquidation
