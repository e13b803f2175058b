------------------------ MODULE MCExecutionSimulator ------------------------
(* Instances of ExecutionSimulator for TLC: one backtest for each group of settings. *)
EXTENDS ExecutionSimulator

CONSTANTS s1, s2

Candle(o, h, l, c) == [open |-> o, high |-> h, low |-> l, close |-> c]
Dip == Candle(100, 101, 97, 98)
Hook == Candle(100, 103, 97, 102)
Rally == Candle(100, 112, 100, 108)
Slow == Candle(102, 105, 101, 105)
Crash == Candle(100, 100, 86, 90)
WideUp == Candle(100, 114, 86, 104)
WideDown == Candle(100, 114, 86, 96)
GapDown == Candle(87, 88, 85, 86)
Sink == Candle(100, 101, 93, 95)
Spike == Candle(103, 107, 86, 96)
All == {Dip, Hook, Rally, Slow, Crash, WideUp, WideDown, GapDown, Sink, Spike}
Few == {Dip, Rally, WideDown}

Signal(s, side, type, confidence, half) ==
    [symbol |-> s, side |-> side, type |-> type, confidence |-> confidence, half |-> half]
Some == {Signal(s1, "LONG", "LIMIT", 8, FALSE), Signal(s1, "SHORT", "LIMIT", 9, TRUE),
         Signal(s1, "LONG", "MARKET", 8, TRUE), Signal(s2, "LONG", "LIMIT", 7, FALSE),
         Signal(s2, "SHORT", "LIMIT", 9, FALSE)}

One == [Default EXCEPT !.symbols = {s1}, !.bars = 4]
Two == [Default EXCEPT !.market = Few, !.slots = 2, !.bars = 4]
Minutes == [One EXCEPT !.minutes = TRUE, !.market = {Dip, Slow, Rally, WideDown}, !.bars = 3]
Runs == {
    One,
    [One EXCEPT !.adversarial = TRUE, !.timeExit = 2],
    [One EXCEPT !.market = {Slow, Dip, Spike}],
    [One EXCEPT !.closeOnly = TRUE, !.lock = TRUE],
    [One EXCEPT !.fullTp = TRUE, !.target = 60, !.noCompound = TRUE],
    [One EXCEPT !.autoClose = TRUE, !.partial = TRUE, !.bars = 3],
    [One EXCEPT !.chase = TRUE, !.ttl = 1, !.dead = {4}, !.reversal = TRUE, !.bars = 5,
                !.market = Few \cup {Hook}],
    [Two EXCEPT !.sameSide = 1, !.reversal = TRUE],
    [Two EXCEPT !.slots = 1, !.recycle = TRUE],
    Minutes,
    [Minutes EXCEPT !.autoClose = TRUE, !.ticks = TRUE, !.adversarial = TRUE, !.target = 60],
    [Minutes EXCEPT !.autoClose = TRUE, !.partial = TRUE, !.lock = TRUE, !.fullTp = TRUE],
    [Minutes EXCEPT !.closeOnly = TRUE, !.autoClose = TRUE, !.atThreshold = TRUE,
                    !.deadClose = TRUE, !.dead = {3}, !.bars = 3, !.market = {Dip, Sink, WideDown}],
    [Minutes EXCEPT !.symbols = Symbols, !.slots = 2, !.market = {Dip, Rally}]}
=============================================================================
