-------------------------- MODULE ExecutionSimulator --------------------------
(***************************************************************************)
(* The backtest: the main loop of BacktestEngine.run_portfolio             *)
(* (application/backtest/backtest_engine.py) around the account, orders    *)
(* and positions of ExecutionSimulator (execution_simulator.py).  Per bar  *)
(* it replays the candles, tells the circuit breaker of the trades, looks  *)
(* at one-minute candles, places the orders of the bar's signals and       *)
(* checks the portfolio target.                                            *)
(*                                                                         *)
(* A price matters by its distance from the entry, in the position's       *)
(* favour: its gain.  Longs and shorts then read alike.  Stops, targets    *)
(* and thresholds are gains; money is gain times lots.                     *)
(***************************************************************************)
EXTENDS Integers, Sequences, FiniteSets, SequencesExt, FiniteSetsExt

CONSTANTS
    Symbols, None,
    Options,         \* the settings a backtest may be started with
    Candles,         \* records of open, high, low and close
    Signals,         \* records of symbol, side, type, confidence and half
    MinutesPerBar,
    InitialBalance,
    Target,          \* entry price of every signal
    Risk, TakeProfit,       \* distance of a signal's stop and first target
    Liq,             \* gain at which the margin is used up, maintenance included
    BreakevenAt, Buffer,    \* gain that triggers breakeven, and the stop it sets
    Trail, HardCap, MaxSl, AutoClose, LockAt, Lock,
    Near,            \* an order this close to the latest price is not recycled
    FillBuffer,      \* how far beyond its price a limit order is filled
    Lot,             \* step of a quantity, a multiple of ten
    MarginUnit, EntryFee, ExitFee, Slip, FundingUnit,   \* per unit of quantity
    FundingBars,     \* bars between two payments of funding
    Reversal         \* confidence at which an opposite signal closes a position

ASSUME SymbolsAssumption == IsFiniteSet(Symbols) /\ None \notin Symbols
ASSUME CandlesAssumption ==
    \A c \in Candles :
        /\ {c.open, c.high, c.low, c.close} \subseteq Int
        /\ \A price \in {c.open, c.close} : c.low <= price /\ price <= c.high
ASSUME SignalsAssumption ==
    Signals \subseteq [symbol : Symbols, side : {"LONG", "SHORT"}, type : {"LIMIT", "MARKET"},
                      confidence : Nat, half : BOOLEAN]
ASSUME OptionsAssumption ==
    \A o \in Options : /\ o.symbols \subseteq Symbols /\ o.market \subseteq Candles
                       /\ o.slots \in Nat \ {0} /\ o.sameSide \in Nat /\ o.bars \in Nat
ASSUME AmountsAssumption ==
    /\ {MinutesPerBar, Lot, MarginUnit} \subseteq Nat \ {0}
    /\ {InitialBalance, Target, Risk, TakeProfit, Liq, BreakevenAt, Buffer, Trail, HardCap, MaxSl,
        AutoClose, LockAt, Lock, FillBuffer, EntryFee, ExitFee, Slip, FundingUnit} \subseteq Nat

VARIABLES
    opt,        \* the settings
    bar, minute,
    step,       \* where the main loop stands
    todo, path, \* symbols of the candle map to process; stages left of the current one
    closing,    \* positions the loop is closing, each with its price and the reason
    heard,      \* signals of the bar still to be placed
    positions, pending,
    books,      \* balance, margin used and locked, profit of the trades, funding paid
    fundedAt,
    trades, before,
    covered,    \* _1m_covered_symbols
    closes, ticks   \* closing prices in the candle map of the bar and of the minute

vars == <<opt, bar, minute, step, todo, path, closing, heard, positions, pending,
          books, fundedAt, trades, before, covered, closes, ticks>>
account == <<positions, pending, books, trades>>
loop == <<bar, minute, step, todo, closing, heard, fundedAt, before, covered, closes, ticks>>

Min2(x, y) == IF x <= y THEN x ELSE y
Max2(x, y) == IF x >= y THEN x ELSE y

\* The first minute of a bar begins with it.
Clock == bar * MinutesPerBar + Max2(0, minute - 1)
Held == {s \in Symbols : positions[s] # None}
Ordered == {s \in Symbols : pending[s] # None}
Idle == [symbol |-> None, stages |-> <<>>]
Unknown == [s \in Symbols |-> None]
Dead == bar \in opt.dead

Toward(side) == IF side = "LONG" THEN 1 ELSE -1
Gain(p, price) == Toward(p.side) * (price - p.entry)
PriceAt(p, gain) == p.entry + Toward(p.side) * gain

Margin(x) == x.size * MarginUnit
Available == Max2(0, books.balance - books.used - books.locked)
Slot == (IF opt.noCompound THEN InitialBalance ELSE books.balance) \div opt.slots

-------------------------------------------------------------------------------
(* Opening, reducing and closing a position.                               *)

Position == [side : {"LONG", "SHORT"}, entry : Int, at : Nat, stop : Int, tp : Int,
             size : Nat, left : Nat \ {0}, hits : Nat, breakeven : BOOLEAN, best : Int]
Order == [side : {"LONG", "SHORT"}, type : {"LIMIT", "MARKET"}, size : Nat \ {0},
          confidence : Nat, placed : Nat, triggered : BOOLEAN]

ASSUME NoneAssumption == None \notin Position \cup Order \cup Int

\* The stop keeps its distance from the price that was paid, the target does not.
Filled(o, price, slip) ==
    LET entry == price + Toward(o.side) * slip
    IN [side |-> o.side, entry |-> entry, at |-> Clock, stop |-> -Risk,
        tp |-> TakeProfit - Toward(o.side) * (entry - Target),
        size |-> o.size, left |-> o.size, hits |-> 0, breakeven |-> FALSE, best |-> 0]

\* Mutant: the order that was filled is still pending.
FillStillPending(s, price, slip) ==
    LET o == pending[s] IN
    /\ positions' = [positions EXCEPT ![s] = Filled(o, price, slip)]
    /\ books' = [books EXCEPT !.balance = @ - EntryFee * o.size,
                              !.locked = Max2(0, @ - Margin(o)), !.used = @ + Margin(o)]
    /\ UNCHANGED <<pending, trades>>

Fill(s, price, slip) ==
    LET o == pending[s] IN
    /\ positions' = [positions EXCEPT ![s] = Filled(o, price, slip)]
    /\ pending' = [pending EXCEPT ![s] = None]
    /\ books' = [books EXCEPT !.balance = @ - EntryFee * o.size,
                              !.locked = Max2(0, @ - Margin(o)), !.used = @ + Margin(o)]
    /\ UNCHANGED trades

Cancel(s) ==
    /\ pending' = [pending EXCEPT ![s] = None]
    /\ books' = [books EXCEPT !.locked = Max2(0, @ - Margin(pending[s]))]

\* What a trade adds to the balance, and to the profits it is listed with: the listed
\* profit bears its share of the entry fee, which the balance has paid before.
Booked(b, net, part, released) ==
    [b EXCEPT !.balance = @ + net, !.booked = @ + net - EntryFee * part,
              !.used = Max2(0, @ - released)]
Recorded(reason) ==
    Append(trades, [at |-> Clock, reason |-> reason, by |-> step, told |-> 0])
Proceeds(gain, part, slip) == (gain - slip - ExitFee) * part

Close(s, gain, slip, reason) ==
    LET p == positions[s] IN
    /\ books' = Booked(books, Proceeds(gain, p.left, slip), p.left, Margin(p))
    /\ positions' = [positions EXCEPT ![s] = None]
    /\ trades' = Recorded(reason)
    /\ UNCHANGED pending

Liquidate(s) ==
    LET p == positions[s] IN
    /\ books' = Booked(books, -Margin(p), p.left, Margin(p))
    /\ positions' = [positions EXCEPT ![s] = None]
    /\ trades' = Recorded("LIQUIDATION")
    /\ UNCHANGED pending

\* A part is a share of the whole quantity and is limited by what is left.
Part(p, percent) == Min2((p.size * percent) \div 100, p.left)
PartTaken(p, part) ==
    [p EXCEPT !.left = @ - part, !.hits = @ + 1, !.stop = 0, !.breakeven = TRUE]

\* Mutant: a part gives its share of the margin back, and the rest the whole margin.
TakePartSharing(s, gain, part, q, reason) ==
    LET all == q.left = 0 IN
    /\ books' = Booked(books, Proceeds(gain, part, Slip), part,
                       IF all THEN Margin(q) ELSE part * MarginUnit)
    /\ positions' = [positions EXCEPT ![s] = IF all THEN None ELSE q]
    /\ trades' = Recorded(reason)
    /\ UNCHANGED pending

\* The margin is given back when nothing is left.
TakePart(s, gain, part, q, reason) ==
    LET all == q.left = 0 IN
    /\ books' = Booked(books, Proceeds(gain, part, Slip), part, IF all THEN Margin(q) ELSE 0)
    /\ positions' = [positions EXCEPT ![s] = IF all THEN None ELSE q]
    /\ trades' = Recorded(reason)
    /\ UNCHANGED pending

-------------------------------------------------------------------------------
(* What moves a stop without closing anything.                             *)

Watched(p, g) == [p EXCEPT !.best = Max2(@, g)]
LockedIn(p, g) ==
    IF opt.lock /\ g * p.left >= LockAt * p.size
    THEN [p EXCEPT !.stop = Max2(@, Lock)] ELSE p
AtBreakeven(p, g) ==
    IF ~p.breakeven /\ g >= BreakevenAt
    THEN [p EXCEPT !.stop = Buffer, !.breakeven = TRUE] ELSE p
Trailed(p) == IF p.hits > 0 THEN [p EXCEPT !.stop = Max2(@, p.best - Trail)] ELSE p

-------------------------------------------------------------------------------
(* The stages of a candle: four prices in an order, and in a replayed bar  *)
(* the stop and the liquidation price as checkpoints among them.           *)

At(stage, price) == <<[stage |-> stage, price |-> price]>>
BasePath(lowFirst, c) ==
    At("OPEN", c.open)
    \o (IF lowFirst THEN At("LOW", c.low) \o At("HIGH", c.high)
                    ELSE At("HIGH", c.high) \o At("LOW", c.low))
    \o At("CLOSE", c.close)

LowFirst(s, c) == IF opt.adversarial /\ s \in Held THEN positions[s].side = "LONG"
                                                   ELSE c.close >= c.open

Reached(stage, price, c) == IF c.low <= price /\ price <= c.high THEN At(stage, price) ELSE <<>>
StopCheck(p, c) == Reached("SL_CHECK", PriceAt(p, p.stop), c)
LiqCheck(p, c) == Reached("LIQ_CHECK", PriceAt(p, -Liq), c)

\* Mutant: the further checkpoint comes first.
CheckpointsFar(p, c) ==
    IF p.stop >= -Liq THEN LiqCheck(p, c) \o StopCheck(p, c) ELSE StopCheck(p, c) \o LiqCheck(p, c)

\* The one nearer to the entry comes first.
Checkpoints(p, c) ==
    IF p.stop >= -Liq THEN StopCheck(p, c) \o LiqCheck(p, c) ELSE LiqCheck(p, c) \o StopCheck(p, c)

Path(s, c) ==
    IF s \notin Held THEN BasePath(LowFirst(s, c), c)
    ELSE IF LowFirst(s, c)
         THEN At("OPEN", c.open) \o Checkpoints(positions[s], c)
              \o At("LOW", c.low) \o At("HIGH", c.high) \o At("CLOSE", c.close)
         ELSE At("OPEN", c.open) \o At("HIGH", c.high) \o Checkpoints(positions[s], c)
              \o At("LOW", c.low) \o At("CLOSE", c.close)

\* A position is left alone in the candle it was opened in. With one-minute monitoring
\* a replayed bar only looks at the close of positions the minutes have never covered.
Stages(s, c) ==
    IF s \in Ordered THEN Path(s, c)
    ELSE IF positions[s].at = Clock THEN <<>>
    ELSE IF step = "minute" THEN BasePath(LowFirst(s, c), c)
    ELSE IF ~opt.minutes THEN Path(s, c)
    ELSE IF s \in covered THEN <<>>
    ELSE At("CLOSE", c.close)

Walked == IF Len(path.stages) <= 1 THEN Idle ELSE [path EXCEPT !.stages = Tail(@)]
Stage == Head(path.stages).stage
Price == Head(path.stages).price
AtStage == path.stages # <<>>

StartSymbol(s) ==
    /\ step \in {"update", "minute"} /\ ~AtStage /\ s \in todo
    /\ todo' = todo \ {s}
    /\ \E c \in opt.market :
         /\ path' = IF Stages(s, c) = <<>> THEN Idle ELSE [symbol |-> s, stages |-> Stages(s, c)]
         /\ IF step = "minute" THEN ticks' = [ticks EXCEPT ![s] = c.close] /\ UNCHANGED closes
                               ELSE closes' = [closes EXCEPT ![s] = c.close] /\ UNCHANGED ticks
    /\ UNCHANGED <<opt, bar, minute, step, closing, heard, account, fundedAt, before, covered>>

NoCandle(s) ==
    /\ step = "update" /\ ~AtStage /\ s \in todo
    /\ todo' = todo \ {s}
    /\ UNCHANGED <<opt, bar, minute, step, path, closing, heard, account, fundedAt, before,
                   covered, closes, ticks>>

-------------------------------------------------------------------------------
(* One stage of a symbol whose order is pending.                           *)

Crossed(o) == Toward(o.side) * (Target - Price) > FillBuffer
TriggeredSide(o) == Toward(o.side) * (Target - Price) >= 0
Expired(o) == opt.ttl > 0 /\ bar - o.placed > opt.ttl
OrderStage == AtStage /\ path.symbol \in Ordered

CancelOrder ==
    LET o == pending[path.symbol] IN
    /\ OrderStage /\ (Expired(o) \/ Dead)
    /\ Cancel(path.symbol) /\ path' = Idle
    /\ UNCHANGED <<opt, loop, positions, trades>>

\* The rest of the path does nothing: the position was opened in this candle.
FillOrder ==
    LET s == path.symbol  o == pending[s] IN
    /\ OrderStage /\ ~Expired(o) /\ ~Dead
    /\ \/ o.type = "MARKET" /\ Stage = "OPEN" /\ Fill(s, Price, Slip)
       \/ o.type = "LIMIT" /\ ~opt.chase /\ Crossed(o) /\ Fill(s, Target, Slip)
       \/ /\ o.type = "LIMIT" /\ opt.chase /\ Stage = "CLOSE" /\ (o.triggered \/ Crossed(o))
          /\ IF TriggeredSide(o) THEN Fill(s, Target, 0) ELSE Fill(s, Price, Slip)
    /\ path' = Idle
    /\ UNCHANGED <<opt, loop>>

OrderWaits ==
    LET s == path.symbol  o == pending[s] IN
    /\ OrderStage /\ ~Expired(o) /\ ~Dead /\ o.type = "LIMIT"
    /\ \/ ~Crossed(o) /\ (opt.chase => Stage # "CLOSE" \/ ~o.triggered) /\ UNCHANGED pending
       \/ opt.chase /\ Crossed(o) /\ Stage # "CLOSE"
          /\ pending' = [pending EXCEPT ![s].triggered = TRUE]
    /\ path' = Walked
    /\ UNCHANGED <<opt, loop, positions, books, trades>>

-------------------------------------------------------------------------------
(* One stage of a symbol with a position. The checks are made in the order *)
(* of these sequences and the first that applies decides.                  *)

AutoCloses(p, g) == opt.autoClose /\ g * p.left > AutoClose * p.size

\* Mutant: stops that are checked at the close only are not checked at all.
BarChecksOpen(p, g) == <<
    <<"LIQUIDATION", g <= -Liq>>,
    <<"TIME_EXIT", opt.timeExit > 0 /\ Clock - p.at > opt.timeExit /\ g < 0>>,
    <<"STOP", ~opt.closeOnly /\ g <= p.stop>>,
    <<"HARD_CAP", opt.closeOnly /\ Stage # "CLOSE" /\ g <= -HardCap>>,
    <<"AUTO_CLOSE", AutoCloses(p, g)>>,
    <<"TAKE_PROFIT", p.hits = 0 /\ g >= p.tp>> >>

BarChecks(p, g) == <<
    <<"LIQUIDATION", g <= -Liq>>,
    <<"TIME_EXIT", opt.timeExit > 0 /\ Clock - p.at > opt.timeExit /\ g < 0>>,
    <<"STOP", (opt.closeOnly => Stage = "CLOSE") /\ g <= p.stop>>,
    <<"HARD_CAP", opt.closeOnly /\ Stage # "CLOSE" /\ g <= -HardCap>>,
    <<"AUTO_CLOSE", AutoCloses(p, g)>>,
    <<"TAKE_PROFIT", p.hits = 0 /\ g >= p.tp>> >>

MinuteChecks(p, g) == <<
    <<"LIQUIDATION", g <= -Liq>>,
    <<"HARD_CAP", g <= -HardCap>>,
    <<"TAKE_PROFIT", p.hits = 0 /\ g >= p.tp>>,
    <<"AUTO_CLOSE", opt.ticks /\ AutoCloses(p, g)>>,
    <<"STOP", Stage = "CLOSE" /\ g <= LockedIn(p, g).stop>>,
    <<"AUTO_CLOSE", Stage = "CLOSE" /\ AutoCloses(p, g)>> >>

UncoveredChecks(p, g) == <<
    <<"HARD_CAP", g <= -HardCap>>,
    <<"MAX_SL", opt.closeOnly /\ g <= -MaxSl>>,
    <<"AUTO_CLOSE", opt.autoClose /\ g >= AutoClose>> >>

Checks(p, g) == IF step = "minute" THEN MinuteChecks(p, g)
                ELSE IF opt.minutes THEN UncoveredChecks(p, g) ELSE BarChecks(p, g)

Verdict(p, g) ==
    LET checks == Checks(p, g)
        hits == {i \in DOMAIN checks : checks[i][2]}
    IN IF hits = {} THEN "HOLD" ELSE checks[Min(hits)][1]

PositionStage(verdict) ==
    /\ AtStage /\ path.symbol \in Held
    /\ Verdict(positions[path.symbol], Gain(positions[path.symbol], Price)) = verdict
    /\ UNCHANGED <<opt, loop>>

Liquidated ==
    /\ PositionStage("LIQUIDATION")
    /\ Liquidate(path.symbol) /\ path' = Idle

\* The code leaves at the worse of the price and the stop, which is the price: the check
\* applies when the price has reached the stop.
Stopped ==
    LET s == path.symbol  g == Gain(positions[s], Price) IN
    /\ \/ PositionStage("STOP") /\ Close(s, g, Slip, "STOP")
       \/ PositionStage("TIME_EXIT") /\ Close(s, g, Slip, "TIME_EXIT")
       \/ PositionStage("HARD_CAP") /\ Close(s, -HardCap, Slip, "HARD_CAP")
       \/ PositionStage("MAX_SL") /\ Close(s, -MaxSl, Slip, "STOP")
    /\ path' = Idle

\* Before the close of a candle, and on a tick, the threshold is the price. A part is
\* taken at a close, but not when a bar is replayed for a position without minutes.
AutoClosed ==
    LET s == path.symbol  p == positions[s]  g == Gain(p, Price)
        first == opt.ticks /\ step = "minute"
        price == IF opt.atThreshold \/ first \/ Stage # "CLOSE" THEN AutoClose ELSE g
        seen == IF step = "minute" THEN LockedIn(Watched(p, g), g) ELSE Watched(p, g)
        part == Part(p, 50)
    IN /\ PositionStage("AUTO_CLOSE")
       /\ IF opt.partial /\ ~first /\ Stage = "CLOSE" /\ (step = "minute" \/ ~opt.minutes)
          THEN TakePart(s, price, part, PartTaken(seen, part), "AUTO_CLOSE_PARTIAL")
          ELSE Close(s, price, Slip, "AUTO_CLOSE")
       /\ path' = Idle

\* The replay of a bar goes on with what is left, and trails its stop at once.
TookProfit ==
    LET s == path.symbol  p == positions[s]  g == Gain(p, Price)
        part == Part(p, IF opt.fullTp THEN 100 ELSE 60)
        q == PartTaken(Watched(p, g), part)
        on == step # "minute" /\ q.left > 0
    IN /\ PositionStage("TAKE_PROFIT")
       /\ TakePart(s, p.tp, part, IF on THEN Trailed(q) ELSE q, "TAKE_PROFIT")
       /\ path' = IF on THEN Walked ELSE Idle

Holds ==
    LET s == path.symbol  p == positions[s]  g == Gain(p, Price)
        seen == LockedIn(Watched(p, g), g)
        moved == IF step = "minute"
                 THEN IF Stage = "CLOSE" THEN Trailed(AtBreakeven(seen, g)) ELSE seen
                 ELSE IF opt.minutes THEN p ELSE Trailed(AtBreakeven(seen, g))
    IN /\ PositionStage("HOLD")
       /\ positions' = [positions EXCEPT ![s] = moved]
       /\ path' = Walked
       /\ UNCHANGED <<pending, books, trades>>

-------------------------------------------------------------------------------
(* The main loop.                                                          *)

Default ==
    [symbols |-> Symbols, market |-> Candles, bars |-> 2, slots |-> 1, sameSide |-> 0,
     minutes |-> FALSE, adversarial |-> FALSE, closeOnly |-> FALSE, fullTp |-> FALSE,
     autoClose |-> FALSE, atThreshold |-> FALSE, ticks |-> FALSE, partial |-> FALSE,
     lock |-> FALSE, noCompound |-> FALSE, recycle |-> FALSE, reversal |-> FALSE,
     chase |-> FALSE, deadClose |-> FALSE, dead |-> {}, target |-> 0, ttl |-> 0,
     timeExit |-> 0]

Init ==
    /\ opt \in Options
    /\ bar = 0 /\ minute = 0 /\ step = "bar"
    /\ todo = {} /\ path = Idle /\ closing = {} /\ heard = {}
    /\ positions = Unknown /\ pending = Unknown
    /\ books = [balance |-> InitialBalance, used |-> 0, locked |-> 0, booked |-> 0, paid |-> 0]
    /\ fundedAt = 0 /\ trades = <<>> /\ before = 0
    /\ covered = {} /\ closes = Unknown /\ ticks = Unknown

FundingDue == Held # {} /\ fundedAt > 0 /\ bar + 1 - fundedAt >= FundingBars

\* At a positive rate longs pay shorts. The first bar that finds a position open starts
\* the clock and pays nothing.
Funding ==
    /\ fundedAt' = IF Held # {} /\ (fundedAt = 0 \/ FundingDue) THEN bar + 1 ELSE fundedAt
    /\ IF FundingDue
       THEN \E rate \in [Held -> {-FundingUnit, FundingUnit}] :
              LET paid == SumFunction([s \in Held |-> Toward(positions[s].side) * rate[s]
                                                      * positions[s].left])
              IN books' = [books EXCEPT !.balance = @ - paid, !.paid = @ + paid]
       ELSE UNCHANGED books

NextBar ==
    /\ step = "bar" /\ closing = {} /\ bar < opt.bars
    /\ bar' = bar + 1 /\ minute' = 0 /\ step' = "update"
    /\ Funding
    /\ todo' = Held \cup Ordered /\ closes' = Unknown
    /\ UNCHANGED <<opt, path, closing, heard, positions, pending, trades, before, covered, ticks>>

\* The circuit breaker is told of the trades whose exit time is that of the bar.
Told(due(_)) == [i \in DOMAIN trades |->
                   IF due(i) THEN [trades[i] EXCEPT !.told = @ + 1] ELSE trades[i]]

\* Mutant: the trades of earlier bars are told again.
TellOfBarAgain ==
    /\ step = "update" /\ todo = {} /\ ~AtStage
    /\ LET due(i) == trades[i].at <= Clock IN trades' = Told(due)
    /\ before' = Len(trades)
    /\ step' = IF opt.minutes THEN "minutes" ELSE "signals"
    /\ UNCHANGED <<opt, bar, minute, todo, path, closing, heard, positions, pending, books,
                   fundedAt, covered, closes, ticks>>

TellOfBar ==
    /\ step = "update" /\ todo = {} /\ ~AtStage
    /\ LET due(i) == trades[i].at = Clock IN trades' = Told(due)
    /\ before' = Len(trades)
    /\ step' = IF opt.minutes THEN "minutes" ELSE "signals"
    /\ UNCHANGED <<opt, bar, minute, todo, path, closing, heard, positions, pending, books,
                   fundedAt, covered, closes, ticks>>

\* A minute with candles of the symbols in "present". Without a position it does nothing;
\* in a dead zone it closes everything, at the entry price where it has no candle.
StartMinute ==
    /\ step = "minutes" /\ closing = {} /\ Held # {} /\ minute < MinutesPerBar
    /\ \E present \in SUBSET opt.symbols \ {{}} :
         IF opt.deadClose /\ Dead
         THEN /\ \E price \in [Held -> {c.close : c \in opt.market}] :
                   closing' = {[symbol |-> s, reason |-> "DZ_FORCE_CLOSE", price |->
                                IF s \in present THEN price[s] ELSE positions[s].entry] : s \in Held}
              /\ UNCHANGED <<todo, covered>>
         ELSE /\ todo' = Held \cap present
              /\ covered' = covered \cup present
              /\ UNCHANGED closing
    /\ ticks' = Unknown /\ step' = "minute" /\ minute' = minute + 1
    /\ UNCHANGED <<opt, bar, path, heard, account, fundedAt, before, closes>>

\* There is no candle at all in this minute.
SkipMinute ==
    /\ step = "minutes" /\ closing = {} /\ Held # {} /\ minute < MinutesPerBar
    /\ minute' = minute + 1
    /\ UNCHANGED <<opt, bar, step, todo, path, closing, heard, account, fundedAt, before,
                   covered, closes, ticks>>

Unrealised(prices) ==
    SumFunction([s \in {x \in Held : prices[x] # None} |->
                   Gain(positions[s], prices[s]) * positions[s].left])
TargetHit(prices) == opt.target > 0 /\ Unrealised(prices) >= opt.target
Closing(symbols, prices, reason) ==
    {[symbol |-> s, reason |-> reason, price |-> prices[s]] : s \in {x \in symbols : prices[x] # None}}

EndMinute ==
    /\ step = "minute" /\ todo = {} /\ ~AtStage /\ closing = {}
    /\ step' = "minutes"
    /\ closing' = IF TargetHit(ticks) THEN Closing(Held, ticks, "PORTFOLIO_TARGET") ELSE {}
    /\ UNCHANGED <<opt, bar, minute, todo, path, heard, account, fundedAt, before, covered,
                   closes, ticks>>

TellOfMinutes ==
    /\ step = "minutes" /\ closing = {} /\ (Held = {} \/ minute = MinutesPerBar)
    /\ LET due(i) == i > before IN trades' = Told(due)
    /\ minute' = 0 /\ step' = "signals"
    /\ UNCHANGED <<opt, bar, todo, path, closing, heard, positions, pending, books, fundedAt,
                   before, covered, closes, ticks>>

CloseNext ==
    \E x \in closing :
      /\ Close(x.symbol, Gain(positions[x.symbol], x.price),
               IF x.reason = "END_OF_DATA" THEN 0 ELSE Slip, x.reason)
      /\ closing' = closing \ {x}
      /\ UNCHANGED <<opt, bar, minute, step, todo, path, heard, fundedAt, before, covered,
                     closes, ticks>>

-------------------------------------------------------------------------------
(* The signals of a bar. Which of them the generator, the circuit breaker  *)
(* and the filters let through is open; a symbol needs a candle in the bar.*)

Exhausted == opt.noCompound /\ Held = {} /\ Ordered = {} /\ Available < Slot
Busy == Held \cup Ordered
Batches ==
    {b \in SUBSET {x \in Signals : x.symbol \in opt.symbols} :
       /\ Dead => b = {}
       /\ \A x, y \in b : x.symbol = y.symbol => x = y
       /\ \A x \in b : x.symbol \in Busy => closes[x.symbol] # None}

Reverses(x) ==
    opt.reversal /\ x.confidence >= Reversal /\ x.symbol \in Held
    /\ positions[x.symbol].side # x.side

SignalsArrive ==
    /\ step = "signals"
    /\ \/ Exhausted /\ step' = "end" /\ UNCHANGED <<closing, heard>>
       \/ /\ ~Exhausted /\ step' = "batch"
          /\ \E b \in Batches :
               /\ heard' = b
               /\ closing' = Closing({x.symbol : x \in {y \in b : Reverses(y)}}, closes,
                                     "SIGNAL_REVERSAL")
    /\ UNCHANGED <<opt, bar, minute, todo, path, account, fundedAt, before, covered, closes, ticks>>

SideOf(s) == IF s \in Held THEN positions[s].side ELSE pending[s].side
Same(side) == Cardinality({s \in Busy : SideOf(s) = side})
Free == opt.slots - Cardinality(Busy)

\* The signals the same-direction filter lets through: the first ones of each side in the
\* order of the symbols, so as many as it still has room for.
Filtered(b) ==
    {k \in SUBSET b : opt.sameSide > 0 =>
        \A side \in {"LONG", "SHORT"} :
           Cardinality({x \in k : x.side = side})
             = Min2(Cardinality({x \in b : x.side = side}), Max2(0, opt.sameSide - Same(side)))}
Passing(b) == IF opt.sameSide > 0 THEN Filtered(b) ELSE {b}
Candidates(k) == {x \in k : x.symbol \notin Busy}
Best(xs) == {x \in xs : \A y \in xs : y.confidence <= x.confidence}

Admit(k) ==
    /\ Free > 0
    /\ \E taken \in SUBSET Candidates(k) :
         /\ Cardinality(taken) = Min2(Free, Cardinality(Candidates(k)))
         /\ \A x \in taken, y \in Candidates(k) \ taken : x.confidence >= y.confidence
         /\ heard' = taken
    /\ UNCHANGED account

\* The orders that may give way: those not near the latest price, which is any price for a
\* symbol without a candle in this bar.
Recyclable ==
    {{s \in Ordered : IF closes[s] = None THEN s \notin near
                      ELSE closes[s] - Target >= Near \/ Target - closes[s] >= Near}
       : near \in SUBSET Ordered}

Recycle(k) ==
    /\ Free <= 0 /\ opt.recycle
    /\ \E may \in Recyclable : \E worst \in may :
         /\ \A s \in may : pending[worst].confidence <= pending[s].confidence
         /\ \E x \in Best({y \in Candidates(k) : y.confidence * 10 > pending[worst].confidence * 11}) :
              heard' = {x}
         /\ Cancel(worst)
    /\ UNCHANGED <<positions, trades>>

KeepsAll(k) ==
    /\ Free <= 0
    /\ opt.recycle =>
         \E may \in Recyclable : \A worst \in may :
            (\A s \in may : pending[worst].confidence <= pending[s].confidence)
            => \A x \in Candidates(k) : x.confidence * 10 <= pending[worst].confidence * 11
    /\ heard' = {}
    /\ UNCHANGED account

Batch ==
    /\ step = "batch" /\ closing = {}
    /\ \E k \in Passing(heard) : Admit(k) \/ Recycle(k) \/ KeepsAll(k)
    /\ step' = "place"
    /\ UNCHANGED <<opt, bar, minute, todo, path, closing, fundedAt, before, covered, closes, ticks>>

\* Half a slot where the time of day or a losing day halves the size.
Capital(x) == Min2(Slot, Available) \div (IF x.half THEN 2 ELSE 1)
Size(x) == ((Capital(x) \div MarginUnit) \div Lot) * Lot
Affordable(x) == Available > 0 /\ (opt.noCompound => Available >= Slot) /\ Size(x) > 0

PlaceNext ==
    /\ step = "place"
    /\ \E x \in Best(heard) :
         /\ heard' = heard \ {x}
         /\ IF Affordable(x)
            THEN /\ pending' = [pending EXCEPT ![x.symbol] =
                      [side |-> x.side, type |-> x.type, size |-> Size(x),
                       confidence |-> x.confidence, placed |-> bar, triggered |-> FALSE]]
                 /\ books' = [books EXCEPT !.locked = @ + Size(x) * MarginUnit]
            ELSE UNCHANGED <<pending, books>>
    /\ UNCHANGED <<opt, bar, minute, step, todo, path, closing, positions, fundedAt, trades,
                   before, covered, closes, ticks>>

EndBar ==
    /\ step = "place" /\ heard = {}
    /\ step' = "bar"
    /\ closing' = IF TargetHit(closes) THEN Closing(Held, closes, "PORTFOLIO_TARGET") ELSE {}
    /\ UNCHANGED <<opt, bar, minute, todo, path, heard, account, fundedAt, before, covered,
                   closes, ticks>>

\* What is open is closed at the last price. With one-minute candles a symbol that has none
\* in the last minute stays open.
LastPrices ==
    LET last == IF opt.minutes THEN ticks ELSE closes
        any == {c.close : c \in opt.market} \cup (IF opt.minutes THEN {None} ELSE {})
    IN {p \in [Symbols -> any \cup {None}] :
          \A s \in Symbols : IF last[s] # None THEN p[s] = last[s]
                             ELSE IF s \in Held THEN p[s] \in any ELSE p[s] = None}

EndOfData ==
    /\ \/ step = "bar" /\ closing = {} /\ bar = opt.bars
       \/ step = "end"
    /\ \E p \in LastPrices : closing' = Closing(Held, p, "END_OF_DATA")
    /\ step' = "done"
    /\ UNCHANGED <<opt, bar, minute, todo, path, heard, account, fundedAt, before, covered,
                   closes, ticks>>

Done == step = "done" /\ closing = {} /\ UNCHANGED vars

Next ==
    \/ NextBar \/ TellOfBar \/ StartMinute \/ SkipMinute \/ EndMinute \/ TellOfMinutes
    \/ CloseNext \/ SignalsArrive \/ Batch \/ PlaceNext \/ EndBar \/ EndOfData \/ Done
    \/ \E s \in Symbols : StartSymbol(s) \/ NoCandle(s)
    \/ CancelOrder \/ FillOrder \/ OrderWaits
    \/ Liquidated \/ Stopped \/ AutoClosed \/ TookProfit \/ Holds

Spec == Init /\ [][Next]_vars

-------------------------------------------------------------------------------
(* Properties.                                                             *)

Money == [balance : Int, used : Nat, locked : Nat, booked : Int, paid : Int]
Reason == {"LIQUIDATION", "STOP", "TIME_EXIT", "HARD_CAP", "AUTO_CLOSE", "AUTO_CLOSE_PARTIAL",
           "TAKE_PROFIT", "DZ_FORCE_CLOSE", "PORTFOLIO_TARGET", "SIGNAL_REVERSAL", "END_OF_DATA"}
Trade == [at : Nat, reason : Reason, by : {"update", "minute", "minutes", "batch", "bar", "done"},
          told : Nat]

\* The account is a record of money, an order or a position exists for symbols that are
\* traded and never both for one, and the loop only walks a path of a busy symbol.
TypeOK ==
    /\ books \in Money
    /\ positions \in [Symbols -> Position \cup {None}]
    /\ pending \in [Symbols -> Order \cup {None}]
    /\ trades \in Seq(Trade)
    /\ Held \cap Ordered = {} /\ Held \cup Ordered \subseteq opt.symbols
    /\ AtStage => path.symbol \in Held \cup Ordered
    /\ \A x \in closing : x.symbol \in Held

\* The margin that is used and locked is that of the open positions and pending orders,
\* whatever was filled, cancelled, closed in parts, recycled or liquidated.
MarginBooked ==
    /\ books.used = SumFunction([s \in Held |-> Margin(positions[s])])
    /\ books.locked = SumFunction([s \in Ordered |-> Margin(pending[s])])

\* The balance is what it began with, plus the listed profits, less the funding and less the
\* entry fees of what is still open: no partial close bears a fee twice or not at all.
BalanceExplained ==
    books.balance = InitialBalance + books.booked - books.paid
                    - EntryFee * SumFunction([s \in Held |-> positions[s].left])

\* Positions and orders together never take more slots, nor one side more than its share.
SlotsKept ==
    /\ Cardinality(Busy) <= opt.slots
    /\ opt.sameSide > 0 => \A side \in {"LONG", "SHORT"} : Same(side) <= opt.sameSide

\* The account of the simulator (update, process_batch_signals and every close) is sound.
AccountSound == MarginBooked /\ BalanceExplained /\ SlotsKept

\* A position that was open when a bar began and survives its replay has not closed the bar
\* at or beyond its stop, however the stop moved within the bar.
StopsHonoured ==
    step = "signals" /\ ~opt.minutes =>
        \A s \in Held : positions[s].at < Clock /\ closes[s] # None
                          => Gain(positions[s], closes[s]) > positions[s].stop

\* In the replay of a bar a position whose stop is checked at every price, and whose first
\* stop lies before the liquidation price, is stopped before it is liquidated. There are
\* three exceptions: the bar opens beyond the liquidation price; a short is walked high
\* first, since the checkpoints come after HIGH; a part that is taken puts the stop at the
\* entry again, below breakeven, and the checkpoint of the former stop is passed.
StopBeforeLiquidation ==
    [][Len(trades') > Len(trades) /\ trades'[Len(trades')].reason = "LIQUIDATION"
         /\ step = "update" /\ ~opt.closeOnly /\ ~opt.lock /\ Risk < Liq
       => LET p == positions[path.symbol] IN
          \/ Stage = "OPEN"
          \/ Stage = "HIGH" /\ p.side = "SHORT"
          \/ p.hits > 0 /\ p.stop < Buffer]_vars

\* No trade is told to the circuit breaker twice, and once the replay of a bar and of its
\* minutes is over every trade they made has been told.
EachTradeToldOnce ==
    \A i \in DOMAIN trades :
        /\ trades[i].told <= 1
        /\ step = "signals" /\ trades[i].by \in {"update", "minute", "minutes"} => trades[i].told = 1

===============================================================================
