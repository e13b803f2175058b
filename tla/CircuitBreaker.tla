----------------------------- MODULE CircuitBreaker -----------------------------
(***************************************************************************)
(* The circuit breaker: it is told every closed trade and the wallet       *)
(* balance, and answers whether a symbol may be entered on a side.  Time   *)
(* is counted in whole units; a day has DayLength of them.  The histories  *)
(* trades and sightings are auxiliary: the breaker keeps only counters,    *)
(* pruned lists and deadlines, and the properties compare these with what  *)
(* the history calls for.                                                  *)
(***************************************************************************)
EXTENDS Integers, Sequences, FiniteSets

CONSTANTS
    Symbols, Side,
    DayLength,
    MaxLosses, Cooldown,        \* consecutive losses of a symbol on a side
    Schedule,                   \* escalation: pairs of losses and cooldown
    SideLimit, SideWindow, SideCooldown,                        \* quarantine of a symbol on a side
    DirectionThreshold, DirectionWindow, DirectionCooldown,     \* block of a side
    DailyLimit, DailyCooldown,  \* losses of a symbol in a day; 0: to the end of the day
    Drawdown,                   \* percent of the day's first balance
    BlockedWindows, Offset,     \* dead zones, pairs of local times; local minus UTC time
    Balances,
    MaxClock, MaxCalls      \* bounds: the time that passes, the calls that report

ASSUME TimeAssumption == DayLength \in Nat \ {0} /\ MaxClock \in Nat /\ MaxCalls \in Nat
ASSUME StreakAssumption ==
    MaxLosses \in Nat \ {0} /\ Cooldown \in Nat /\ Schedule \subseteq Nat \X Nat
ASSUME WindowAssumption ==
    /\ SideLimit \in Nat /\ SideWindow \in Nat /\ SideCooldown \in Nat
    /\ DirectionThreshold \in Nat /\ DirectionWindow \in Nat /\ DirectionCooldown \in Nat
    /\ DailyLimit \in Nat /\ DailyCooldown \in Nat
ASSUME BalanceAssumption == Drawdown \in Int /\ Balances \subseteq Int
\* The ends of a dead zone are times on a clock's face (24:00 is written 00:00).
ASSUME DeadZoneAssumption ==
    Offset \in Int /\ BlockedWindows \subseteq (0 .. DayLength - 1) \X (0 .. DayLength - 1)

VARIABLES
    clock,
    losses,                 \* state[symbol][side]['losses']
    blockedUntil,           \* state[symbol][side]['blocked_until'], 0 for None
    windowBlockedUntil,     \* state[symbol][side]['window_blocked_until'], 0 for None
    sideLosses,             \* _symbol_side_losses: times, told apart by the trade's number
    directionLosses,        \* _direction_losses
    directionBlockedUntil,  \* _direction_blocked_until, 0 for None
    dailyLosses,            \* _daily_losses
    startBalance,           \* daily_start_balance
    currentDay,             \* current_day, -1 for None
    globalBlockedUntil,     \* global_blocked_until, 0 for None
    trades, sightings       \* what the breaker was told

tradeVars == <<losses, blockedUntil, windowBlockedUntil, sideLosses,
               directionLosses, directionBlockedUntil, dailyLosses, trades>>
portfolioVars == <<startBalance, currentDay, globalBlockedUntil, sightings>>
vars == <<clock, losses, blockedUntil, windowBlockedUntil, sideLosses, directionLosses,
          directionBlockedUntil, dailyLosses, startBalance, currentDay, globalBlockedUntil,
          trades, sightings>>

Day(time) == time \div DayLength
Days == 0 .. Day(MaxClock)
Later(a, b) == IF a < b THEN b ELSE a

Outcome == {"win", "even", "loss"}
Trade == [symbol : Symbols, side : Side, outcome : Outcome, at : 0 .. MaxClock]

\* The breaker's tables keep their types.
TypeOK ==
    /\ clock \in 0 .. MaxClock
    /\ losses \in [Symbols -> [Side -> Nat]]
    /\ blockedUntil \in [Symbols -> [Side -> Nat]]
    /\ windowBlockedUntil \in [Symbols -> [Side -> Nat]]
    /\ sideLosses \in [Symbols -> [Side -> SUBSET ((0 .. MaxClock) \X Nat)]]
    /\ directionLosses \in [Side -> SUBSET (Symbols \X (0 .. MaxClock))]
    /\ directionBlockedUntil \in [Side -> Nat]
    /\ dailyLosses \in [Symbols -> [Days -> Nat]]
    /\ startBalance \in Balances \union {0}
    /\ currentDay \in Days \union {-1}
    /\ globalBlockedUntil \in Nat
    /\ trades \in Seq(Trade)
    /\ sightings \in Seq([balance : Balances, at : 0 .. MaxClock])

Init ==
    /\ clock = 0
    /\ losses = [s \in Symbols |-> [d \in Side |-> 0]]
    /\ blockedUntil = [s \in Symbols |-> [d \in Side |-> 0]]
    /\ windowBlockedUntil = [s \in Symbols |-> [d \in Side |-> 0]]
    /\ sideLosses = [s \in Symbols |-> [d \in Side |-> {}]]
    /\ directionLosses = [d \in Side |-> {}]
    /\ directionBlockedUntil = [d \in Side |-> 0]
    /\ dailyLosses = [s \in Symbols |-> [d \in Days |-> 0]]
    /\ startBalance = 0 /\ currentDay = -1 /\ globalBlockedUntil = 0
    /\ trades = <<>> /\ sightings = <<>>

--------------------------------------------------------------------------------
\* _get_cooldown_hours: the cooldown of the highest threshold reached.
CooldownAfter(n) ==
    LET reached == {p \in Schedule : n >= p[1]} IN
    IF reached = {} THEN Cooldown
    ELSE (CHOOSE p \in reached : \A q \in reached : q[1] <= p[1])[2]

\* Mutant: a win takes one loss back.
CountStreakDown(symbol, side, outcome) ==
    losses' = [losses EXCEPT ![symbol][side] = IF outcome = "win" THEN @ - 1 ELSE @ + 1]

\* Consecutive losses; a trade that earned nothing counts as one.
CountStreak(symbol, side, outcome) ==
    losses' = [losses EXCEPT ![symbol][side] = IF outcome = "win" THEN 0 ELSE @ + 1]

\* Mutant: a win starts the count again but leaves the block.
AfterStreakKept(symbol, side, outcome) ==
    IF outcome = "win" \/ losses[symbol][side] + 1 < MaxLosses
    THEN blockedUntil
    ELSE [blockedUntil EXCEPT ![symbol][side] = clock + CooldownAfter(losses[symbol][side] + 1)]

AfterStreak(symbol, side, outcome) ==
    CASE outcome = "win" -> [blockedUntil EXCEPT ![symbol][side] = 0]
      [] outcome # "win" /\ losses[symbol][side] + 1 >= MaxLosses ->
           [blockedUntil EXCEPT ![symbol][side] = clock + CooldownAfter(losses[symbol][side] + 1)]
      [] OTHER -> blockedUntil

\* _record_symbol_side_loss: the losses within the window are kept and counted.
RecordSymbolSideLoss(symbol, side, outcome) ==
    IF outcome = "loss" /\ SideLimit > 0
    THEN LET recent == {loss \in sideLosses[symbol][side] : loss[1] >= clock - SideWindow}
                         \union {<<clock, Len(trades) + 1>>}
         IN  /\ sideLosses' = [sideLosses EXCEPT ![symbol][side] = recent]
             /\ windowBlockedUntil' =
                  IF Cardinality(recent) >= SideLimit
                  THEN [windowBlockedUntil EXCEPT ![symbol][side] = Later(@, clock + SideCooldown)]
                  ELSE windowBlockedUntil
    ELSE UNCHANGED <<sideLosses, windowBlockedUntil>>

\* Mutant: losses that fell out of the window are not dropped.
RecordDirectionLossForever(symbol, side, outcome) ==
    IF outcome = "loss" /\ DirectionThreshold > 0
    THEN LET recent == directionLosses[side] \union {<<symbol, clock>>}
         IN  /\ directionLosses' = [directionLosses EXCEPT ![side] = recent]
             /\ directionBlockedUntil' =
                  IF Cardinality({loss[1] : loss \in recent}) >= DirectionThreshold
                  THEN [directionBlockedUntil EXCEPT ![side] = clock + DirectionCooldown]
                  ELSE directionBlockedUntil
    ELSE UNCHANGED <<directionLosses, directionBlockedUntil>>

\* Many symbols losing on one side within the window block the side.
RecordDirectionLoss(symbol, side, outcome) ==
    IF outcome = "loss" /\ DirectionThreshold > 0
    THEN LET recent == {loss \in directionLosses[side] \union {<<symbol, clock>>} :
                            loss[2] >= clock - DirectionWindow}
         IN  /\ directionLosses' = [directionLosses EXCEPT ![side] = recent]
             /\ directionBlockedUntil' =
                  IF Cardinality({loss[1] : loss \in recent}) >= DirectionThreshold
                  THEN [directionBlockedUntil EXCEPT ![side] = clock + DirectionCooldown]
                  ELSE directionBlockedUntil
    ELSE UNCHANGED <<directionLosses, directionBlockedUntil>>

DailyEnd(time) == IF DailyCooldown > 0 THEN time + DailyCooldown ELSE (Day(time) + 1) * DayLength

\* The losses of a symbol in a day, on both sides; at the limit both are blocked.
RecordDailyLoss(symbol, side, outcome) ==
    LET streaked == AfterStreak(symbol, side, outcome) IN
    IF outcome = "loss" /\ DailyLimit > 0
    THEN /\ dailyLosses' = [dailyLosses EXCEPT ![symbol][Day(clock)] = @ + 1]
         /\ blockedUntil' =
              IF dailyLosses'[symbol][Day(clock)] >= DailyLimit
              THEN [streaked EXCEPT ![symbol] = [d \in Side |-> Later(@[d], DailyEnd(clock))]]
              ELSE streaked
    ELSE blockedUntil' = streaked /\ UNCHANGED dailyLosses

\* record_trade_with_time
RecordTrade ==
    /\ Len(trades) + Len(sightings) < MaxCalls
    /\ \E symbol \in Symbols, side \in Side, outcome \in Outcome :
         /\ CountStreak(symbol, side, outcome)
         /\ RecordSymbolSideLoss(symbol, side, outcome)
         /\ RecordDirectionLoss(symbol, side, outcome)
         /\ RecordDailyLoss(symbol, side, outcome)
         /\ trades' = Append(trades, [symbol |-> symbol, side |-> side, outcome |-> outcome, at |-> clock])
    /\ UNCHANGED <<clock, portfolioVars>>

--------------------------------------------------------------------------------
Drawn(first, balance) == first > 0 /\ (first - balance) * 100 >= Drawdown * first

\* Mutant: the first balance of all is kept.
FirstOfDayKept(balance) == IF currentDay = -1 THEN balance ELSE startBalance

FirstOfDay(balance) == IF currentDay # Day(clock) THEN balance ELSE startBalance

\* update_portfolio_state, from every account update.
UpdatePortfolioState ==
    /\ Len(trades) + Len(sightings) < MaxCalls
    /\ \E balance \in Balances :
         /\ startBalance' = FirstOfDay(balance)
         /\ currentDay' = Day(clock)
         /\ globalBlockedUntil' =
              IF Drawn(startBalance', balance) /\ (globalBlockedUntil = 0 \/ clock > globalBlockedUntil)
              THEN clock + DayLength
              ELSE globalBlockedUntil
         /\ sightings' = Append(sightings, [balance |-> balance, at |-> clock])
    /\ UNCHANGED <<clock, tradeVars>>

Tick ==
    /\ clock < MaxClock
    /\ clock' = clock + 1
    /\ UNCHANGED <<tradeVars, portfolioVars>>

--------------------------------------------------------------------------------
\* Mutant: the side's block is asked before the quarantine and hides it.
IsBlockedEither(symbol, side) ==
    \/ clock < globalBlockedUntil
    \/ clock < directionBlockedUntil[side]
    \/ blockedUntil[symbol][side] = 0 /\ clock < windowBlockedUntil[symbol][side]
    \/ clock < blockedUntil[symbol][side]

IsBlocked(symbol, side) ==
    \/ clock < globalBlockedUntil
    \/ clock < directionBlockedUntil[side]
    \/ clock < windowBlockedUntil[symbol][side]
    \/ clock < blockedUntil[symbol][side]

\* Mutant: a window over midnight is taken for an empty one.
IsInBlockedWindowSameDay ==
    LET local == (clock + Offset) % DayLength IN
    \E w \in BlockedWindows : w[1] <= local /\ local < w[2]

\* is_in_blocked_window: a window may run over midnight.
IsInBlockedWindow ==
    LET local == (clock + Offset) % DayLength IN
    \E w \in BlockedWindows :
        IF w[1] <= w[2] THEN w[1] <= local /\ local < w[2]
                        ELSE w[1] <= local \/ local < w[2]

--------------------------------------------------------------------------------
Next == RecordTrade \/ UpdatePortfolioState \/ Tick

Spec == Init /\ [][Next]_vars

--------------------------------------------------------------------------------
\* What the histories call for.

Of(symbol, side) == {i \in DOMAIN trades : trades[i].symbol = symbol /\ trades[i].side = side}
LossesOf(symbol) == {i \in DOMAIN trades : trades[i].symbol = symbol /\ trades[i].outcome = "loss"}
LossesOn(side) == {i \in DOMAIN trades : trades[i].side = side /\ trades[i].outcome = "loss"}

\* The trades of a symbol and side up to i and since the last one it won.
Streak(symbol, side, i) ==
    {j \in Of(symbol, side) : j <= i /\ \A k \in Of(symbol, side) : j <= k /\ k <= i => trades[k].outcome # "win"}

\* What of a set of trades fell within the window that ends with trade i.
Within(indices, window, i) == {j \in indices : j <= i /\ trades[j].at >= trades[i].at - window}
OnDayOf(indices, i) == {j \in indices : j <= i /\ Day(trades[j].at) = Day(trades[i].at)}

\* Trade i set a deadline, and no win has cleared it since where a win does.
Streaks(symbol, side, i) ==
    /\ \A k \in Of(symbol, side) : k > i => trades[k].outcome # "win"
    /\ Cardinality(Streak(symbol, side, i)) >= MaxLosses
Quarantines(symbol, side, i) ==
    Cardinality(Within(Of(symbol, side) \intersect LossesOn(side), SideWindow, i)) >= SideLimit
TurnsSide(side, i) ==
    Cardinality({trades[j].symbol : j \in Within(LossesOn(side), DirectionWindow, i)}) >= DirectionThreshold
FillsDay(symbol, i) == Cardinality(OnDayOf(LossesOf(symbol), i)) >= DailyLimit

StreakEnd(symbol, side, i) == trades[i].at + CooldownAfter(Cardinality(Streak(symbol, side, i)))

ByStreak(symbol, side) ==
    \E i \in Of(symbol, side) : Streaks(symbol, side, i) /\ clock < StreakEnd(symbol, side, i)
ByQuarantine(symbol, side) ==
    SideLimit > 0 /\ \E i \in Of(symbol, side) \intersect LossesOn(side) :
        Quarantines(symbol, side, i) /\ clock < trades[i].at + SideCooldown
ByDirection(side) ==
    DirectionThreshold > 0 /\ \E i \in LossesOn(side) :
        TurnsSide(side, i) /\ clock < trades[i].at + DirectionCooldown
ByDailyLimit(symbol) ==
    DailyLimit > 0 /\ \E i \in LossesOf(symbol) :
        FillsDay(symbol, i) /\ clock < DailyEnd(trades[i].at)

\* The balance of a sighting is below the first one of its day.
IsDrawn(i) ==
    \E j \in 1 .. i :
        /\ Day(sightings[j].at) = Day(sightings[i].at)
        /\ \A k \in 1 .. j - 1 : Day(sightings[k].at) # Day(sightings[i].at)
        /\ Drawn(sightings[j].balance, sightings[i].balance)

ByDrawdown == \E i \in DOMAIN sightings : IsDrawn(i) /\ clock < sightings[i].at + DayLength

\* A streak of losses, a quarantine and a losing side block an entry for their whole
\* time, whatever else was recorded since: pruning, deadlines set twice and shorter
\* blocks that follow never cut one short.
CausesBlock ==
    \A symbol \in Symbols, side \in Side :
        ByStreak(symbol, side) \/ ByQuarantine(symbol, side) \/ ByDirection(side) => IsBlocked(symbol, side)

\* Nothing else blocks an entry: a block has a reason in the history that has not
\* run out, so a symbol is never kept from trading by losses long past.
BlocksHaveCauses ==
    \A symbol \in Symbols, side \in Side :
        IsBlocked(symbol, side) =>
            \/ ByStreak(symbol, side) \/ ByQuarantine(symbol, side)
            \/ ByDirection(side) \/ ByDailyLimit(symbol) \/ ByDrawdown

\* Trading is halted from the account update that shows the drawdown, except where
\* it falls on the very moment an earlier halt ends, which does not renew it.
DrawdownHalts ==
    LET n == Len(sightings) IN
    n > 0 /\ IsDrawn(n) /\ sightings[n].at = clock => clock <= globalBlockedUntil

\* A dead zone covers the times from its start forward to its end on the clock's
\* face, across midnight too.
DeadZoneExact ==
    IsInBlockedWindow <=>
        \E w \in BlockedWindows : (clock + Offset - w[1]) % DayLength < (w[2] - w[1]) % DayLength
================================================================================
