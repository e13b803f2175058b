------------------------- MODULE CircuitBreaker_proofs -------------------------
(***************************************************************************)
(* Proofs about CircuitBreaker, for all thresholds, windows and cooldowns, *)
(* any number of symbols, trades and balances, and any time.               *)
(***************************************************************************)
EXTENDS CircuitBreaker, FiniteSetTheorems, SequenceTheorems, TLAPS

\* Every non-empty set of naturals has a least element.
LEMMA LeastNatural ==
    ASSUME NEW S \in SUBSET Nat, S # {}
    PROVE  \E m \in S : \A n \in S : m <= n
<1>1. IsWellFoundedOn(OpToRel(<, Nat), Nat)
  BY NatLessThanWellFounded
<1>2. PICK m \in S : \A n \in S : ~(<<n, m>> \in OpToRel(<, Nat))
  BY <1>1, WFMin
<1>3. \A n \in S : ~(n < m)
  BY <1>2 DEF OpToRel
<1> QED
  BY <1>3

--------------------------------------------------------------------------------
(* Days and clock faces.                                                   *)

LEMMA DayMonotone ==
    ASSUME NEW a \in Nat, NEW b \in Nat, a <= b
    PROVE  Day(a) \in Nat /\ Day(b) \in Nat /\ Day(a) <= Day(b)
  BY TimeAssumption DEF Day

LEMMA RemainderUnique ==
    ASSUME NEW D \in Nat \ {0}, NEW a \in Int, NEW q \in Int, NEW r \in 0 .. D - 1, a = D * q + r
    PROVE  a % D = r
  OBVIOUS

LEMMA DivideInt ==
    ASSUME NEW D \in Nat \ {0}, NEW a \in Int
    PROVE  /\ a = D * (a \div D) + (a % D)
           /\ a % D \in 0 .. D - 1
           /\ a \div D \in Int
  OBVIOUS

\* The way forward on a clock's face from a to the hand of time x.
LEMMA FaceDistance ==
    ASSUME NEW D \in Nat \ {0}, NEW a \in 0 .. D - 1, NEW x \in Int
    PROVE  (x - a) % D = IF a <= x % D THEN (x % D) - a ELSE (x % D) - a + D
<1> DEFINE q == x \div D  r == x % D
<1>1. x = D * q + r /\ r \in 0 .. D - 1 /\ q \in Int
  BY DivideInt
<1> HIDE DEF q, r
<1>2. CASE a <= r
  <2>1. x - a = D * q + (r - a) /\ r - a \in 0 .. D - 1
    BY <1>1, <1>2
  <2>2. (x - a) % D = r - a
    BY <1>1, <2>1, RemainderUnique
  <2> QED
    BY <1>2, <2>2 DEF r
<1>3. CASE ~(a <= r)
  <2>1. x - a = D * (q - 1) + (r - a + D) /\ r - a + D \in 0 .. D - 1 /\ q - 1 \in Int
    BY <1>1, <1>3
  <2>2. x - a \in Int
    BY <1>1
  <2> DEFINE y == x - a  k == q - 1  s == r - a + D
  <2>3. y = D * k + s /\ s \in 0 .. D - 1 /\ k \in Int /\ y \in Int
    BY <2>1, <2>2
  <2> HIDE DEF y, k, s
  <2>4. y % D = s
    BY <2>3, RemainderUnique
  <2>5. (x - a) % D = r - a + D
    BY <2>4 DEF y, s
  <2> QED
    BY <1>3, <2>5 DEF r
<1> QED
  BY <1>2, <1>3

\* The comparisons of the code cover the way forward from a to b.
LEMMA DeadZone ==
    ASSUME NEW D \in Nat \ {0}, NEW a \in 0 .. D - 1, NEW b \in 0 .. D - 1, NEW x \in Int
    PROVE  (IF a <= b THEN a <= x % D /\ x % D < b ELSE a <= x % D \/ x % D < b)
           <=> (x - a) % D < (b - a) % D
<1>1. x % D \in 0 .. D - 1 /\ b % D = b
  OBVIOUS
<1>2. (x - a) % D = IF a <= x % D THEN (x % D) - a ELSE (x % D) - a + D
  BY FaceDistance
<1>3. (b - a) % D = IF a <= b THEN b - a ELSE b - a + D
  <2>1. (b - a) % D = IF a <= b % D THEN (b % D) - a ELSE (b % D) - a + D
    <3>1. b \in Int
      OBVIOUS
    <3> QED
      BY <3>1, FaceDistance
  <2> QED
    BY <1>1, <2>1
<1> DEFINE r == x % D
<1> HIDE DEF r
<1>4. r \in 0 .. D - 1
  BY <1>1 DEF r
<1>5. (x - a) % D = IF a <= r THEN r - a ELSE r - a + D
  BY <1>2 DEF r
<1>6. (IF a <= b THEN a <= r /\ r < b ELSE a <= r \/ r < b) <=> (x - a) % D < (b - a) % D
  BY <1>3, <1>4, <1>5
<1> QED
  BY <1>6 DEF r

--------------------------------------------------------------------------------
(* Cooldowns.                                                              *)

\* Among the thresholds a number of losses has reached there is a highest.
LEMMA HighestReached ==
    ASSUME NEW n \in Nat, NEW reached \in SUBSET (Nat \X Nat), reached # {},
           \A p \in reached : n >= p[1]
    PROVE  \E p \in reached : \A q \in reached : q[1] <= p[1]
<1> DEFINE gaps == {n - p[1] : p \in reached}
<1>1. gaps \in SUBSET Nat /\ gaps # {}
  OBVIOUS
<1>2. PICK g \in gaps : \A h \in gaps : g <= h
  BY <1>1, LeastNatural
<1>3. PICK p \in reached : g = n - p[1]
  BY <1>2
<1>4. \A q \in reached : n - p[1] <= n - q[1]
  BY <1>2, <1>3
<1>5. \A q \in reached : q[1] \in Nat
  OBVIOUS
<1> QED
  BY <1>3, <1>4, <1>5

LEMMA CooldownType ==
    ASSUME NEW n \in Nat
    PROVE  CooldownAfter(n) \in Nat
<1> DEFINE reached == {p \in Schedule : n >= p[1]}
           top == CHOOSE p \in reached : \A q \in reached : q[1] <= p[1]
<1>1. CASE reached = {}
  BY <1>1, StreakAssumption DEF CooldownAfter
<1>2. CASE reached # {}
  <2>1. \E p \in reached : \A q \in reached : q[1] <= p[1]
    BY <1>2, HighestReached, StreakAssumption
  <2>2. top \in reached
    BY <2>1
  <2>3. top[2] \in Nat
    BY <2>2, StreakAssumption
  <2> QED
    BY <1>2, <2>3 DEF CooldownAfter
<1> QED
  BY <1>1, <1>2

\* A schedule that lives up to its name: a longer streak never has a shorter cooldown.
CooldownsRise ==
    \A m, n \in Nat : MaxLosses <= m /\ m <= n => CooldownAfter(m) <= CooldownAfter(n)

--------------------------------------------------------------------------------
(* The inductive invariant: the tables as functions of the history.        *)

Heard ==
    /\ \A i \in DOMAIN trades : trades[i].at <= clock
    /\ \A i \in DOMAIN sightings : sightings[i].at <= clock

LossesAt(symbol, side) == Of(symbol, side) \intersect LossesOn(side)

\* The trades since the last win.
Run(symbol, side) ==
    {j \in Of(symbol, side) : \A k \in Of(symbol, side) : j <= k => trades[k].outcome # "win"}
OnDay(symbol, day) == {j \in LossesOf(symbol) : Day(trades[j].at) = day}

StreaksCounted ==
    \A symbol \in Symbols, side \in Side :
        losses[symbol][side] = Cardinality(Run(symbol, side))

DaysCounted ==
    DailyLimit > 0 =>
        \A symbol \in Symbols, day \in Days : dailyLosses[symbol][day] = Cardinality(OnDay(symbol, day))

\* A pruned list holds losses only, and every one that a later window can still reach.
SideListed ==
    SideLimit > 0 =>
        \A symbol \in Symbols, side \in Side :
            /\ \A loss \in sideLosses[symbol][side] :
                  \E j \in LossesAt(symbol, side) : loss = <<trades[j].at, j>>
            /\ \A j \in LossesAt(symbol, side) :
                  trades[j].at >= clock - SideWindow => <<trades[j].at, j>> \in sideLosses[symbol][side]
DirectionListed ==
    DirectionThreshold > 0 =>
        \A side \in Side :
            /\ \A loss \in directionLosses[side] :
                  \E j \in LossesOn(side) : loss = <<trades[j].symbol, trades[j].at>>
            /\ \A j \in LossesOn(side) :
                  trades[j].at >= clock - DirectionWindow =>
                      <<trades[j].symbol, trades[j].at>> \in directionLosses[side]

\* Every deadline was set by a trade, and no trade that sets one is cut short.
StreakCaused ==
    \A symbol \in Symbols, side \in Side :
        \/ blockedUntil[symbol][side] = 0
        \/ \E i \in Of(symbol, side) :
              Streaks(symbol, side, i) /\ blockedUntil[symbol][side] = StreakEnd(symbol, side, i)
        \/ DailyLimit > 0 /\ \E i \in LossesOf(symbol) :
              FillsDay(symbol, i) /\ blockedUntil[symbol][side] = DailyEnd(trades[i].at)
StreakServed ==
    \A symbol \in Symbols, side \in Side : \A i \in Of(symbol, side) :
        Streaks(symbol, side, i) => StreakEnd(symbol, side, i) <= blockedUntil[symbol][side]

QuarantineCaused ==
    \A symbol \in Symbols, side \in Side :
        \/ windowBlockedUntil[symbol][side] = 0
        \/ SideLimit > 0 /\ \E i \in LossesAt(symbol, side) :
              Quarantines(symbol, side, i) /\ windowBlockedUntil[symbol][side] = trades[i].at + SideCooldown
QuarantineServed ==
    SideLimit > 0 =>
        \A symbol \in Symbols, side \in Side : \A i \in LossesAt(symbol, side) :
            Quarantines(symbol, side, i) => trades[i].at + SideCooldown <= windowBlockedUntil[symbol][side]

DirectionCaused ==
    \A side \in Side :
        \/ directionBlockedUntil[side] = 0
        \/ DirectionThreshold > 0 /\ \E i \in LossesOn(side) :
              TurnsSide(side, i) /\ directionBlockedUntil[side] = trades[i].at + DirectionCooldown
DirectionServed ==
    DirectionThreshold > 0 =>
        \A side \in Side : \A i \in LossesOn(side) :
            TurnsSide(side, i) => trades[i].at + DirectionCooldown <= directionBlockedUntil[side]

\* The balance of the day is the first one seen on it.
DayBegun ==
    IF sightings = <<>> THEN currentDay = -1
    ELSE /\ currentDay = Day(sightings[Len(sightings)].at)
         /\ \A i \in DOMAIN sightings : Day(sightings[i].at) <= currentDay
         /\ \E j \in DOMAIN sightings :
              /\ Day(sightings[j].at) = currentDay
              /\ \A k \in 1 .. j - 1 : Day(sightings[k].at) # currentDay
              /\ startBalance = sightings[j].balance
HaltCaused ==
    \/ globalBlockedUntil = 0
    \/ \E i \in DOMAIN sightings : IsDrawn(i) /\ globalBlockedUntil = sightings[i].at + DayLength

Counted == StreaksCounted /\ DaysCounted /\ SideListed /\ DirectionListed
Caused == StreakCaused /\ QuarantineCaused /\ DirectionCaused
Served == QuarantineServed /\ DirectionServed
Balanced == DayBegun /\ HaltCaused /\ DrawdownHalts

IInv == TypeOK /\ Heard /\ Counted /\ Caused /\ Served /\ Balanced

--------------------------------------------------------------------------------
(* The histories grow at their end.                                        *)

LEMMA FiniteIndices ==
    ASSUME TypeOK, NEW J \in SUBSET DOMAIN trades
    PROVE  IsFiniteSet(J) /\ Cardinality(J) \in Nat
<1>1. Len(trades) \in Nat /\ DOMAIN trades = 1 .. Len(trades)
  BY LenProperties DEF TypeOK
<1>2. IsFiniteSet(1 .. Len(trades))
  BY <1>1, FS_Interval
<1> QED
  BY <1>1, <1>2, FS_Subset, FS_CardinalityType

\* An entry of a table by two keys is set.
LEMMA TableSet ==
    ASSUME NEW A, NEW B, NEW V, NEW f \in [A -> [B -> V]], NEW a \in A, NEW b \in B, NEW v \in V
    PROVE  /\ [f EXCEPT ![a][b] = v] \in [A -> [B -> V]]
           /\ \A x \in A, y \in B : [f EXCEPT ![a][b] = v][x][y] = IF x = a /\ y = b THEN v ELSE f[x][y]
  OBVIOUS

LEMMA Grown ==
    ASSUME TypeOK, NEW t \in Trade, trades' = Append(trades, t)
    PROVE  /\ Len(trades) \in Nat
           /\ DOMAIN trades = 1 .. Len(trades)
           /\ trades' \in Seq(Trade)
           /\ DOMAIN trades' = 1 .. Len(trades) + 1
           /\ trades'[Len(trades) + 1] = t
           /\ \A i \in DOMAIN trades : trades'[i] = trades[i] /\ trades[i] \in Trade
<1>1. trades \in Seq(Trade)
  BY DEF TypeOK
<1>2. /\ Append(trades, t) \in Seq(Trade)
      /\ Len(Append(trades, t)) = Len(trades) + 1
      /\ \A i \in 1 .. Len(trades) : Append(trades, t)[i] = trades[i]
      /\ Append(trades, t)[Len(trades) + 1] = t
  BY <1>1, AppendProperties
<1>3. Len(trades) \in Nat /\ DOMAIN trades = 1 .. Len(trades)
  BY <1>1, LenProperties
<1>4. DOMAIN trades' = 1 .. Len(trades')
  BY <1>2, LenProperties
<1> QED
  BY <1>1, <1>2, <1>3, <1>4, ElementOfSeq

LEMMA SetsGrown ==
    ASSUME TypeOK, NEW t \in Trade, trades' = Append(trades, t),
           NEW symbol \in Symbols, NEW side \in Side
    PROVE  LET new == Len(trades) + 1 IN
           /\ Of(symbol, side)' = Of(symbol, side)
                \union (IF t.symbol = symbol /\ t.side = side THEN {new} ELSE {})
           /\ LossesOf(symbol)' = LossesOf(symbol)
                \union (IF t.symbol = symbol /\ t.outcome = "loss" THEN {new} ELSE {})
           /\ LossesOn(side)' = LossesOn(side)
                \union (IF t.side = side /\ t.outcome = "loss" THEN {new} ELSE {})
  BY Grown DEF Of, LossesOf, LossesOn

\* What trade i counted is the same for ever.
LEMMA Past ==
    ASSUME TypeOK, NEW t \in Trade, trades' = Append(trades, t),
           NEW symbol \in Symbols, NEW side \in Side, NEW i \in DOMAIN trades
    PROVE  /\ Streak(symbol, side, i)' = Streak(symbol, side, i)
           /\ StreakEnd(symbol, side, i)' = StreakEnd(symbol, side, i)
           /\ Quarantines(symbol, side, i)' <=> Quarantines(symbol, side, i)
           /\ TurnsSide(side, i)' <=> TurnsSide(side, i)
           /\ FillsDay(symbol, i)' <=> FillsDay(symbol, i)
<1>1. /\ Len(trades) \in Nat
      /\ DOMAIN trades = 1 .. Len(trades)
      /\ DOMAIN trades' = 1 .. Len(trades) + 1
      /\ \A j \in DOMAIN trades : trades'[j] = trades[j]
  BY Grown
<1>2. Streak(symbol, side, i)' = Streak(symbol, side, i)
  BY <1>1 DEF Streak, Of
<1>3. Within(Of(symbol, side) \intersect LossesOn(side), SideWindow, i)'
        = Within(Of(symbol, side) \intersect LossesOn(side), SideWindow, i)
  BY <1>1 DEF Within, Of, LossesOn
<1>4. Within(LossesOn(side), DirectionWindow, i)' = Within(LossesOn(side), DirectionWindow, i)
  BY <1>1 DEF Within, LossesOn
<1>5. {trades[j].symbol : j \in Within(LossesOn(side), DirectionWindow, i)}'
        = {trades[j].symbol : j \in Within(LossesOn(side), DirectionWindow, i)}
  BY <1>1, <1>4 DEF Within, LossesOn
<1>6. OnDayOf(LossesOf(symbol), i)' = OnDayOf(LossesOf(symbol), i)
  BY <1>1 DEF OnDayOf, LossesOf
<1>7. trades'[i].at = trades[i].at
  BY <1>1
<1> QED
  BY <1>2, <1>3, <1>5, <1>6, <1>7 DEF StreakEnd, Quarantines, TurnsSide, FillsDay

--------------------------------------------------------------------------------
(* One trade is recorded.                                                  *)

TradeOf(symbol, side, outcome) == [symbol |-> symbol, side |-> side, outcome |-> outcome, at |-> clock]

Recorded(symbol, side, outcome) ==
    /\ CountStreak(symbol, side, outcome)
    /\ RecordSymbolSideLoss(symbol, side, outcome)
    /\ RecordDirectionLoss(symbol, side, outcome)
    /\ RecordDailyLoss(symbol, side, outcome)
    /\ trades' = Append(trades, TradeOf(symbol, side, outcome))
    /\ UNCHANGED <<clock, portfolioVars>>

LEMMA RecordedTrade ==
    ASSUME TypeOK, NEW symbol \in Symbols, NEW side \in Side, NEW outcome \in Outcome
    PROVE  /\ TradeOf(symbol, side, outcome) \in Trade
           /\ clock \in Nat
           /\ Day(clock) \in Days
           /\ DailyEnd(clock) \in Nat
<1>1. clock \in 0 .. MaxClock /\ MaxClock \in Nat
  BY TimeAssumption DEF TypeOK
<1>2. Day(clock) \in Nat /\ Day(MaxClock) \in Nat /\ Day(clock) <= Day(MaxClock)
  BY <1>1, DayMonotone
<1>3. (Day(clock) + 1) * DayLength \in Nat
  BY <1>2, TimeAssumption
<1> QED
  BY <1>1, <1>2, <1>3, WindowAssumption DEF TradeOf, Trade, Days, DailyEnd

LEMMA RecordedType ==
    ASSUME TypeOK, NEW symbol \in Symbols, NEW side \in Side, NEW outcome \in Outcome,
           Recorded(symbol, side, outcome)
    PROVE  TypeOK'
<1> DEFINE t == TradeOf(symbol, side, outcome)
<1>1. t \in Trade /\ clock \in Nat /\ Day(clock) \in Days /\ DailyEnd(clock) \in Nat
  BY RecordedTrade
<1>2. trades' \in Seq(Trade) /\ Len(trades) \in Nat
  BY <1>1, Grown DEF Recorded
<1>3. losses' \in [Symbols -> [Side -> Nat]]
  BY DEF TypeOK, Recorded, CountStreak
<1>4. AfterStreak(symbol, side, outcome) \in [Symbols -> [Side -> Nat]]
  <2>1. losses[symbol][side] + 1 \in Nat
    <3>1. losses \in [Symbols -> [Side -> Nat]]
      BY DEF TypeOK
    <3>2. losses[symbol][side] \in Nat
      BY ONLY <3>1, symbol \in Symbols, side \in Side
    <3> QED
      BY ONLY <3>2
  <2>2. clock + CooldownAfter(losses[symbol][side] + 1) \in Nat
    BY <1>1, <2>1, CooldownType
  <2> QED
    BY <2>2 DEF AfterStreak, TypeOK
<1>5. sideLosses' \in [Symbols -> [Side -> SUBSET ((0 .. MaxClock) \X Nat)]]
      /\ windowBlockedUntil' \in [Symbols -> [Side -> Nat]]
  <2>1. <<clock, Len(trades) + 1>> \in (0 .. MaxClock) \X Nat
    BY <1>2 DEF TypeOK
  <2>2. clock + SideCooldown \in Nat
    BY <1>1, WindowAssumption
  <2> DEFINE recent == {loss \in sideLosses[symbol][side] : loss[1] >= clock - SideWindow}
                         \union {<<clock, Len(trades) + 1>>}
  <2>3. recent \in SUBSET ((0 .. MaxClock) \X Nat)
    BY <2>1 DEF TypeOK
  <2> HIDE DEF recent
  <2>4. CASE outcome = "loss" /\ SideLimit > 0
    <3>1. sideLosses' = [sideLosses EXCEPT ![symbol][side] = recent]
      BY <2>4 DEF Recorded, RecordSymbolSideLoss, recent
    <3>2. windowBlockedUntil' \in {windowBlockedUntil, [windowBlockedUntil EXCEPT ![symbol][side] =
                                          Later(@, clock + SideCooldown)]}
      BY <2>4 DEF Recorded, RecordSymbolSideLoss
    <3>3. Later(windowBlockedUntil[symbol][side], clock + SideCooldown) \in Nat
      BY <2>2 DEF Later, TypeOK
    <3>4. sideLosses' \in [Symbols -> [Side -> SUBSET ((0 .. MaxClock) \X Nat)]]
      <4> DEFINE Lists == SUBSET ((0 .. MaxClock) \X Nat)
      <4>1. recent \in Lists /\ sideLosses \in [Symbols -> [Side -> Lists]]
        BY <2>3 DEF TypeOK
      <4> HIDE DEF Lists
      <4>2. sideLosses' \in [Symbols -> [Side -> Lists]]
        BY <3>1, <4>1, TableSet
      <4> QED
        BY <4>2 DEF Lists
    <3>5. windowBlockedUntil' \in [Symbols -> [Side -> Nat]]
      <4>1. [windowBlockedUntil EXCEPT ![symbol][side] =
               Later(windowBlockedUntil[symbol][side], clock + SideCooldown)] \in [Symbols -> [Side -> Nat]]
        BY <3>3, TableSet DEF TypeOK
      <4> QED
        BY <3>2, <4>1 DEF TypeOK
    <3> QED
      BY <3>4, <3>5
  <2>5. CASE ~(outcome = "loss" /\ SideLimit > 0)
    BY <2>5 DEF Recorded, RecordSymbolSideLoss, TypeOK
  <2> QED
    BY <2>4, <2>5
<1>6. directionLosses' \in [Side -> SUBSET (Symbols \X (0 .. MaxClock))]
      /\ directionBlockedUntil' \in [Side -> Nat]
  <2>1. CASE outcome = "loss" /\ DirectionThreshold > 0
    <3> DEFINE recent == {loss \in directionLosses[side] \union {<<symbol, clock>>} :
                            loss[2] >= clock - DirectionWindow}
    <3>1. recent \in SUBSET (Symbols \X (0 .. MaxClock))
      BY DEF TypeOK
    <3>2. clock + DirectionCooldown \in Nat
      BY <1>1, WindowAssumption
    <3> HIDE DEF recent
    <3>3. directionLosses' = [directionLosses EXCEPT ![side] = recent]
          /\ directionBlockedUntil' \in {directionBlockedUntil,
                [directionBlockedUntil EXCEPT ![side] = clock + DirectionCooldown]}
      BY <2>1 DEF Recorded, RecordDirectionLoss, recent
    <3> QED
      BY <3>1, <3>2, <3>3 DEF TypeOK
  <2>2. CASE ~(outcome = "loss" /\ DirectionThreshold > 0)
    BY <2>2 DEF Recorded, RecordDirectionLoss, TypeOK
  <2> QED
    BY <2>1, <2>2
<1>7. dailyLosses' \in [Symbols -> [Days -> Nat]] /\ blockedUntil' \in [Symbols -> [Side -> Nat]]
  <2> DEFINE streaked == AfterStreak(symbol, side, outcome)
  <2>1. CASE outcome = "loss" /\ DailyLimit > 0
    <3>1. dailyLosses' = [dailyLosses EXCEPT ![symbol][Day(clock)] = @ + 1]
          /\ blockedUntil' \in {streaked,
               [streaked EXCEPT ![symbol] = [d \in Side |-> Later(@[d], DailyEnd(clock))]]}
      BY <2>1 DEF Recorded, RecordDailyLoss
    <3>2. [d \in Side |-> Later(streaked[symbol][d], DailyEnd(clock))] \in [Side -> Nat]
      BY <1>1, <1>4 DEF Later
    <3> HIDE DEF streaked
    <3>3. blockedUntil' \in [Symbols -> [Side -> Nat]]
      BY <1>4, <3>1, <3>2 DEF streaked
    <3>4. dailyLosses[symbol][Day(clock)] + 1 \in Nat
      BY <1>1 DEF TypeOK
    <3>5. dailyLosses' \in [Symbols -> [Days -> Nat]]
      BY <1>1, <3>1, <3>4, TableSet DEF TypeOK
    <3> QED
      BY <3>3, <3>5
  <2>2. CASE ~(outcome = "loss" /\ DailyLimit > 0)
    BY <1>4, <2>2 DEF Recorded, RecordDailyLoss, TypeOK
  <2> QED
    BY <2>1, <2>2
<1> QED
  BY <1>2, <1>3, <1>5, <1>6, <1>7 DEF TypeOK, Recorded, portfolioVars

\* What the cases below need to know of the step.
LEMMA RecordedStep ==
    ASSUME TypeOK, Heard, NEW symbol \in Symbols, NEW side \in Side, NEW outcome \in Outcome,
           Recorded(symbol, side, outcome)
    PROVE  LET new == Len(trades) + 1 IN
           /\ new \in Nat /\ new \notin DOMAIN trades
           /\ DOMAIN trades' = DOMAIN trades \union {new}
           /\ \A i \in DOMAIN trades : i \in Nat /\ i < new
           /\ /\ trades'[new].symbol = symbol
              /\ trades'[new].side = side
              /\ trades'[new].outcome = outcome
              /\ trades'[new].at = clock
           /\ \A i \in DOMAIN trades :
                /\ trades'[i] = trades[i] /\ trades[i] \in Trade
                /\ trades[i].at \in Nat /\ trades[i].at <= clock
           /\ clock' = clock /\ clock \in Nat
<1> DEFINE t == TradeOf(symbol, side, outcome)
<1>1. t \in Trade /\ clock \in Nat
  BY RecordedTrade
<1>2. trades' = Append(trades, t)
  BY DEF Recorded
<1>3. /\ t.symbol = symbol /\ t.side = side /\ t.outcome = outcome /\ t.at = clock
  BY DEF TradeOf
<1> HIDE DEF t
<1>4. /\ Len(trades) \in Nat
      /\ DOMAIN trades = 1 .. Len(trades)
      /\ DOMAIN trades' = 1 .. Len(trades) + 1
      /\ trades'[Len(trades) + 1] = t
      /\ \A i \in DOMAIN trades : trades'[i] = trades[i] /\ trades[i] \in Trade
  BY <1>1, <1>2, Grown
<1>5. \A i \in DOMAIN trades : trades[i].at \in Nat
  BY <1>4, TimeAssumption DEF Trade
<1>6. clock' = clock
  BY DEF Recorded
<1>7. DOMAIN trades' = DOMAIN trades \union {Len(trades) + 1}
  BY <1>4
<1> QED
  BY <1>1, <1>3, <1>4, <1>5, <1>6, <1>7 DEF Heard

LEMMA RecordedHeard ==
    ASSUME TypeOK, Heard, NEW symbol \in Symbols, NEW side \in Side, NEW outcome \in Outcome,
           Recorded(symbol, side, outcome)
    PROVE  Heard'
<1>1. \A i \in DOMAIN trades' : trades'[i].at <= clock
  BY RecordedStep DEF Heard
<1> QED
  BY <1>1 DEF Recorded, portfolioVars, Heard

LEMMA RecordedStreaks ==
    ASSUME TypeOK, Heard, StreaksCounted, NEW symbol \in Symbols, NEW side \in Side,
           NEW outcome \in Outcome, Recorded(symbol, side, outcome)
    PROVE  StreaksCounted'
<1> DEFINE new == Len(trades) + 1
<1>1. /\ new \in Nat /\ new \notin DOMAIN trades /\ DOMAIN trades' = DOMAIN trades \union {new}
      /\ trades'[new].symbol = symbol /\ trades'[new].side = side
      /\ trades'[new].outcome = outcome /\ trades'[new].at = clock
      /\ \A i \in DOMAIN trades : i < new /\ i \in Nat /\ trades'[i] = trades[i]
  BY RecordedStep
<1> HIDE DEF new
<1> SUFFICES ASSUME NEW s \in Symbols, NEW d \in Side
             PROVE  losses'[s][d] = Cardinality(Run(s, d)')
  BY DEF StreaksCounted
<1>2. losses[s][d] = Cardinality(Run(s, d)) /\ losses[s][d] \in Nat
  BY DEF StreaksCounted, TypeOK
<1>3. losses'[s][d] = IF s = symbol /\ d = side
                      THEN IF outcome = "win" THEN 0 ELSE losses[s][d] + 1
                      ELSE losses[s][d]
  BY DEF Recorded, CountStreak, TypeOK
<1>4. IsFiniteSet(Run(s, d))
  BY FiniteIndices DEF Run, Of
<1>5. CASE s = symbol /\ d = side /\ outcome = "win"
  <2>1. Run(s, d)' = {}
    BY <1>1, <1>5 DEF Run, Of
  <2> QED
    BY <1>3, <1>5, <2>1, FS_EmptySet
<1>6. CASE s = symbol /\ d = side /\ outcome # "win"
  <2>1. Run(s, d)' = Run(s, d) \union {new}
    BY <1>1, <1>6 DEF Run, Of
  <2>2. new \notin Run(s, d)
    BY <1>1 DEF Run, Of
  <2>3. Cardinality(Run(s, d) \union {new}) = Cardinality(Run(s, d)) + 1
    BY <1>4, <2>2, FS_AddElement
  <2> QED
    BY <1>2, <1>3, <1>6, <2>1, <2>3
<1>7. CASE ~(s = symbol /\ d = side)
  <2>1. Run(s, d)' = Run(s, d)
    BY <1>1, <1>7 DEF Run, Of
  <2> QED
    BY <1>2, <1>3, <1>7, <2>1
<1> QED
  BY <1>5, <1>6, <1>7

LEMMA RecordedDays ==
    ASSUME TypeOK, Heard, DaysCounted, NEW symbol \in Symbols, NEW side \in Side,
           NEW outcome \in Outcome, Recorded(symbol, side, outcome)
    PROVE  DaysCounted'
<1> DEFINE new == Len(trades) + 1
<1>1. /\ new \in Nat /\ new \notin DOMAIN trades /\ DOMAIN trades' = DOMAIN trades \union {new}
      /\ trades'[new].symbol = symbol /\ trades'[new].side = side
      /\ trades'[new].outcome = outcome /\ trades'[new].at = clock
      /\ \A i \in DOMAIN trades : i < new /\ i \in Nat /\ trades'[i] = trades[i]
  BY RecordedStep
<1> HIDE DEF new
<1> SUFFICES ASSUME DailyLimit > 0, NEW s \in Symbols, NEW day \in Days
             PROVE  dailyLosses'[s][day] = Cardinality(OnDay(s, day)')
  BY DEF DaysCounted
<1>2. dailyLosses[s][day] = Cardinality(OnDay(s, day)) /\ dailyLosses[s][day] \in Nat
  BY DEF DaysCounted, TypeOK
<1>3. dailyLosses'[s][day] = IF outcome = "loss" /\ s = symbol /\ day = Day(clock)
                             THEN dailyLosses[s][day] + 1 ELSE dailyLosses[s][day]
  BY RecordedTrade DEF Recorded, RecordDailyLoss, TypeOK
<1>4. IsFiniteSet(OnDay(s, day))
  BY FiniteIndices DEF OnDay, LossesOf
<1>5. CASE outcome = "loss" /\ s = symbol /\ day = Day(clock)
  <2>1. OnDay(s, day)' = OnDay(s, day) \union {new}
    BY <1>1, <1>5 DEF OnDay, LossesOf
  <2>2. new \notin OnDay(s, day)
    BY <1>1 DEF OnDay, LossesOf
  <2>3. Cardinality(OnDay(s, day) \union {new}) = Cardinality(OnDay(s, day)) + 1
    BY <1>4, <2>2, FS_AddElement
  <2> QED
    BY <1>2, <1>3, <1>5, <2>1, <2>3
<1>6. CASE ~(outcome = "loss" /\ s = symbol /\ day = Day(clock))
  <2>1. OnDay(s, day)' = OnDay(s, day)
    BY <1>1, <1>6 DEF OnDay, LossesOf
  <2> QED
    BY <1>2, <1>3, <1>6, <2>1
<1> QED
  BY <1>5, <1>6

LEMMA RecordedSideList ==
    ASSUME TypeOK, Heard, SideListed, NEW symbol \in Symbols, NEW side \in Side,
           NEW outcome \in Outcome, Recorded(symbol, side, outcome)
    PROVE  SideListed'
<1> DEFINE new == Len(trades) + 1
<1>1. /\ new \in Nat /\ new \notin DOMAIN trades /\ DOMAIN trades' = DOMAIN trades \union {new}
      /\ trades'[new].symbol = symbol /\ trades'[new].side = side
      /\ trades'[new].outcome = outcome /\ trades'[new].at = clock
      /\ \A i \in DOMAIN trades : i < new /\ i \in Nat /\ trades'[i] = trades[i]
      /\ clock' = clock
  BY RecordedStep
<1> SUFFICES ASSUME SideLimit > 0, NEW s \in Symbols, NEW d \in Side
    PROVE /\ \A loss \in sideLosses'[s][d] :
               \E j \in LossesAt(s, d)' : loss = <<trades'[j].at, j>>
          /\ \A j \in LossesAt(s, d)' :
               trades'[j].at >= clock - SideWindow => <<trades'[j].at, j>> \in sideLosses'[s][d]
  BY <1>1 DEF SideListed
<1>2. sideLosses'[s][d] = IF outcome = "loss" /\ s = symbol /\ d = side
        THEN {loss \in sideLosses[s][d] : loss[1] >= clock - SideWindow} \union {<<clock, new>>}
        ELSE sideLosses[s][d]
  <2> DEFINE recent == {loss \in sideLosses[symbol][side] : loss[1] >= clock - SideWindow}
                         \union {<<clock, new>>}
  <2>1. sideLosses' = IF outcome = "loss" THEN [sideLosses EXCEPT ![symbol][side] = recent] ELSE sideLosses
    BY DEF Recorded, RecordSymbolSideLoss
  <2> HIDE DEF recent
  <2>2. sideLosses'[s][d] = IF outcome = "loss" /\ s = symbol /\ d = side THEN recent ELSE sideLosses[s][d]
    BY <2>1 DEF TypeOK
  <2> QED
    BY <2>2 DEF recent
<1> HIDE DEF new
<1>3. LossesAt(s, d)' = LossesAt(s, d)
        \union (IF outcome = "loss" /\ s = symbol /\ d = side THEN {new} ELSE {})
  BY <1>1 DEF LossesAt, Of, LossesOn
<1>4. LossesAt(s, d) \subseteq DOMAIN trades
  BY DEF LossesAt, Of
<1>5. /\ \A loss \in sideLosses[s][d] :
           \E j \in LossesAt(s, d) : loss = <<trades[j].at, j>>
      /\ \A j \in LossesAt(s, d) :
           trades[j].at >= clock - SideWindow => <<trades[j].at, j>> \in sideLosses[s][d]
  BY DEF SideListed
<1>6. trades'[new].at = clock
  BY <1>1 DEF TradeOf
<1> QED
  BY <1>1, <1>2, <1>3, <1>4, <1>5, <1>6

LEMMA RecordedDirectionList ==
    ASSUME TypeOK, Heard, DirectionListed, NEW symbol \in Symbols, NEW side \in Side,
           NEW outcome \in Outcome, Recorded(symbol, side, outcome)
    PROVE  DirectionListed'
<1> DEFINE new == Len(trades) + 1
<1>1. /\ new \in Nat /\ new \notin DOMAIN trades /\ DOMAIN trades' = DOMAIN trades \union {new}
      /\ trades'[new].symbol = symbol /\ trades'[new].side = side
      /\ trades'[new].outcome = outcome /\ trades'[new].at = clock
      /\ \A i \in DOMAIN trades : i < new /\ i \in Nat /\ trades'[i] = trades[i]
      /\ clock' = clock
  BY RecordedStep
<1> HIDE DEF new
<1> SUFFICES ASSUME DirectionThreshold > 0, NEW d \in Side
    PROVE /\ \A loss \in directionLosses'[d] :
               \E j \in LossesOn(d)' : loss = <<trades'[j].symbol, trades'[j].at>>
          /\ \A j \in LossesOn(d)' :
               trades'[j].at >= clock - DirectionWindow =>
                   <<trades'[j].symbol, trades'[j].at>> \in directionLosses'[d]
  BY <1>1 DEF DirectionListed
<1>2. directionLosses'[d] = IF outcome = "loss" /\ d = side
        THEN {loss \in directionLosses[d] \union {<<symbol, clock>>} : loss[2] >= clock - DirectionWindow}
        ELSE directionLosses[d]
  BY DEF Recorded, RecordDirectionLoss, TypeOK
<1>3. LossesOn(d)' = LossesOn(d) \union (IF outcome = "loss" /\ d = side THEN {new} ELSE {})
  BY <1>1 DEF LossesOn
<1>4. LossesOn(d) \subseteq DOMAIN trades
  BY DEF LossesOn
<1>5. /\ \A loss \in directionLosses[d] :
           \E j \in LossesOn(d) : loss = <<trades[j].symbol, trades[j].at>>
      /\ \A j \in LossesOn(d) : trades[j].at >= clock - DirectionWindow =>
           <<trades[j].symbol, trades[j].at>> \in directionLosses[d]
  BY DEF DirectionListed
<1>6. trades'[new].at = clock /\ trades'[new].symbol = symbol
  BY <1>1 DEF TradeOf
<1> QED
  BY <1>1, <1>2, <1>3, <1>4, <1>5, <1>6

--------------------------------------------------------------------------------
(* The deadlines a trade sets.                                             *)

\* Pairs told apart by an index are as many as the indices.
LEMMA PairsCounted ==
    ASSUME NEW J, IsFiniteSet(J), NEW f
    PROVE  Cardinality({<<f[j], j>> : j \in J}) = Cardinality(J)
<1> DEFINE T == {<<f[j], j>> : j \in J}
           g == [j \in J |-> <<f[j], j>>]
<1>1. g \in Bijection(J, T)
  <2>1. g \in [J -> T]
    OBVIOUS
  <2>2. \A a, b \in J : g[a] = g[b] => a = b
    OBVIOUS
  <2>3. \A x \in T : \E j \in J : g[j] = x
    OBVIOUS
  <2> QED
    BY <2>1, <2>2, <2>3 DEF Bijection, Injection, Surjection, IsInjective
<1>2. ExistsBijection(J, T)
  BY <1>1 DEF ExistsBijection
<1> QED
  BY <1>2, FS_Bijection

\* The quarantine is set exactly when the history calls for it.
LEMMA QuarantineSet ==
    ASSUME TypeOK, Heard, SideListed, SideLimit > 0, NEW symbol \in Symbols, NEW side \in Side,
           Recorded(symbol, side, "loss"), NEW n, n = Len(trades) + 1
    PROVE  windowBlockedUntil' =
             IF Quarantines(symbol, side, n)'
             THEN [windowBlockedUntil EXCEPT ![symbol][side] = Later(@, clock + SideCooldown)]
             ELSE windowBlockedUntil
<1>1. /\ n \in Nat
      /\ n \notin DOMAIN trades /\ DOMAIN trades' = DOMAIN trades \union {n}
      /\ trades'[n].symbol = symbol /\ trades'[n].side = side
      /\ trades'[n].outcome = "loss" /\ trades'[n].at = clock
      /\ \A i \in DOMAIN trades :
           /\ i < n /\ i \in Nat /\ trades'[i] = trades[i]
           /\ trades[i].at \in Nat /\ trades[i].at <= clock
      /\ clock' = clock /\ clock \in Nat
  BY RecordedStep DEF Outcome
<1> DEFINE recent == {loss \in sideLosses[symbol][side] : loss[1] >= clock - SideWindow}
                       \union {<<clock, n>>}
           J == Within(LossesAt(symbol, side), SideWindow, n)'
           at == [j \in J |-> trades'[j].at]
<1>2. /\ \A loss \in sideLosses[symbol][side] :
           \E j \in LossesAt(symbol, side) : loss = <<trades[j].at, j>>
      /\ \A j \in LossesAt(symbol, side) : trades[j].at >= clock - SideWindow =>
           <<trades[j].at, j>> \in sideLosses[symbol][side]
  BY DEF SideListed
<1>3. LossesAt(symbol, side)' = LossesAt(symbol, side) \union {n}
  BY <1>1 DEF LossesAt, Of, LossesOn
<1>4. LossesAt(symbol, side) \subseteq DOMAIN trades
  BY DEF LossesAt, Of
<1>5. J = {j \in LossesAt(symbol, side) : trades[j].at >= clock - SideWindow} \union {n}
  BY <1>1, <1>3, <1>4, WindowAssumption DEF Within
<1>6. recent = {<<at[j], j>> : j \in J}
  <2>1. \A j \in J : at[j] = IF j = n THEN clock ELSE trades[j].at
    BY <1>1, <1>4, <1>5
  <2> HIDE DEF at
  <2>2. ASSUME NEW loss \in recent PROVE loss \in {<<at[j], j>> : j \in J}
    <3>1. CASE loss = <<clock, n>>
      BY <1>5, <2>1, <3>1
    <3>2. CASE loss # <<clock, n>>
      <4>1. PICK j \in LossesAt(symbol, side) : loss = <<trades[j].at, j>>
        BY <1>2, <2>2, <3>2
      <4>2. trades[j].at >= clock - SideWindow
        BY <2>2, <3>2, <4>1
      <4>3. j \in J /\ j # n
        BY <1>1, <1>4, <1>5, <4>2
      <4> QED
        BY <2>1, <4>1, <4>3
    <3> QED
      BY <3>1, <3>2
  <2>3. ASSUME NEW j \in J PROVE <<at[j], j>> \in recent
    <3>1. CASE j = n
      BY <2>1, <3>1
    <3>2. CASE j # n
      <4>1. j \in LossesAt(symbol, side) /\ trades[j].at >= clock - SideWindow
        BY <1>5, <2>3, <3>2
      <4> QED
        BY <1>2, <2>1, <3>2, <4>1
    <3> QED
      BY <3>1, <3>2
  <2> QED
    BY <2>2, <2>3
<1>7. IsFiniteSet(J)
  <2>1. IsFiniteSet(LossesAt(symbol, side))
    BY <1>4, FiniteIndices
  <2>2. IsFiniteSet(LossesAt(symbol, side) \union {n})
    BY <2>1, FS_AddElement
  <2>3. J \subseteq LossesAt(symbol, side) \union {n}
    BY <1>5
  <2> QED
    BY <2>2, <2>3, FS_Subset
<1>8. Cardinality(recent) = Cardinality(J)
  <2> HIDE DEF recent, J, at
  <2> QED
    BY <1>6, <1>7, PairsCounted
<1>9. Quarantines(symbol, side, n)' <=> Cardinality(J) >= SideLimit
  BY DEF Quarantines, LossesAt
<1> HIDE DEF J
<1>10. windowBlockedUntil' =
         IF Cardinality(recent) >= SideLimit
         THEN [windowBlockedUntil EXCEPT ![symbol][side] = Later(@, clock + SideCooldown)]
         ELSE windowBlockedUntil
  BY <1>1 DEF Recorded, RecordSymbolSideLoss
<1> QED
  BY <1>1, <1>8, <1>9, <1>10

LEMMA RecordedQuarantine ==
    ASSUME TypeOK, Heard, SideListed, QuarantineCaused, QuarantineServed,
           NEW symbol \in Symbols, NEW side \in Side, NEW outcome \in Outcome,
           Recorded(symbol, side, outcome)
    PROVE  QuarantineCaused' /\ QuarantineServed'
<1>1. PICK new \in Nat :
        /\ new = Len(trades) + 1
        /\ new \notin DOMAIN trades /\ DOMAIN trades' = DOMAIN trades \union {new}
        /\ trades'[new].symbol = symbol /\ trades'[new].side = side
        /\ trades'[new].outcome = outcome /\ trades'[new].at = clock
        /\ \A i \in DOMAIN trades :
             /\ i < new /\ i \in Nat /\ trades'[i] = trades[i]
             /\ trades[i].at \in Nat /\ trades[i].at <= clock
        /\ clock' = clock /\ clock \in Nat
  BY RecordedStep
<1>2. ASSUME NEW s \in Symbols, NEW d \in Side, NEW i \in DOMAIN trades
      PROVE  /\ Streak(s, d, i)' = Streak(s, d, i)
             /\ StreakEnd(s, d, i)' = StreakEnd(s, d, i)
             /\ Quarantines(s, d, i)' <=> Quarantines(s, d, i)
             /\ TurnsSide(d, i)' <=> TurnsSide(d, i)
             /\ FillsDay(s, i)' <=> FillsDay(s, i)
  BY Past, RecordedTrade DEF Recorded
<1>3. ASSUME NEW s \in Symbols, NEW d \in Side
      PROVE  /\ LossesAt(s, d)' = LossesAt(s, d)
                  \union (IF outcome = "loss" /\ s = symbol /\ d = side THEN {new} ELSE {})
             /\ LossesAt(s, d) \subseteq DOMAIN trades
  BY <1>1 DEF LossesAt, Of, LossesOn
<1>4. CASE outcome = "loss" /\ SideLimit > 0
  <2> DEFINE until == clock + SideCooldown
  <2>1. windowBlockedUntil' =
          IF Quarantines(symbol, side, new)'
          THEN [windowBlockedUntil EXCEPT ![symbol][side] = Later(@, until)]
          ELSE windowBlockedUntil
    BY <1>1, <1>4, QuarantineSet
  <2>2. until \in Nat /\ \A i \in DOMAIN trades : trades[i].at + SideCooldown <= until
    BY <1>1, WindowAssumption
  <2>3. windowBlockedUntil \in [Symbols -> [Side -> Nat]]
    BY DEF TypeOK
  <2>4. \A s \in Symbols, d \in Side :
          windowBlockedUntil'[s][d] =
            IF s = symbol /\ d = side /\ Quarantines(symbol, side, new)'
            THEN Later(windowBlockedUntil[s][d], until) ELSE windowBlockedUntil[s][d]
    BY <2>1, <2>3
  <2>5. ASSUME NEW s \in Symbols, NEW d \in Side
        PROVE  \/ windowBlockedUntil'[s][d] = 0
               \/ \E i \in LossesAt(s, d)' : /\ Quarantines(s, d, i)'
                                            /\ windowBlockedUntil'[s][d] = trades'[i].at + SideCooldown
    <3>1. CASE windowBlockedUntil'[s][d] = windowBlockedUntil[s][d]
      BY <1>1, <1>2, <1>3, <3>1 DEF QuarantineCaused, LossesAt
    <3>2. CASE windowBlockedUntil'[s][d] # windowBlockedUntil[s][d]
      <4>1. s = symbol /\ d = side /\ Quarantines(symbol, side, new)' /\ windowBlockedUntil'[s][d] = until
        BY <2>4, <3>2 DEF Later
      <4>2. new \in LossesAt(s, d)'
        BY <1>3, <1>4, <4>1
      <4> QED
        BY <1>1, <4>1, <4>2
    <3> QED
      BY <3>1, <3>2
  <2>6. ASSUME NEW s \in Symbols, NEW d \in Side, NEW i \in LossesAt(s, d)', Quarantines(s, d, i)'
        PROVE  trades'[i].at + SideCooldown <= windowBlockedUntil'[s][d]
    <3>1. windowBlockedUntil[s][d] \in Nat /\ windowBlockedUntil[s][d] <= windowBlockedUntil'[s][d]
      BY <2>2, <2>3, <2>4 DEF Later
    <3>2. CASE i = new
      <4>1. s = symbol /\ d = side
        BY <1>1, <1>3, <2>6, <3>2
      <4>2. windowBlockedUntil'[s][d] >= until
        BY <2>2, <2>3, <2>4, <2>6, <3>2, <4>1 DEF Later
      <4> QED
        BY <1>1, <3>2, <4>2
    <3>3. CASE i # new
      <4>1. i \in LossesAt(s, d) /\ i \in DOMAIN trades
        BY <1>3, <2>6, <3>3
      <4>2. trades[i].at + SideCooldown <= windowBlockedUntil[s][d]
        BY <1>2, <1>4, <2>6, <4>1 DEF QuarantineServed
      <4>3. trades[i].at + SideCooldown \in Nat /\ windowBlockedUntil'[s][d] \in Nat
        BY <1>1, <2>2, <2>3, <2>4, <4>1, WindowAssumption DEF Later
      <4> QED
        BY <1>1, <3>1, <4>1, <4>2, <4>3
    <3> QED
      BY <3>2, <3>3
  <2> QED
    BY <1>4, <2>5, <2>6 DEF QuarantineCaused, QuarantineServed
<1>5. CASE ~(outcome = "loss" /\ SideLimit > 0)
  <2>1. windowBlockedUntil' = windowBlockedUntil
    BY <1>5 DEF Recorded, RecordSymbolSideLoss
  <2>2. SideLimit > 0 => \A s \in Symbols, d \in Side : LossesAt(s, d)' = LossesAt(s, d)
    BY <1>3, <1>5
  <2> QED
    BY <1>1, <1>2, <1>3, <2>1, <2>2 DEF QuarantineCaused, QuarantineServed
<1> QED
  BY <1>4, <1>5

\* The side is blocked exactly when the history calls for it.
LEMMA DirectionSet ==
    ASSUME TypeOK, Heard, DirectionListed, DirectionThreshold > 0, NEW symbol \in Symbols, NEW side \in Side,
           Recorded(symbol, side, "loss"), NEW n, n = Len(trades) + 1
    PROVE  directionBlockedUntil' =
             IF TurnsSide(side, n)'
             THEN [directionBlockedUntil EXCEPT ![side] = clock + DirectionCooldown]
             ELSE directionBlockedUntil
<1>1. /\ n \in Nat
      /\ n \notin DOMAIN trades /\ DOMAIN trades' = DOMAIN trades \union {n}
      /\ trades'[n].symbol = symbol /\ trades'[n].side = side
      /\ trades'[n].outcome = "loss" /\ trades'[n].at = clock
      /\ \A i \in DOMAIN trades :
           /\ i < n /\ i \in Nat /\ trades'[i] = trades[i]
           /\ trades[i].at \in Nat /\ trades[i].at <= clock
      /\ clock' = clock /\ clock \in Nat
  BY RecordedStep DEF Outcome
<1> DEFINE recent == {loss \in directionLosses[side] \union {<<symbol, clock>>} :
                        loss[2] >= clock - DirectionWindow}
           J == Within(LossesOn(side), DirectionWindow, n)'
<1>2. /\ \A loss \in directionLosses[side] :
           \E j \in LossesOn(side) : loss = <<trades[j].symbol, trades[j].at>>
      /\ \A j \in LossesOn(side) : trades[j].at >= clock - DirectionWindow =>
           <<trades[j].symbol, trades[j].at>> \in directionLosses[side]
  BY DEF DirectionListed
<1>3. LossesOn(side)' = LossesOn(side) \union {n} /\ LossesOn(side) \subseteq DOMAIN trades
  BY <1>1 DEF LossesOn
<1>4. J = {j \in LossesOn(side) : trades[j].at >= clock - DirectionWindow} \union {n}
  BY <1>1, <1>3, WindowAssumption DEF Within
<1> HIDE DEF J
<1>5. {loss[1] : loss \in recent} = {trades'[j].symbol : j \in J}
  <2>1. ASSUME NEW loss \in recent PROVE loss[1] \in {trades'[j].symbol : j \in J}
    <3>1. CASE loss = <<symbol, clock>>
      BY <1>1, <1>4, <3>1
    <3>2. CASE loss # <<symbol, clock>>
      <4>1. PICK j \in LossesOn(side) : loss = <<trades[j].symbol, trades[j].at>>
        BY <1>2, <2>1, <3>2
      <4>2. j \in J /\ trades'[j] = trades[j]
        BY <1>1, <1>3, <1>4, <2>1, <4>1
      <4> QED
        BY <4>1, <4>2
    <3> QED
      BY <3>1, <3>2
  <2>2. ASSUME NEW j \in J PROVE trades'[j].symbol \in {loss[1] : loss \in recent}
    <3>1. CASE j = n
      <4>1. <<symbol, clock>> \in recent
        BY <1>1, WindowAssumption
      <4> QED
        BY <1>1, <3>1, <4>1
    <3>2. CASE j # n
      <4>1. j \in LossesOn(side) /\ trades[j].at >= clock - DirectionWindow
        BY <1>4, <2>2, <3>2
      <4>2. <<trades[j].symbol, trades[j].at>> \in recent
        BY <1>2, <4>1
      <4> QED
        BY <1>1, <1>3, <4>1, <4>2
    <3> QED
      BY <3>1, <3>2
  <2> QED
    BY <2>1, <2>2
<1>6. TurnsSide(side, n)' <=> Cardinality({trades'[j].symbol : j \in J}) >= DirectionThreshold
  BY DEF TurnsSide, J
<1>7. directionBlockedUntil' =
        IF Cardinality({loss[1] : loss \in recent}) >= DirectionThreshold
        THEN [directionBlockedUntil EXCEPT ![side] = clock + DirectionCooldown]
        ELSE directionBlockedUntil
  BY DEF Recorded, RecordDirectionLoss
<1> QED
  BY <1>5, <1>6, <1>7

LEMMA RecordedDirection ==
    ASSUME TypeOK, Heard, DirectionListed, DirectionCaused, DirectionServed,
           NEW symbol \in Symbols, NEW side \in Side, NEW outcome \in Outcome,
           Recorded(symbol, side, outcome)
    PROVE  DirectionCaused' /\ DirectionServed'
<1>1. PICK new \in Nat :
        /\ new = Len(trades) + 1
        /\ new \notin DOMAIN trades /\ DOMAIN trades' = DOMAIN trades \union {new}
        /\ trades'[new].symbol = symbol /\ trades'[new].side = side
        /\ trades'[new].outcome = outcome /\ trades'[new].at = clock
        /\ \A i \in DOMAIN trades :
             /\ i < new /\ i \in Nat /\ trades'[i] = trades[i]
             /\ trades[i].at \in Nat /\ trades[i].at <= clock
        /\ clock' = clock /\ clock \in Nat
  BY RecordedStep
<1>2. ASSUME NEW s \in Symbols, NEW d \in Side, NEW i \in DOMAIN trades
      PROVE  /\ Streak(s, d, i)' = Streak(s, d, i)
             /\ StreakEnd(s, d, i)' = StreakEnd(s, d, i)
             /\ Quarantines(s, d, i)' <=> Quarantines(s, d, i)
             /\ TurnsSide(d, i)' <=> TurnsSide(d, i)
             /\ FillsDay(s, i)' <=> FillsDay(s, i)
  BY Past, RecordedTrade DEF Recorded
<1>3. ASSUME NEW d \in Side
      PROVE  /\ LossesOn(d)' = LossesOn(d) \union (IF outcome = "loss" /\ d = side THEN {new} ELSE {})
             /\ LossesOn(d) \subseteq DOMAIN trades
  BY <1>1 DEF LossesOn
<1>4. \A d \in Side, i \in DOMAIN trades : TurnsSide(d, i)' <=> TurnsSide(d, i)
  BY <1>2
<1>5. CASE outcome = "loss" /\ DirectionThreshold > 0
  <2> DEFINE until == clock + DirectionCooldown
  <2>1. directionBlockedUntil' = IF TurnsSide(side, new)'
                                 THEN [directionBlockedUntil EXCEPT ![side] = until]
                                 ELSE directionBlockedUntil
    BY <1>1, <1>5, DirectionSet
  <2>2. until \in Nat /\ \A i \in DOMAIN trades : trades[i].at + DirectionCooldown <= until
    BY <1>1, WindowAssumption
  <2>3. directionBlockedUntil \in [Side -> Nat]
    BY DEF TypeOK
  <2>4. \A d \in Side : directionBlockedUntil'[d] =
          IF d = side /\ TurnsSide(side, new)' THEN until ELSE directionBlockedUntil[d]
    BY <2>1, <2>3
  <2>5. ASSUME NEW d \in Side
        PROVE  \/ directionBlockedUntil'[d] = 0
               \/ \E i \in LossesOn(d)' : /\ TurnsSide(d, i)'
                                         /\ directionBlockedUntil'[d] = trades'[i].at + DirectionCooldown
    <3>1. CASE d = side /\ TurnsSide(side, new)'
      BY <1>1, <1>3, <1>5, <2>4, <3>1
    <3>2. CASE ~(d = side /\ TurnsSide(side, new)')
      BY <1>1, <1>3, <1>4, <2>4, <3>2 DEF DirectionCaused
    <3> QED
      BY <3>1, <3>2
  <2>6. ASSUME NEW d \in Side, NEW i \in LossesOn(d)', TurnsSide(d, i)'
        PROVE  trades'[i].at + DirectionCooldown <= directionBlockedUntil'[d]
    <3>1. CASE i = new
      BY <1>1, <1>3, <2>2, <2>4, <2>6, <3>1
    <3>2. CASE i # new
      <4>1. i \in LossesOn(d) /\ i \in DOMAIN trades
        BY <1>3, <2>6, <3>2
      <4>2. trades[i].at + DirectionCooldown <= directionBlockedUntil[d]
        BY <1>4, <1>5, <2>6, <4>1 DEF DirectionServed
      <4>3. trades[i].at + DirectionCooldown <= directionBlockedUntil'[d]
        BY <2>2, <2>4, <4>1, <4>2
      <4> QED
        BY <1>1, <4>1, <4>3
    <3> QED
      BY <3>1, <3>2
  <2> QED
    BY <1>5, <2>5, <2>6 DEF DirectionCaused, DirectionServed
<1>6. CASE ~(outcome = "loss" /\ DirectionThreshold > 0)
  <2>1. directionBlockedUntil' = directionBlockedUntil
    BY <1>6 DEF Recorded, RecordDirectionLoss
  <2>2. DirectionThreshold > 0 => \A d \in Side : LossesOn(d)' = LossesOn(d)
    BY <1>3, <1>6
  <2> QED
    BY <1>1, <1>3, <1>4, <2>1, <2>2 DEF DirectionCaused, DirectionServed
<1> QED
  BY <1>5, <1>6

\* A streak ends at the trade exactly when the counter says so.
LEMMA StreakSet ==
    ASSUME TypeOK, Heard, StreaksCounted, NEW symbol \in Symbols, NEW side \in Side,
           NEW outcome \in Outcome, Recorded(symbol, side, outcome), NEW n, n = Len(trades) + 1
    PROVE  /\ Streaks(symbol, side, n)' <=> outcome # "win" /\ losses[symbol][side] + 1 >= MaxLosses
           /\ outcome # "win" =>
                StreakEnd(symbol, side, n)' = clock + CooldownAfter(losses[symbol][side] + 1)
<1>1. /\ n \in Nat
      /\ n \notin DOMAIN trades /\ DOMAIN trades' = DOMAIN trades \union {n}
      /\ trades'[n].symbol = symbol /\ trades'[n].side = side
      /\ trades'[n].outcome = outcome /\ trades'[n].at = clock
      /\ \A i \in DOMAIN trades :
           /\ i < n /\ i \in Nat /\ trades'[i] = trades[i]
           /\ trades[i].at \in Nat /\ trades[i].at <= clock
      /\ clock' = clock /\ clock \in Nat
  BY RecordedStep
<1>2. Of(symbol, side)' = Of(symbol, side) \union {n} /\ Of(symbol, side) \subseteq DOMAIN trades
  BY <1>1 DEF Of
<1>3. \A k \in Of(symbol, side)' : ~(k > n)
  BY <1>1, <1>2
<1>4. losses[symbol][side] = Cardinality(Run(symbol, side)) /\ losses[symbol][side] \in Nat
  BY DEF StreaksCounted, TypeOK
<1>5. CASE outcome = "win"
  <2>1. Streak(symbol, side, n)' = {}
    BY <1>1, <1>2, <1>5 DEF Streak
  <2>2. Cardinality(Streak(symbol, side, n)') = 0
    BY <2>1, FS_EmptySet
  <2> QED
    BY <1>5, <2>2, StreakAssumption DEF Streaks
<1>6. CASE outcome # "win"
  <2>1. Streak(symbol, side, n)' = Run(symbol, side) \union {n}
    BY <1>1, <1>2, <1>6 DEF Streak, Run
  <2>2. IsFiniteSet(Run(symbol, side)) /\ n \notin Run(symbol, side)
    BY <1>1, <1>2, FiniteIndices DEF Run
  <2>3. Cardinality(Run(symbol, side) \union {n}) = losses[symbol][side] + 1
    BY <1>4, <2>2, FS_AddElement
  <2>4. Cardinality(Streak(symbol, side, n)') = losses[symbol][side] + 1
    BY <2>1, <2>3
  <2> QED
    BY <1>1, <1>3, <1>6, <2>4 DEF Streaks, StreakEnd
<1> QED
  BY <1>5, <1>6

\* A day is full at the loss exactly when the counter says so.
LEMMA DaySet ==
    ASSUME TypeOK, Heard, DaysCounted, DailyLimit > 0, NEW symbol \in Symbols, NEW side \in Side,
           Recorded(symbol, side, "loss"), NEW n, n = Len(trades) + 1
    PROVE  FillsDay(symbol, n)' <=> dailyLosses'[symbol][Day(clock)] >= DailyLimit
<1>1. /\ n \in Nat
      /\ n \notin DOMAIN trades /\ DOMAIN trades' = DOMAIN trades \union {n}
      /\ trades'[n].symbol = symbol /\ trades'[n].side = side
      /\ trades'[n].outcome = "loss" /\ trades'[n].at = clock
      /\ \A i \in DOMAIN trades :
           /\ i < n /\ i \in Nat /\ trades'[i] = trades[i]
           /\ trades[i].at \in Nat /\ trades[i].at <= clock
      /\ clock' = clock /\ clock \in Nat
  BY RecordedStep DEF Outcome
<1>2. LossesOf(symbol)' = LossesOf(symbol) \union {n} /\ LossesOf(symbol) \subseteq DOMAIN trades
  BY <1>1 DEF LossesOf
<1>3. Day(clock) \in Days
  BY RecordedTrade DEF Outcome
<1>4. dailyLosses[symbol][Day(clock)] = Cardinality(OnDay(symbol, Day(clock)))
      /\ dailyLosses[symbol][Day(clock)] \in Nat
  BY <1>3 DEF DaysCounted, TypeOK
<1>5. dailyLosses'[symbol][Day(clock)] = dailyLosses[symbol][Day(clock)] + 1
  BY <1>3 DEF Recorded, RecordDailyLoss, TypeOK
<1>6. OnDayOf(LossesOf(symbol), n)' = OnDay(symbol, Day(clock)) \union {n}
  BY <1>1, <1>2 DEF OnDayOf, OnDay
<1>7. IsFiniteSet(OnDay(symbol, Day(clock))) /\ n \notin OnDay(symbol, Day(clock))
  BY <1>1, <1>2, FiniteIndices DEF OnDay
<1> DEFINE old == OnDay(symbol, Day(clock))
<1>8. Cardinality(old \union {n}) = Cardinality(old) + 1
  <2> HIDE DEF old
  <2> QED
    BY <1>7, FS_AddElement DEF old
<1>9. Cardinality(OnDayOf(LossesOf(symbol), n)') = dailyLosses'[symbol][Day(clock)]
  BY <1>4, <1>5, <1>6, <1>8
<1> QED
  BY <1>9 DEF FillsDay

\* The deadline that streaks and days share.
LEMMA SharedDeadline ==
    ASSUME TypeOK, NEW symbol \in Symbols, NEW side \in Side, NEW outcome \in Outcome,
           Recorded(symbol, side, outcome), NEW s \in Symbols, NEW d \in Side
    PROVE  LET count == losses[symbol][side] + 1
               streaked == CASE ~(s = symbol /\ d = side) -> blockedUntil[s][d]
                             [] s = symbol /\ d = side /\ outcome = "win" -> 0
                             [] s = symbol /\ d = side /\ outcome # "win" /\ count >= MaxLosses ->
                                  clock + CooldownAfter(count)
                             [] OTHER -> blockedUntil[s][d]
               full == /\ s = symbol /\ outcome = "loss" /\ DailyLimit > 0
                       /\ dailyLosses'[symbol][Day(clock)] >= DailyLimit
           IN  blockedUntil'[s][d] = IF full THEN Later(streaked, DailyEnd(clock)) ELSE streaked
<1> DEFINE after == AfterStreak(symbol, side, outcome)
<1>1. blockedUntil \in [Symbols -> [Side -> Nat]]
  BY DEF TypeOK
<1>2. after \in [Symbols -> [Side -> Nat]]
  <2>1. losses[symbol][side] + 1 \in Nat
    <3>1. losses \in [Symbols -> [Side -> Nat]]
      BY DEF TypeOK
    <3>2. losses[symbol][side] \in Nat
      BY ONLY <3>1, symbol \in Symbols, side \in Side
    <3> QED
      BY ONLY <3>2
  <2>2. clock + CooldownAfter(losses[symbol][side] + 1) \in Nat
    BY <2>1, CooldownType, RecordedTrade
  <2> QED
    BY <1>1, <2>2 DEF AfterStreak
<1>3. after[s][d] = CASE ~(s = symbol /\ d = side) -> blockedUntil[s][d]
                      [] s = symbol /\ d = side /\ outcome = "win" -> 0
                      [] s = symbol /\ d = side /\ outcome # "win" /\ losses[symbol][side] + 1 >= MaxLosses ->
                           clock + CooldownAfter(losses[symbol][side] + 1)
                      [] OTHER -> blockedUntil[s][d]
  BY <1>1 DEF AfterStreak
<1>4. CASE outcome = "loss" /\ DailyLimit > 0 /\ dailyLosses'[symbol][Day(clock)] >= DailyLimit
  <2>1. blockedUntil' = [after EXCEPT ![symbol] = [x \in Side |-> Later(after[symbol][x], DailyEnd(clock))]]
    BY <1>4 DEF Recorded, RecordDailyLoss
  <2> HIDE DEF after
  <2>2. blockedUntil'[s][d] = IF s = symbol THEN Later(after[s][d], DailyEnd(clock)) ELSE after[s][d]
    BY <1>2, <2>1
  <2> QED
    BY <1>3, <1>4, <2>2
<1>5. CASE ~(outcome = "loss" /\ DailyLimit > 0 /\ dailyLosses'[symbol][Day(clock)] >= DailyLimit)
  <2>1. blockedUntil' = after
    BY <1>5 DEF Recorded, RecordDailyLoss
  <2> HIDE DEF after
  <2> QED
    BY <1>3, <1>5, <2>1
<1> QED
  BY <1>4, <1>5

\* A win ends what the trades before it caused; nothing else does.
LEMMA RecordedPast ==
    ASSUME TypeOK, Heard, NEW symbol \in Symbols, NEW side \in Side, NEW outcome \in Outcome,
           Recorded(symbol, side, outcome), NEW s \in Symbols, NEW d \in Side
    PROVE  LET new == Len(trades) + 1 IN
           /\ Of(s, d)' = Of(s, d) \union (IF s = symbol /\ d = side THEN {new} ELSE {})
           /\ LossesOf(s)' = LossesOf(s) \union (IF s = symbol /\ outcome = "loss" THEN {new} ELSE {})
           /\ Of(s, d) \subseteq DOMAIN trades /\ LossesOf(s) \subseteq DOMAIN trades
           /\ \A i \in DOMAIN trades :
                /\ Streaks(s, d, i)' <=> Streaks(s, d, i) /\ ~(s = symbol /\ d = side /\ outcome = "win")
                /\ StreakEnd(s, d, i)' = StreakEnd(s, d, i)
                /\ FillsDay(s, i)' <=> FillsDay(s, i)
<1>1. PICK new \in Nat :
        /\ new = Len(trades) + 1
        /\ new \notin DOMAIN trades /\ DOMAIN trades' = DOMAIN trades \union {new}
        /\ trades'[new].symbol = symbol /\ trades'[new].side = side
        /\ trades'[new].outcome = outcome /\ trades'[new].at = clock
        /\ \A i \in DOMAIN trades : i < new /\ i \in Nat /\ trades'[i] = trades[i]
  BY RecordedStep
<1>2. /\ Of(s, d)' = Of(s, d) \union (IF s = symbol /\ d = side THEN {new} ELSE {})
      /\ LossesOf(s)' = LossesOf(s) \union (IF s = symbol /\ outcome = "loss" THEN {new} ELSE {})
      /\ Of(s, d) \subseteq DOMAIN trades /\ LossesOf(s) \subseteq DOMAIN trades
  BY <1>1 DEF Of, LossesOf
<1>3. ASSUME NEW i \in DOMAIN trades
      PROVE  /\ Streak(s, d, i)' = Streak(s, d, i)
             /\ StreakEnd(s, d, i)' = StreakEnd(s, d, i)
             /\ FillsDay(s, i)' <=> FillsDay(s, i)
  BY Past, RecordedTrade DEF Recorded
<1>4. ASSUME NEW i \in DOMAIN trades
      PROVE  Streaks(s, d, i)' <=> Streaks(s, d, i) /\ ~(s = symbol /\ d = side /\ outcome = "win")
  <2>1. (\A k \in Of(s, d) : k > i => trades[k].outcome # "win")'
          <=> /\ \A k \in Of(s, d) : k > i => trades[k].outcome # "win"
              /\ ~(s = symbol /\ d = side /\ outcome = "win")
    BY <1>1, <1>2
  <2> QED
    BY <1>3, <2>1 DEF Streaks
<1> QED
  BY <1>1, <1>2, <1>3, <1>4

LEMMA RecordedStreakCaused ==
    ASSUME TypeOK, Heard, StreaksCounted, DaysCounted, StreakCaused,
           NEW symbol \in Symbols, NEW side \in Side, NEW outcome \in Outcome,
           Recorded(symbol, side, outcome)
    PROVE  StreakCaused'
<1> SUFFICES ASSUME NEW s \in Symbols, NEW d \in Side
             PROVE  \/ blockedUntil'[s][d] = 0
                    \/ \E i \in Of(s, d)' : Streaks(s, d, i)' /\ blockedUntil'[s][d] = StreakEnd(s, d, i)'
                    \/ DailyLimit > 0 /\ \E i \in LossesOf(s)' :
                          FillsDay(s, i)' /\ blockedUntil'[s][d] = DailyEnd(trades'[i].at)
  BY DEF StreakCaused
<1>1. PICK new \in Nat :
        /\ new = Len(trades) + 1
        /\ new \notin DOMAIN trades /\ DOMAIN trades' = DOMAIN trades \union {new}
        /\ trades'[new].at = clock
        /\ \A i \in DOMAIN trades : trades'[i] = trades[i]
  BY RecordedStep
<1>2. /\ Of(s, d)' = Of(s, d) \union (IF s = symbol /\ d = side THEN {new} ELSE {})
      /\ LossesOf(s)' = LossesOf(s) \union (IF s = symbol /\ outcome = "loss" THEN {new} ELSE {})
      /\ Of(s, d) \subseteq DOMAIN trades /\ LossesOf(s) \subseteq DOMAIN trades
      /\ \A i \in DOMAIN trades :
           /\ Streaks(s, d, i)' <=> Streaks(s, d, i) /\ ~(s = symbol /\ d = side /\ outcome = "win")
           /\ StreakEnd(s, d, i)' = StreakEnd(s, d, i)
           /\ FillsDay(s, i)' <=> FillsDay(s, i)
  BY <1>1, RecordedPast
<1> DEFINE count == losses[symbol][side] + 1
           full == /\ s = symbol /\ outcome = "loss" /\ DailyLimit > 0
                   /\ dailyLosses'[symbol][Day(clock)] >= DailyLimit
<1>3. CASE blockedUntil'[s][d] = 0
  BY <1>3
<1>4. CASE blockedUntil'[s][d] = blockedUntil[s][d] /\ ~(s = symbol /\ d = side /\ outcome = "win")
  BY <1>1, <1>2, <1>4 DEF StreakCaused
<1>5. CASE /\ s = symbol /\ d = side /\ outcome # "win" /\ count >= MaxLosses
           /\ blockedUntil'[s][d] = clock + CooldownAfter(count)
  <2>1. Streaks(s, d, new)' /\ StreakEnd(s, d, new)' = clock + CooldownAfter(count)
    BY <1>1, <1>5, StreakSet
  <2> QED
    BY <1>2, <1>5, <2>1
<1>6. CASE full /\ blockedUntil'[s][d] = DailyEnd(clock)
  <2>1. FillsDay(s, new)'
    BY <1>1, <1>6, DaySet
  <2>2. new \in LossesOf(s)'
    BY <1>2, <1>6
  <2> QED
    BY <1>1, <1>6, <2>1, <2>2
<1>7. \/ blockedUntil'[s][d] = 0
      \/ blockedUntil'[s][d] = blockedUntil[s][d] /\ ~(s = symbol /\ d = side /\ outcome = "win")
      \/ /\ s = symbol /\ d = side /\ outcome # "win" /\ count >= MaxLosses
         /\ blockedUntil'[s][d] = clock + CooldownAfter(count)
      \/ full /\ blockedUntil'[s][d] = DailyEnd(clock)
  <2> DEFINE streaked == CASE ~(s = symbol /\ d = side) -> blockedUntil[s][d]
                           [] s = symbol /\ d = side /\ outcome = "win" -> 0
                           [] s = symbol /\ d = side /\ outcome # "win" /\ count >= MaxLosses ->
                                clock + CooldownAfter(count)
                           [] OTHER -> blockedUntil[s][d]
  <2>1. blockedUntil'[s][d] = IF full THEN Later(streaked, DailyEnd(clock)) ELSE streaked
    BY SharedDeadline
  <2>2. blockedUntil'[s][d] = streaked \/ (full /\ blockedUntil'[s][d] = DailyEnd(clock))
    BY <2>1 DEF Later
  <2> QED
    BY <2>2
<1> QED
  BY <1>3, <1>4, <1>5, <1>6, <1>7

LEMMA RecordedStreakServed ==
    ASSUME TypeOK, Heard, StreaksCounted, StreakServed, CooldownsRise,
           NEW symbol \in Symbols, NEW side \in Side, NEW outcome \in Outcome,
           Recorded(symbol, side, outcome)
    PROVE  StreakServed'
<1> SUFFICES ASSUME NEW s \in Symbols, NEW d \in Side, NEW i \in Of(s, d)', Streaks(s, d, i)'
             PROVE  StreakEnd(s, d, i)' <= blockedUntil'[s][d]
  BY DEF StreakServed
<1>1. PICK new \in Nat :
        /\ new = Len(trades) + 1
        /\ new \notin DOMAIN trades /\ DOMAIN trades' = DOMAIN trades \union {new}
        /\ \A j \in DOMAIN trades :
             /\ j < new /\ j \in Nat /\ trades'[j] = trades[j]
             /\ trades[j].at \in Nat /\ trades[j].at <= clock
        /\ clock \in Nat
  BY RecordedStep
<1>2. /\ Of(s, d)' = Of(s, d) \union (IF s = symbol /\ d = side THEN {new} ELSE {})
      /\ Of(s, d) \subseteq DOMAIN trades
      /\ \A j \in DOMAIN trades :
           /\ Streaks(s, d, j)' <=> Streaks(s, d, j) /\ ~(s = symbol /\ d = side /\ outcome = "win")
           /\ StreakEnd(s, d, j)' = StreakEnd(s, d, j)
  BY <1>1, RecordedPast
<1> DEFINE count == losses[symbol][side] + 1
           streaked == CASE ~(s = symbol /\ d = side) -> blockedUntil[s][d]
                         [] s = symbol /\ d = side /\ outcome = "win" -> 0
                         [] s = symbol /\ d = side /\ outcome # "win" /\ count >= MaxLosses ->
                              clock + CooldownAfter(count)
                         [] OTHER -> blockedUntil[s][d]
<1>3. count \in Nat /\ CooldownAfter(count) \in Nat
  <2>1. losses \in [Symbols -> [Side -> Nat]]
    BY DEF TypeOK
  <2>2. losses[symbol][side] \in Nat
    BY ONLY <2>1, symbol \in Symbols, side \in Side
  <2>3. count \in Nat
    BY ONLY <2>2 DEF count
  <2> QED
    BY <2>3, CooldownType
<1>4. streaked \in Nat /\ blockedUntil'[s][d] \in Nat /\ streaked <= blockedUntil'[s][d]
  <2>1. blockedUntil[s][d] \in Nat
    BY DEF TypeOK
  <2>2. streaked \in Nat
    BY <1>1, <1>3, <2>1
  <2>3. DailyEnd(clock) \in Nat
    BY RecordedTrade
  <2>4. blockedUntil'[s][d] \in {streaked, Later(streaked, DailyEnd(clock))}
    BY SharedDeadline
  <2> HIDE DEF streaked
  <2> QED
    BY <2>2, <2>3, <2>4 DEF Later
<1>5. CASE i = new
  <2>1. s = symbol /\ d = side
    BY <1>1, <1>2, <1>5
  <2>2. outcome # "win" /\ count >= MaxLosses /\ StreakEnd(s, d, i)' = clock + CooldownAfter(count)
    BY <1>1, <1>5, <2>1, StreakSet
  <2>3. streaked = clock + CooldownAfter(count)
    BY <2>1, <2>2
  <2> QED
    BY <1>4, <2>2, <2>3
<1>6. CASE i # new
  <2>1. /\ i \in Of(s, d) /\ i \in DOMAIN trades
        /\ Streaks(s, d, i) /\ ~(s = symbol /\ d = side /\ outcome = "win")
        /\ StreakEnd(s, d, i)' = StreakEnd(s, d, i)
    BY <1>2, <1>6
  <2> DEFINE length == Cardinality(Streak(s, d, i))
  <2>2. length \in Nat /\ IsFiniteSet(Run(s, d)) /\ Cardinality(Run(s, d)) \in Nat
    BY FiniteIndices DEF Streak, Run, Of
  <2>3. StreakEnd(s, d, i) = trades[i].at + CooldownAfter(length) /\ CooldownAfter(length) \in Nat
    BY <2>2, CooldownType DEF StreakEnd
  <2>4. StreakEnd(s, d, i) <= blockedUntil[s][d] /\ blockedUntil[s][d] \in Nat
    BY <2>1 DEF StreakServed, TypeOK
  <2>5. CASE s = symbol /\ d = side
    <3>1. Streak(s, d, i) \subseteq Run(s, d)
      BY <1>1, <1>2, <2>1 DEF Streak, Streaks, Run
    <3>2. length <= losses[s][d]
      BY <2>2, <3>1, FS_Subset DEF StreaksCounted
    <3>3. MaxLosses <= length
      BY <2>1, <2>2, StreakAssumption DEF Streaks
    <3>4. length <= count /\ MaxLosses <= count
      BY <1>3, <2>2, <2>5, <3>2, <3>3, StreakAssumption DEF TypeOK
    <3>5. CooldownAfter(length) <= CooldownAfter(count)
      BY <1>3, <2>2, <3>3, <3>4 DEF CooldownsRise
    <3>6. streaked = clock + CooldownAfter(count)
      BY <1>3, <2>1, <2>5, <3>4
    <3> HIDE DEF streaked
    <3> QED
      BY <1>1, <1>3, <1>4, <2>1, <2>3, <3>5, <3>6
  <2>6. CASE ~(s = symbol /\ d = side)
    <3>1. streaked = blockedUntil[s][d]
      BY <2>6
    <3> HIDE DEF streaked
    <3>2. StreakEnd(s, d, i) \in Nat
      BY <1>1, <2>1, <2>3
    <3> QED
      BY <1>4, <2>1, <2>4, <3>1, <3>2
  <2> QED
    BY <2>5, <2>6
<1> QED
  BY <1>5, <1>6

--------------------------------------------------------------------------------
(* The day's balance and its halt.                                         *)

Sighting == [balance : Balances, at : 0 .. MaxClock]

LEMMA Sighted ==
    ASSUME TypeOK, Heard, NEW balance \in Balances,
           sightings' = Append(sightings, [balance |-> balance, at |-> clock]), clock' = clock
    PROVE  LET new == Len(sightings) + 1 IN
           /\ new \in Nat /\ new > 0 /\ new \notin DOMAIN sightings
           /\ DOMAIN sightings = 1 .. new - 1 /\ DOMAIN sightings' = 1 .. new
           /\ sightings' \in Seq(Sighting) /\ Len(sightings') = new
           /\ sightings'[new].balance = balance /\ sightings'[new].at = clock
           /\ \A i \in DOMAIN sightings :
                /\ sightings'[i] = sightings[i]
                /\ sightings[i].at \in Nat /\ sightings[i].at <= clock
           /\ clock \in Nat
<1> DEFINE t == [balance |-> balance, at |-> clock]
<1>1. clock \in Nat /\ clock \in 0 .. MaxClock
  BY TimeAssumption DEF TypeOK
<1>2. t \in Sighting /\ t.balance = balance /\ t.at = clock
  BY <1>1 DEF Sighting
<1>3. sightings \in Seq(Sighting)
  BY DEF TypeOK, Sighting
<1> HIDE DEF t
<1>4. /\ Append(sightings, t) \in Seq(Sighting)
      /\ Len(Append(sightings, t)) = Len(sightings) + 1
      /\ \A i \in 1 .. Len(sightings) : Append(sightings, t)[i] = sightings[i]
      /\ Append(sightings, t)[Len(sightings) + 1] = t
  BY <1>2, <1>3, AppendProperties
<1>5. Len(sightings) \in Nat /\ DOMAIN sightings = 1 .. Len(sightings)
  BY <1>3, LenProperties
<1>6. DOMAIN Append(sightings, t) = 1 .. Len(Append(sightings, t))
  BY <1>4, LenProperties
<1>7. \A i \in DOMAIN sightings : sightings[i] \in Sighting
  BY <1>3, <1>5, ElementOfSeq
<1>8. \A i \in DOMAIN sightings : sightings[i].at \in Nat
  BY <1>7, TimeAssumption DEF Sighting
<1>9. sightings' = Append(sightings, t)
  BY DEF t
<1> QED
  BY <1>1, <1>2, <1>4, <1>5, <1>6, <1>8, <1>9 DEF Heard

\* A sighting that showed a drawdown shows it for ever.
LEMMA DrawnPast ==
    ASSUME TypeOK, Heard, NEW balance \in Balances,
           sightings' = Append(sightings, [balance |-> balance, at |-> clock]), clock' = clock,
           NEW i \in DOMAIN sightings
    PROVE  IsDrawn(i)' <=> IsDrawn(i)
<1>1. PICK new \in Nat :
        /\ DOMAIN sightings = 1 .. new - 1
        /\ \A k \in DOMAIN sightings : sightings'[k] = sightings[k]
  BY Sighted
<1>2. i \in 1 .. new - 1 /\ \A k \in 1 .. i : k \in DOMAIN sightings
  BY <1>1
<1>3. \A j \in 1 .. i : \A k \in 1 .. j - 1 : k \in 1 .. i
  BY <1>2
<1> QED
  BY <1>1, <1>2, <1>3 DEF IsDrawn

Sees(balance) ==
    /\ startBalance' = FirstOfDay(balance)
    /\ currentDay' = Day(clock)
    /\ globalBlockedUntil' =
         IF Drawn(startBalance', balance) /\ (globalBlockedUntil = 0 \/ clock > globalBlockedUntil)
         THEN clock + DayLength
         ELSE globalBlockedUntil
    /\ sightings' = Append(sightings, [balance |-> balance, at |-> clock])
    /\ UNCHANGED <<clock, tradeVars>>

LEMMA SeenDay ==
    ASSUME TypeOK, Heard, DayBegun, NEW balance \in Balances, Sees(balance)
    PROVE  DayBegun'
<1>1. PICK new \in Nat :
        /\ new = Len(sightings) + 1 /\ new > 0 /\ new \notin DOMAIN sightings
        /\ DOMAIN sightings = 1 .. new - 1 /\ DOMAIN sightings' = 1 .. new
        /\ Len(sightings') = new
        /\ sightings'[new].balance = balance /\ sightings'[new].at = clock
        /\ \A i \in DOMAIN sightings :
             /\ sightings'[i] = sightings[i]
             /\ sightings[i].at \in Nat /\ sightings[i].at <= clock
        /\ clock \in Nat
  BY Sighted DEF Sees
<1>2. sightings' # <<>>
  BY <1>1
<1>3. currentDay' = Day(clock) /\ Day(clock) \in Nat /\ startBalance' = FirstOfDay(balance)
  BY <1>1, DayMonotone DEF Sees
<1>4. \A i \in DOMAIN sightings : Day(sightings[i].at) \in Nat /\ Day(sightings[i].at) <= Day(clock)
  BY <1>1, DayMonotone
<1>5. \A i \in DOMAIN sightings' : Day(sightings'[i].at) <= Day(clock)
  BY <1>1, <1>3, <1>4
<1>6. \E j \in DOMAIN sightings' :
        /\ Day(sightings'[j].at) = Day(clock)
        /\ \A k \in 1 .. j - 1 : Day(sightings'[k].at) # Day(clock)
        /\ startBalance' = sightings'[j].balance
  <2>1. CASE currentDay = Day(clock)
    <3>1. sightings # <<>> /\ startBalance' = startBalance
      BY <1>3, <2>1 DEF DayBegun, FirstOfDay
    <3>2. PICK j \in DOMAIN sightings :
            /\ Day(sightings[j].at) = currentDay
            /\ \A k \in 1 .. j - 1 : Day(sightings[k].at) # currentDay
            /\ startBalance = sightings[j].balance
      BY ONLY <3>1, DayBegun DEF DayBegun
    <3>3. j \in DOMAIN sightings' /\ sightings'[j] = sightings[j]
      BY ONLY <1>1, <3>2
    <3>4. \A k \in 1 .. j - 1 : k \in DOMAIN sightings /\ sightings'[k] = sightings[k]
      BY ONLY <1>1, <3>2
    <3> QED
      BY ONLY <2>1, <3>1, <3>2, <3>3, <3>4
  <2>2. CASE currentDay # Day(clock)
    <3>1. startBalance' = balance
      BY <1>3, <2>2 DEF FirstOfDay
    <3>2. \A k \in DOMAIN sightings : Day(sightings[k].at) # Day(clock)
      <4>1. CASE sightings = <<>>
        BY <4>1
      <4>2. CASE sightings # <<>>
        <5>1. /\ currentDay = Day(sightings[Len(sightings)].at)
              /\ \A i \in DOMAIN sightings : Day(sightings[i].at) <= currentDay
          BY <4>2 DEF DayBegun
        <5>2. Len(sightings) \in DOMAIN sightings
          BY <4>2, EmptySeq, LenProperties DEF TypeOK
        <5>3. currentDay \in Nat /\ currentDay < Day(clock)
          BY <1>3, <1>4, <2>2, <5>1, <5>2
        <5> QED
          BY <1>3, <1>4, <5>1, <5>3
      <4> QED
        BY <4>1, <4>2
    <3> QED
      BY <1>1, <3>1, <3>2
  <2> QED
    BY <2>1, <2>2
<1> QED
  BY <1>1, <1>2, <1>3, <1>5, <1>6 DEF DayBegun

\* The balance of the day is what the drawdown is measured against.
LEMMA SeenDrawdown ==
    ASSUME TypeOK, Heard, DayBegun, NEW balance \in Balances, Sees(balance),
           NEW n, n = Len(sightings) + 1
    PROVE  IsDrawn(n)' <=> Drawn(startBalance', balance)
<1>1. /\ n \in Nat /\ n > 0
      /\ DOMAIN sightings' = 1 .. n /\ Len(sightings') = n
      /\ sightings'[n].balance = balance /\ sightings'[n].at = clock
  BY Sighted DEF Sees
<1>2. sightings' # <<>> /\ currentDay' = Day(clock)
  BY <1>1 DEF Sees
<1>3. PICK j \in 1 .. n :
        /\ Day(sightings'[j].at) = Day(clock)
        /\ \A k \in 1 .. j - 1 : Day(sightings'[k].at) # Day(clock)
        /\ startBalance' = sightings'[j].balance
  BY <1>1, <1>2, SeenDay DEF DayBegun
<1>4. ASSUME NEW i \in 1 .. n, Day(sightings'[i].at) = Day(clock),
             \A k \in 1 .. i - 1 : Day(sightings'[k].at) # Day(clock)
      PROVE  i = j
  BY <1>1, <1>3, <1>4
<1>5. IsDrawn(n)' <=> \E i \in 1 .. n :
                        /\ Day(sightings'[i].at) = Day(clock)
                        /\ \A k \in 1 .. i - 1 : Day(sightings'[k].at) # Day(clock)
                        /\ Drawn(sightings'[i].balance, balance)
  BY <1>1 DEF IsDrawn
<1> QED
  BY <1>3, <1>4, <1>5

LEMMA SeenHalt ==
    ASSUME TypeOK, Heard, DayBegun, HaltCaused, NEW balance \in Balances, Sees(balance)
    PROVE  HaltCaused' /\ DrawdownHalts'
<1>1. PICK new \in Nat :
        /\ new = Len(sightings) + 1 /\ new > 0 /\ new \notin DOMAIN sightings
        /\ DOMAIN sightings = 1 .. new - 1 /\ DOMAIN sightings' = 1 .. new
        /\ Len(sightings') = new
        /\ sightings'[new].at = clock
        /\ \A i \in DOMAIN sightings : sightings'[i] = sightings[i]
        /\ clock \in Nat
  BY Sighted DEF Sees
<1>2. \A i \in DOMAIN sightings : IsDrawn(i)' <=> IsDrawn(i)
  BY DrawnPast DEF Sees
<1>3. IsDrawn(new)' <=> Drawn(startBalance', balance)
  BY <1>1, SeenDrawdown
<1>4. globalBlockedUntil' =
        IF Drawn(startBalance', balance) /\ (globalBlockedUntil = 0 \/ clock > globalBlockedUntil)
        THEN clock + DayLength
        ELSE globalBlockedUntil
  BY DEF Sees
<1>5. HaltCaused'
  <2>1. CASE globalBlockedUntil' = globalBlockedUntil
    BY <1>1, <1>2, <2>1 DEF HaltCaused
  <2>2. CASE globalBlockedUntil' # globalBlockedUntil
    BY <1>1, <1>3, <1>4, <2>2 DEF HaltCaused
  <2> QED
    BY <2>1, <2>2
<1>6. DrawdownHalts'
  <2>1. globalBlockedUntil \in Nat /\ DayLength \in Nat /\ clock' = clock
    BY TimeAssumption DEF TypeOK, Sees
  <2>2. IsDrawn(new)' => clock <= globalBlockedUntil'
    BY <1>1, <1>3, <1>4, <2>1
  <2> QED
    BY <1>1, <2>1, <2>2 DEF DrawdownHalts
<1> QED
  BY <1>5, <1>6

--------------------------------------------------------------------------------
(* The invariant, step by step.                                            *)

LEMMA TypeInit == Init => TypeOK
<1> SUFFICES ASSUME Init PROVE TypeOK
  OBVIOUS
<1>1. clock \in 0 .. MaxClock
  BY TimeAssumption DEF Init
<1>2. trades \in Seq(Trade) /\ sightings \in Seq([balance : Balances, at : 0 .. MaxClock])
  BY EmptySeq DEF Init
<1> QED
  BY <1>1, <1>2 DEF Init, TypeOK

LEMMA IInvInit == Init => IInv
<1> SUFFICES ASSUME Init PROVE IInv
  OBVIOUS
<1>1. TypeOK
  BY TypeInit
<1>2. trades = <<>> /\ sightings = <<>> /\ DOMAIN trades = {} /\ DOMAIN sightings = {}
  BY DEF Init
<1>3. \A s \in Symbols, d \in Side :
        /\ Of(s, d) = {} /\ LossesOf(s) = {} /\ LossesOn(d) = {} /\ LossesAt(s, d) = {}
        /\ Run(s, d) = {}
  BY <1>2 DEF Of, LossesOf, LossesOn, LossesAt, Run
<1>4. \A s \in Symbols, day \in Days : OnDay(s, day) = {}
  BY <1>2 DEF OnDay, LossesOf
<1>5. Counted
  BY <1>2, <1>3, <1>4, FS_EmptySet
     DEF Init, Counted, StreaksCounted, DaysCounted, SideListed, DirectionListed, LossesAt, Of, LossesOn
<1>6. Caused
  BY DEF Init, Caused, StreakCaused, QuarantineCaused, DirectionCaused
<1>7. Served
  BY <1>2 DEF Served, QuarantineServed, DirectionServed, LossesAt, Of, LossesOn
<1>8. Heard
  BY <1>2 DEF Heard
<1>9. Balanced
  BY <1>2 DEF Init, Balanced, DayBegun, HaltCaused, DrawdownHalts
<1> QED
  BY <1>1, <1>5, <1>6, <1>7, <1>8, <1>9 DEF IInv

\* What the trades say changes only with them.
LEMMA HistoryKept ==
    ASSUME UNCHANGED trades
    PROVE  /\ \A s, d : Of(s, d)' = Of(s, d) /\ LossesOf(s)' = LossesOf(s) /\ LossesOn(d)' = LossesOn(d)
           /\ \A s, d, i : /\ Streak(s, d, i)' = Streak(s, d, i)
                           /\ Streaks(s, d, i)' <=> Streaks(s, d, i)
                           /\ StreakEnd(s, d, i)' = StreakEnd(s, d, i)
                           /\ Quarantines(s, d, i)' <=> Quarantines(s, d, i)
                           /\ TurnsSide(d, i)' <=> TurnsSide(d, i)
                           /\ FillsDay(s, i)' <=> FillsDay(s, i)
<1>1. /\ \A s, d : Of(s, d)' = Of(s, d) /\ LossesOf(s)' = LossesOf(s) /\ LossesOn(d)' = LossesOn(d)
      /\ \A s, d, i : Streak(s, d, i)' = Streak(s, d, i)
  BY DEF Of, LossesOf, LossesOn, Streak
<1>2. \A s, d, i : (Streaks(s, d, i)' <=> Streaks(s, d, i)) /\ StreakEnd(s, d, i)' = StreakEnd(s, d, i)
  BY <1>1 DEF Streaks, StreakEnd
<1>3. \A s, d, i : Quarantines(s, d, i)' <=> Quarantines(s, d, i)
  BY <1>1 DEF Quarantines, Within
<1>4. ASSUME NEW d, NEW i PROVE TurnsSide(d, i)' <=> TurnsSide(d, i)
  <2>1. Within(LossesOn(d), DirectionWindow, i)' = Within(LossesOn(d), DirectionWindow, i)
    BY <1>1 DEF Within
  <2> DEFINE J == Within(LossesOn(d), DirectionWindow, i)
  <2>2. {trades[j].symbol : j \in J}' = {trades[j].symbol : j \in J}
    BY <2>1
  <2> QED
    BY <2>2 DEF TurnsSide
<1>5. ASSUME NEW s, NEW i PROVE FillsDay(s, i)' <=> FillsDay(s, i)
  <2>1. OnDayOf(LossesOf(s), i)' = OnDayOf(LossesOf(s), i)
    BY <1>1 DEF OnDayOf
  <2> QED
    BY <2>1 DEF FillsDay
<1> QED
  BY <1>1, <1>2, <1>3, <1>4, <1>5

\* While the breaker hears of no trade, what it knows of trades stays.
LEMMA TradesKept ==
    ASSUME UNCHANGED <<clock, tradeVars>>
    PROVE  /\ Counted' <=> Counted
           /\ Caused' <=> Caused
           /\ Served' <=> Served
           /\ StreakServed' <=> StreakServed
<1>1. UNCHANGED <<clock, losses, blockedUntil, windowBlockedUntil, sideLosses,
                  directionLosses, directionBlockedUntil, dailyLosses, trades>>
  BY DEF tradeVars
<1>2. /\ \A s, d : Of(s, d)' = Of(s, d) /\ LossesOf(s)' = LossesOf(s) /\ LossesOn(d)' = LossesOn(d)
      /\ \A s, d, i : /\ Streaks(s, d, i)' <=> Streaks(s, d, i)
                      /\ StreakEnd(s, d, i)' = StreakEnd(s, d, i)
                      /\ Quarantines(s, d, i)' <=> Quarantines(s, d, i)
                      /\ TurnsSide(d, i)' <=> TurnsSide(d, i)
                      /\ FillsDay(s, i)' <=> FillsDay(s, i)
  BY <1>1, HistoryKept
<1>3. Counted' <=> Counted
  <2>1. \A s, d : Run(s, d)' = Run(s, d) /\ OnDay(s, d)' = OnDay(s, d) /\ LossesAt(s, d)' = LossesAt(s, d)
    BY <1>1, <1>2 DEF Run, OnDay, LossesAt
  <2>2. (StreaksCounted' <=> StreaksCounted) /\ (DaysCounted' <=> DaysCounted)
    BY <1>1, <2>1 DEF StreaksCounted, DaysCounted
  <2>3. (SideListed' <=> SideListed) /\ (DirectionListed' <=> DirectionListed)
    BY <1>1, <1>2, <2>1 DEF SideListed, DirectionListed
  <2> QED
    BY <2>2, <2>3 DEF Counted
<1>4. Caused' <=> Caused
  <2>1. StreakCaused' <=> StreakCaused
    BY ONLY <1>1, <1>2 DEF StreakCaused
  <2>2. QuarantineCaused' <=> QuarantineCaused
    BY ONLY <1>1, <1>2 DEF QuarantineCaused, LossesAt
  <2>3. DirectionCaused' <=> DirectionCaused
    BY ONLY <1>1, <1>2 DEF DirectionCaused
  <2> QED
    BY ONLY <2>1, <2>2, <2>3 DEF Caused
<1>5. (Served' <=> Served) /\ (StreakServed' <=> StreakServed)
  BY <1>1, <1>2 DEF Served, QuarantineServed, DirectionServed, StreakServed, LossesAt
<1> QED
  BY <1>3, <1>4, <1>5

LEMMA BalancesKept ==
    ASSUME UNCHANGED <<clock, portfolioVars>>
    PROVE  Balanced' <=> Balanced
<1>1. UNCHANGED <<clock, startBalance, currentDay, globalBlockedUntil, sightings>>
  BY DEF portfolioVars
<1>2. \A i : IsDrawn(i)' <=> IsDrawn(i)
  BY <1>1 DEF IsDrawn
<1> QED
  BY <1>1, <1>2 DEF Balanced, DayBegun, HaltCaused, DrawdownHalts

LEMMA RecordKeeps ==
    ASSUME IInv, RecordTrade
    PROVE  IInv' /\ (StreakServed /\ CooldownsRise => StreakServed')
<1>1. PICK symbol \in Symbols, side \in Side, outcome \in Outcome : Recorded(symbol, side, outcome)
  BY DEF RecordTrade, Recorded, TradeOf
<1>2. TypeOK' /\ Heard'
  BY <1>1, RecordedType, RecordedHeard DEF IInv
<1>3. Counted'
  BY <1>1, RecordedStreaks, RecordedDays, RecordedSideList, RecordedDirectionList DEF IInv, Counted
<1>4. Caused' /\ Served'
  BY <1>1, RecordedStreakCaused, RecordedQuarantine, RecordedDirection DEF IInv, Counted, Caused, Served
<1>5. Balanced'
  BY <1>1, BalancesKept DEF IInv, Recorded
<1>6. StreakServed /\ CooldownsRise => StreakServed'
  BY <1>1, RecordedStreakServed DEF IInv, Counted
<1> QED
  BY <1>2, <1>3, <1>4, <1>5, <1>6 DEF IInv

LEMMA UpdateKeeps ==
    ASSUME IInv, UpdatePortfolioState
    PROVE  IInv' /\ (StreakServed => StreakServed')
<1>1. PICK balance \in Balances : Sees(balance)
  BY DEF UpdatePortfolioState, Sees
<1>2. UNCHANGED <<clock, tradeVars>> /\ TypeOK
  BY <1>1 DEF Sees, IInv
<1>3. TypeOK'
  <2>1. sightings' \in Seq(Sighting) /\ clock \in Nat
    BY <1>1, Sighted DEF IInv, Sees
  <2>2. Day(clock) \in Days
    <3>1. clock \in 0 .. MaxClock /\ MaxClock \in Nat
      BY <1>2, TimeAssumption DEF TypeOK
    <3> QED
      BY <3>1, DayMonotone DEF Days
  <2>3. startBalance' \in Balances \union {0}
    BY <1>1, <1>2 DEF Sees, FirstOfDay, TypeOK
  <2>4. globalBlockedUntil' \in Nat
    BY <1>1, <1>2, <2>1, TimeAssumption DEF Sees, TypeOK
  <2>5. currentDay' \in Days \union {-1}
    BY <1>1, <2>2 DEF Sees
  <2> QED
    BY <1>2, <2>1, <2>3, <2>4, <2>5 DEF TypeOK, tradeVars, Sighting
<1>4. Heard'
  <2>1. \A i \in DOMAIN sightings' : sightings'[i].at <= clock
    <3>1. PICK new \in Nat :
            /\ DOMAIN sightings = 1 .. new - 1 /\ DOMAIN sightings' = 1 .. new
            /\ sightings'[new].at = clock
            /\ \A i \in DOMAIN sightings : sightings'[i] = sightings[i] /\ sightings[i].at <= clock
            /\ clock \in Nat
      BY <1>1, Sighted DEF IInv, Sees
    <3> QED
      BY <3>1
  <2> QED
    BY <1>2, <2>1 DEF IInv, Heard, tradeVars
<1>5. Counted' /\ Caused' /\ Served' /\ (StreakServed => StreakServed')
  BY <1>2, TradesKept DEF IInv
<1>6. Balanced'
  BY <1>1, SeenDay, SeenHalt DEF IInv, Balanced
<1> QED
  BY <1>3, <1>4, <1>5, <1>6 DEF IInv

LEMMA TickKeeps ==
    ASSUME IInv, Tick
    PROVE  IInv' /\ (StreakServed => StreakServed')
<1>1. /\ clock' = clock + 1 /\ clock < MaxClock
      /\ UNCHANGED <<losses, blockedUntil, windowBlockedUntil, sideLosses, directionLosses,
                     directionBlockedUntil, dailyLosses, startBalance, currentDay,
                     globalBlockedUntil, trades, sightings>>
  BY DEF Tick, tradeVars, portfolioVars
<1>2. clock \in Nat /\ clock' \in Nat
  BY <1>1, TimeAssumption DEF IInv, TypeOK
<1>3. TypeOK'
  <2>1. clock' \in 0 .. MaxClock
    BY <1>1, <1>2, TimeAssumption DEF IInv, TypeOK
  <2> QED
    BY <1>1, <2>1 DEF IInv, TypeOK
<1>4. /\ \A i \in DOMAIN trades : trades[i].at \in Nat /\ trades[i].at <= clock
      /\ \A i \in DOMAIN sightings : sightings[i].at \in Nat /\ sightings[i].at <= clock
  <2>1. /\ \A i \in DOMAIN trades : trades[i] \in Trade
        /\ \A i \in DOMAIN sightings : sightings[i] \in Sighting
    BY LenProperties, ElementOfSeq DEF IInv, TypeOK, Sighting
  <2> QED
    BY <2>1, TimeAssumption DEF IInv, Heard, Trade, Sighting
<1>5. Heard'
  BY <1>1, <1>2, <1>4 DEF Heard
<1>6. /\ \A s, d : Of(s, d)' = Of(s, d) /\ LossesOf(s)' = LossesOf(s) /\ LossesOn(d)' = LossesOn(d)
      /\ \A s, d, i : /\ Streaks(s, d, i)' <=> Streaks(s, d, i)
                      /\ StreakEnd(s, d, i)' = StreakEnd(s, d, i)
                      /\ Quarantines(s, d, i)' <=> Quarantines(s, d, i)
                      /\ TurnsSide(d, i)' <=> TurnsSide(d, i)
                      /\ FillsDay(s, i)' <=> FillsDay(s, i)
  BY <1>1, HistoryKept
<1>7. Caused'
  BY <1>1, <1>6 DEF IInv, Caused, StreakCaused, QuarantineCaused, DirectionCaused, LossesAt
<1>8. Served' /\ (StreakServed => StreakServed')
  BY <1>1, <1>6 DEF IInv, Served, QuarantineServed, DirectionServed, StreakServed, LossesAt
<1>9. Counted'
  <2>1. StreaksCounted' /\ DaysCounted'
    BY <1>1, <1>6 DEF IInv, Counted, StreaksCounted, DaysCounted, Run, OnDay
  <2>2. SideListed'
    <3>1. \A w \in Nat, j \in DOMAIN trades : trades[j].at >= clock' - w => trades[j].at >= clock - w
      BY <1>1, <1>2, <1>4
    <3>2. \A s \in Symbols, d \in Side : LossesAt(s, d)' = LossesAt(s, d) /\ LossesAt(s, d) \subseteq DOMAIN trades
      BY <1>6 DEF LossesAt, Of
    <3> QED
      BY <1>1, <3>1, <3>2, WindowAssumption DEF IInv, Counted, SideListed
  <2>3. DirectionListed'
    <3>1. \A w \in Nat, j \in DOMAIN trades : trades[j].at >= clock' - w => trades[j].at >= clock - w
      BY <1>1, <1>2, <1>4
    <3>2. \A d \in Side : LossesOn(d)' = LossesOn(d) /\ LossesOn(d) \subseteq DOMAIN trades
      BY <1>6 DEF LossesOn
    <3> QED
      BY <1>1, <3>1, <3>2, WindowAssumption DEF IInv, Counted, DirectionListed
  <2> QED
    BY <2>1, <2>2, <2>3 DEF Counted
<1>10. Balanced'
  <2>1. \A i : IsDrawn(i)' <=> IsDrawn(i)
    BY <1>1 DEF IsDrawn
  <2>2. DayBegun' /\ HaltCaused'
    BY <1>1, <2>1 DEF IInv, Balanced, DayBegun, HaltCaused
  <2>3. Len(sightings) > 0 => sightings[Len(sightings)].at # clock'
    <3>1. Len(sightings) \in Nat /\ DOMAIN sightings = 1 .. Len(sightings)
      BY LenProperties DEF IInv, TypeOK
    <3> QED
      BY <1>1, <1>2, <1>4, <3>1
  <2>4. DrawdownHalts'
    BY <1>1, <2>3 DEF DrawdownHalts
  <2> QED
    BY <2>2, <2>4 DEF Balanced
<1> QED
  BY <1>3, <1>5, <1>7, <1>8, <1>9, <1>10 DEF IInv

LEMMA IInvStep == IInv /\ [Next]_vars => IInv'
<1> SUFFICES ASSUME IInv, [Next]_vars PROVE IInv'
  OBVIOUS
<1>1. CASE RecordTrade
  BY <1>1, RecordKeeps
<1>2. CASE UpdatePortfolioState
  BY <1>2, UpdateKeeps
<1>3. CASE Tick
  BY <1>3, TickKeeps
<1>4. CASE UNCHANGED vars
  <2>1. UNCHANGED <<clock, tradeVars>> /\ UNCHANGED <<clock, portfolioVars>>
    BY <1>4 DEF vars, tradeVars, portfolioVars
  <2>2. TypeOK' /\ Heard'
    BY <1>4 DEF IInv, TypeOK, Heard, vars
  <2> QED
    BY <2>1, <2>2, TradesKept, BalancesKept DEF IInv
<1> QED
  BY <1>1, <1>2, <1>3, <1>4 DEF Next

LEMMA ServedStep == IInv /\ CooldownsRise /\ StreakServed /\ [Next]_vars => StreakServed'
<1> SUFFICES ASSUME IInv, CooldownsRise, StreakServed, [Next]_vars PROVE StreakServed'
  OBVIOUS
<1>1. CASE UNCHANGED vars
  BY <1>1, TradesKept DEF vars, tradeVars
<1> QED
  BY <1>1, RecordKeeps, UpdateKeeps, TickKeeps DEF Next

\* IInv is the strengthening the theorems below rest on.
THEOREM Inductive == Spec => []IInv
<1>1. Init => IInv
  BY IInvInit
<1>2. IInv /\ [Next]_vars => IInv'
  BY IInvStep
<1> QED
  BY <1>1, <1>2, PTL DEF Spec

\* The tables keep their types: a cooldown is found for every number of losses,
\* and a day for every time.
THEOREM TypeCorrect == Spec => []TypeOK
<1>1. IInv => TypeOK
  BY DEF IInv
<1> QED
  BY <1>1, Inductive, PTL

--------------------------------------------------------------------------------
(* What the blocks answer for.                                             *)

LEMMA BlockCaused == IInv => BlocksHaveCauses
<1> SUFFICES ASSUME IInv, NEW symbol \in Symbols, NEW side \in Side, IsBlocked(symbol, side)
             PROVE  \/ ByStreak(symbol, side) \/ ByQuarantine(symbol, side)
                    \/ ByDirection(side) \/ ByDailyLimit(symbol) \/ ByDrawdown
  BY DEF BlocksHaveCauses
<1>1. clock \in Nat
  BY TimeAssumption DEF IInv, TypeOK
<1>2. CASE clock < globalBlockedUntil
  BY <1>1, <1>2 DEF IInv, Balanced, HaltCaused, ByDrawdown
<1>3. CASE clock < directionBlockedUntil[side]
  BY <1>1, <1>3 DEF IInv, Caused, DirectionCaused, ByDirection
<1>4. CASE clock < windowBlockedUntil[symbol][side]
  BY <1>1, <1>4 DEF IInv, Caused, QuarantineCaused, ByQuarantine, LossesAt
<1>5. CASE clock < blockedUntil[symbol][side]
  BY <1>1, <1>5 DEF IInv, Caused, StreakCaused, ByStreak, ByDailyLimit
<1> QED
  BY <1>2, <1>3, <1>4, <1>5 DEF IsBlocked

LEMMA CauseBlocks == IInv /\ StreakServed => CausesBlock
<1> SUFFICES ASSUME IInv, StreakServed, NEW symbol \in Symbols, NEW side \in Side,
                    ByStreak(symbol, side) \/ ByQuarantine(symbol, side) \/ ByDirection(side)
             PROVE  IsBlocked(symbol, side)
  BY DEF CausesBlock
<1>1. /\ clock \in Nat
      /\ blockedUntil[symbol][side] \in Nat /\ windowBlockedUntil[symbol][side] \in Nat
      /\ directionBlockedUntil[side] \in Nat
  BY TimeAssumption DEF IInv, TypeOK
<1>2. \A i \in DOMAIN trades : trades[i].at \in Nat
  <2>1. \A i \in DOMAIN trades : trades[i] \in Trade
    BY LenProperties, ElementOfSeq DEF IInv, TypeOK
  <2> QED
    BY <2>1, TimeAssumption DEF Trade
<1>3. CASE ByStreak(symbol, side)
  <2>1. PICK i \in Of(symbol, side) : Streaks(symbol, side, i) /\ clock < StreakEnd(symbol, side, i)
    BY <1>3 DEF ByStreak
  <2>2. i \in DOMAIN trades
    BY DEF Of
  <2>3. CooldownAfter(Cardinality(Streak(symbol, side, i))) \in Nat
    BY FiniteIndices, CooldownType DEF IInv, Streak, Of
  <2>4. StreakEnd(symbol, side, i) \in Nat
    BY <1>2, <2>2, <2>3 DEF StreakEnd
  <2>5. StreakEnd(symbol, side, i) <= blockedUntil[symbol][side]
    BY <2>1 DEF StreakServed
  <2> QED
    BY <1>1, <2>1, <2>4, <2>5 DEF IsBlocked
<1>4. CASE ByQuarantine(symbol, side)
  <2>1. PICK i \in LossesAt(symbol, side) :
          SideLimit > 0 /\ Quarantines(symbol, side, i) /\ clock < trades[i].at + SideCooldown
    BY <1>4 DEF ByQuarantine, LossesAt
  <2>2. trades[i].at + SideCooldown <= windowBlockedUntil[symbol][side]
    BY <2>1 DEF IInv, Served, QuarantineServed
  <2>3. trades[i].at + SideCooldown \in Nat
    BY <1>2, WindowAssumption DEF LossesAt, Of
  <2> QED
    BY <1>1, <2>1, <2>2, <2>3 DEF IsBlocked
<1>5. CASE ByDirection(side)
  <2>1. PICK i \in LossesOn(side) :
          DirectionThreshold > 0 /\ TurnsSide(side, i) /\ clock < trades[i].at + DirectionCooldown
    BY <1>5 DEF ByDirection
  <2>2. trades[i].at + DirectionCooldown <= directionBlockedUntil[side]
    BY <2>1 DEF IInv, Served, DirectionServed
  <2>3. trades[i].at + DirectionCooldown \in Nat
    BY <1>2, WindowAssumption DEF LossesOn
  <2> QED
    BY <1>1, <2>1, <2>2, <2>3 DEF IsBlocked
<1> QED
  BY <1>3, <1>4, <1>5

\* No symbol is kept from trading without a streak, a quarantine, a losing side, a
\* full day or a drawdown in the history that has not run out: the deadlines that
\* overwrite each other and the lists that are pruned never invent a block.
THEOREM BlocksExplained == Spec => []BlocksHaveCauses
  BY Inductive, BlockCaused, PTL

\* A streak, a quarantine and a losing side block for their whole time, where a
\* longer streak never has a shorter cooldown.  The code sorts the escalation
\* schedule and asks nothing of its cooldowns: with falling ones the next loss of
\* a streak cuts its own block short.
THEOREM BlocksKept ==
    ASSUME CooldownsRise
    PROVE  Spec => []CausesBlock
<1>1. Init => StreakServed
  BY DEF Init, StreakServed, Of
<1>2. IInv /\ StreakServed /\ [Next]_vars => StreakServed'
  BY ServedStep
<1>3. Spec => []StreakServed
  BY <1>1, <1>2, Inductive, PTL DEF Spec
<1> QED
  BY <1>3, Inductive, CauseBlocks, PTL

\* The account update that shows the drawdown of its day halts all trading.
THEOREM DrawdownKept == Spec => []DrawdownHalts
<1>1. IInv => DrawdownHalts
  BY DEF IInv, Balanced
<1> QED
  BY <1>1, Inductive, PTL

\* The two comparisons of is_in_blocked_window cover a zone over midnight and one
\* within the day alike, in every time zone.
THEOREM DeadZonesExact == Spec => []DeadZoneExact
<1>1. TypeOK => DeadZoneExact
  <2> SUFFICES ASSUME TypeOK PROVE DeadZoneExact
    OBVIOUS
  <2>1. clock + Offset \in Int /\ DayLength \in Nat \ {0}
    BY TimeAssumption, DeadZoneAssumption DEF TypeOK
  <2> DEFINE inside(w) == LET local == (clock + Offset) % DayLength IN
                          IF w[1] <= w[2] THEN w[1] <= local /\ local < w[2]
                                          ELSE w[1] <= local \/ local < w[2]
  <2>2. ASSUME NEW w \in BlockedWindows
        PROVE  inside(w) <=> (clock + Offset - w[1]) % DayLength < (w[2] - w[1]) % DayLength
    <3>1. w[1] \in 0 .. DayLength - 1 /\ w[2] \in 0 .. DayLength - 1
      BY DeadZoneAssumption
    <3> DEFINE x == clock + Offset
    <3> HIDE DEF x
    <3>2. x \in Int
      BY <2>1 DEF x
    <3>3. (IF w[1] <= w[2] THEN w[1] <= x % DayLength /\ x % DayLength < w[2]
                           ELSE w[1] <= x % DayLength \/ x % DayLength < w[2])
          <=> (x - w[1]) % DayLength < (w[2] - w[1]) % DayLength
      BY <2>1, <3>1, <3>2, DeadZone
    <3>4. clock + Offset - w[1] = x - w[1]
      <4>1. clock \in Int
        BY TimeAssumption DEF TypeOK
      <4> QED
        BY <3>1, <4>1, DeadZoneAssumption DEF x
    <3>5. inside(w) <=> IF w[1] <= w[2] THEN w[1] <= x % DayLength /\ x % DayLength < w[2]
                                        ELSE w[1] <= x % DayLength \/ x % DayLength < w[2]
      BY DEF x
    <3> QED
      BY <3>3, <3>4, <3>5
  <2>3. IsInBlockedWindow <=> \E w \in BlockedWindows : inside(w)
    BY DEF IsInBlockedWindow
  <2> HIDE DEF inside
  <2> QED
    BY <2>2, <2>3 DEF DeadZoneExact
<1> QED
  BY <1>1, TypeCorrect, PTL
================================================================================
