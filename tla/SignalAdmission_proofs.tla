------------------------- MODULE SignalAdmission_proofs -------------------------
(***************************************************************************)
(* Proofs about SignalAdmission, for any number of symbols, slots, candles *)
(* and account syncs.                                                      *)
(***************************************************************************)
EXTENDS SignalAdmission, FiniteSetTheorems, TLAPS

\* Executing a batch, seen by the proofs: only symbols without thread, position and
\* pending signal are chosen, and not more than there are slots.
Executes ==
    /\ cooldown = "over" /\ cooldown' = "early"
    /\ batches' = [batches EXCEPT ![currentCandle] = @ + 1]
    /\ Queued # {}
    /\ \E chosen \in SUBSET {s \in Queued : s \notin active /\ pending[s] = 0} :
         /\ Cardinality(chosen) <= AvailableSlots
         /\ step' = [s \in Symbols |-> IF s \in chosen THEN "gates" ELSE step[s]]
         /\ score' = [s \in Symbols |-> IF s \in chosen THEN batch[s] ELSE score[s]]

LEMMA SlotsInt == ASSUME TypeOK PROVE AvailableSlots \in Int
<1>1. IsFiniteSet(active) /\ IsFiniteSet(Waiting)
  BY FS_Subset, ConstantsAssumption DEF TypeOK, Waiting
<1> QED
  BY <1>1, FS_CardinalityType, ConstantsAssumption DEF AvailableSlots

LEMMA BatchOutcome ==
    ASSUME TypeOK, ProcessBatch
    PROVE  /\ batch' = [s \in Symbols |-> 0]
           /\ Executes \/ UNCHANGED <<cooldown, batches, step, score>>
<1> SUFFICES ASSUME ~UNCHANGED <<cooldown, batches, step, score>> PROVE Executes
  BY DEF ProcessBatch
<1>1. PICK eligible \in (SUBSET {s \in Queued : s \notin active /\ pending[s] = 0}) \ {{}} :
        \E chosen \in Best(eligible, AvailableSlots) :
           /\ step' = [s \in Symbols |-> IF s \in chosen THEN "gates" ELSE step[s]]
           /\ score' = [s \in Symbols |-> IF s \in chosen THEN batch[s] ELSE score[s]]
  BY DEF ProcessBatch
<1>2. PICK chosen \in Best(eligible, AvailableSlots) :
           /\ step' = [s \in Symbols |-> IF s \in chosen THEN "gates" ELSE step[s]]
           /\ score' = [s \in Symbols |-> IF s \in chosen THEN batch[s] ELSE score[s]]
  BY <1>1
<1>3. IsFiniteSet(eligible)
  BY FS_Subset, ConstantsAssumption DEF Queued
<1>4. Cardinality(eligible) \in Nat
  BY <1>3, FS_CardinalityType
<1>5. chosen \subseteq eligible /\ Cardinality(chosen) <= AvailableSlots
  BY <1>4, SlotsInt DEF Best
<1>6. Queued # {}
  BY <1>1
<1> QED
  BY <1>2, <1>5, <1>6 DEF Executes, ProcessBatch

--------------------------------------------------------------------------------
\* Types.

LEMMA BatchTypes ==
    ASSUME TypeOK, ProcessBatch \/ (UNCHANGED <<batch, cooldown, batches, step, score>>),
           Queued # {} => currentCandle \in Candles
    PROVE  /\ batch' \in [Symbols -> Score]
           /\ cooldown' \in {"over", "early", "late"}
           /\ batches' \in [Candles -> Nat]
           /\ step' \in [Symbols -> {"idle", "gates", "slots", "recycle", "insert"}]
           /\ score' \in [Symbols -> Score]
<1>1. CASE UNCHANGED <<batch, cooldown, batches, step, score>>
  BY <1>1 DEF TypeOK
<1>2. CASE ProcessBatch
  <2>1. batch' \in [Symbols -> Score]
    BY <1>2 DEF ProcessBatch, Score
  <2>2. CASE UNCHANGED <<cooldown, batches, step, score>>
    BY <2>1, <2>2 DEF TypeOK
  <2>3. CASE Executes
    BY <2>1, <2>3 DEF TypeOK, Executes
  <2> QED
    BY <1>2, <2>2, <2>3, BatchOutcome
<1> QED
  BY <1>1, <1>2

Rounds ==
    /\ lastCandle <= currentCandle /\ currentCandle <= candle
    /\ Queued # {} => flushTask
    /\ flushTask => currentCandle > lastCandle
    /\ ~flushTask => currentCandle = lastCandle
    /\ \A c \in Candles : batches[c] <= 1 /\ (c > currentCandle => batches[c] = 0)
    /\ flushTask /\ batches[currentCandle] = 1 => cooldown = "early"

\* A queued signal belongs to a candle whose timer runs.
LEMMA QueuedHasCandle ==
    ASSUME TypeOK, Rounds, Queued # {}
    PROVE  currentCandle \in Candles /\ flushTask
  BY ConstantsAssumption DEF TypeOK, Rounds, Candles

LEMMA InitTypes == Init => TypeOK
<1> SUFFICES ASSUME Init PROVE TypeOK
  OBVIOUS
<1>1. 1 \in Candles /\ 0 \in 0 .. MaxCandles /\ 0 \in 0 .. MaxSyncs /\ 0 \in Score
  BY ConstantsAssumption DEF Candles, Score
<1>2. /\ candle \in Candles /\ currentCandle \in 0 .. MaxCandles /\ lastCandle \in 0 .. MaxCandles
      /\ syncs \in 0 .. MaxSyncs
  BY <1>1 DEF Init
<1>3. batch \in [Symbols -> Score] /\ score \in [Symbols -> Score] /\ pending \in [Symbols -> Score]
  BY <1>1 DEF Init
<1>4. held \in [Symbols -> Nat] /\ batches \in [Candles -> Nat]
  BY DEF Init
<1> QED
  BY <1>2, <1>3, <1>4 DEF Init, TypeOK

LEMMA InitRounds == Init => Rounds
  BY ConstantsAssumption DEF Init, Rounds, Candles, Queued

LEMMA NextTypes ==
    ASSUME TypeOK, Rounds, [Next]_vars
    PROVE  TypeOK'
<1> USE ConstantsAssumption
<1>1. CASE DebounceFlush
  <2>1. currentCandle \in Candles => lastCandle' \in 0 .. MaxCandles
    BY <1>1 DEF DebounceFlush, Candles
  <2> QED
    BY <1>1, <2>1, QueuedHasCandle, BatchTypes DEF DebounceFlush, TypeOK, cacheVars
<1>2. CASE FlushLoop
  BY <1>2, QueuedHasCandle, BatchTypes DEF FlushLoop, TypeOK, cacheVars
<1>3. CASE NextCandle
  BY <1>3 DEF NextCandle, TypeOK, threadVars, cacheVars, Candles
<1>4. CASE CooldownPasses
  BY <1>4 DEF CooldownPasses, TypeOK, threadVars, cacheVars
<1>5. CASE SyncAnswered
  BY <1>5 DEF SyncAnswered, TypeOK, coordinatorVars, threadVars, Held
<1>6. CASE SyncRefills
  BY <1>6 DEF SyncRefills, TypeOK, coordinatorVars, threadVars
<1>7. CASE SyncApplied
  BY <1>7 DEF SyncApplied, TypeOK, coordinatorVars, threadVars
<1>8. CASE Reconcile
  BY <1>8 DEF Reconcile, TypeOK, coordinatorVars, threadVars, Delete, Score
<1>9. ASSUME NEW s \in Symbols, CollectSignal(s) PROVE TypeOK'
  BY <1>9 DEF CollectSignal, TypeOK, threadVars, cacheVars, Score, Candles
<1>10. ASSUME NEW s \in Symbols, RefuseSignal(s) PROVE TypeOK'
  BY <1>10 DEF RefuseSignal, Done, TypeOK, coordinatorVars, cacheVars, Score
<1>11. ASSUME NEW s \in Symbols, PassGates(s) PROVE TypeOK'
  BY <1>11 DEF PassGates, Goto, TypeOK, coordinatorVars, cacheVars
<1>12. ASSUME NEW s \in Symbols, CheckSlots(s) PROVE TypeOK'
  <2>1. \A w \in Recyclable(s) : w \in Symbols
    BY DEF Recyclable, Waiting
  <2>2. step' \in [Symbols -> {"idle", "gates", "slots", "recycle", "insert"}]
    BY <1>12 DEF CheckSlots, Goto, Done, TypeOK
  <2>3. score' \in [Symbols -> Score] /\ victim' \in [Symbols -> Symbols \union {NoSymbol}]
    BY <1>12, <2>1 DEF CheckSlots, Goto, Done, TypeOK, Score
  <2> QED
    BY <1>12, <2>2, <2>3 DEF CheckSlots, TypeOK, coordinatorVars, cacheVars
<1>13. ASSUME NEW s \in Symbols, Recycle(s) PROVE TypeOK'
  <2>1. pending' \in [Symbols -> Score] /\ locked' \subseteq Symbols
    BY <1>13 DEF Recycle, Delete, TypeOK, Score
  <2>2. step' \in [Symbols -> {"idle", "gates", "slots", "recycle", "insert"}] /\ score' \in [Symbols -> Score]
    BY <1>13 DEF Recycle, Goto, Done, TypeOK, Score
  <2> QED
    BY <1>13, <2>1, <2>2 DEF Recycle, TypeOK, coordinatorVars, cacheVars
<1>14. ASSUME NEW s \in Symbols, Insert(s) PROVE TypeOK'
  BY <1>14 DEF Insert, Done, TypeOK, coordinatorVars, cacheVars, Score
<1>15. ASSUME NEW s \in Symbols, PriceMoves(s) PROVE TypeOK'
  BY <1>15 DEF PriceMoves, TypeOK, coordinatorVars, threadVars, cacheVars
<1>16. ASSUME NEW s \in Symbols, Expire(s) \/ TriggerRefused(s) PROVE TypeOK'
  BY <1>16 DEF Expire, TriggerRefused, Delete, TypeOK, coordinatorVars, threadVars, cacheVars, Score
<1>17. ASSUME NEW s \in Symbols, Trigger(s) PROVE TypeOK'
  BY <1>17 DEF Trigger, TypeOK, coordinatorVars, threadVars, cacheVars
<1>18. ASSUME NEW s \in Symbols, EntryEnds(s) PROVE TypeOK'
  <2>1. held' \in [Symbols -> Nat] /\ active' \subseteq Symbols
    BY <1>18 DEF EntryEnds, TypeOK
  <2>2. pending' \in [Symbols -> Score] /\ locked' \subseteq Symbols
    BY <1>18 DEF EntryEnds, Delete, TypeOK, Score
  <2> QED
    BY <1>18, <2>1, <2>2 DEF EntryEnds, TypeOK, coordinatorVars, threadVars
<1>19. ASSUME NEW s \in Symbols, CloseOnExchange(s) \/ CloseSeen(s) PROVE TypeOK'
  BY <1>19 DEF CloseOnExchange, CloseSeen, TypeOK, coordinatorVars, threadVars
<1>20. ASSUME NEW s \in Symbols, CleanupZombie(s) PROVE TypeOK'
  BY <1>20 DEF CleanupZombie, Delete, TypeOK, coordinatorVars, threadVars, Score
<1>21. CASE UNCHANGED vars
  BY <1>21 DEF vars, TypeOK
<1> QED
  BY <1>1, <1>2, <1>3, <1>4, <1>5, <1>6, <1>7, <1>8, <1>9, <1>10, <1>11, <1>12, <1>13, <1>14,
     <1>15, <1>16, <1>17, <1>18, <1>19, <1>20, <1>21 DEF Next, Thread

--------------------------------------------------------------------------------
\* One batch per candle.

\* Running a batch while its timer runs, before the timer is stopped.
LEMMA BatchRounds ==
    ASSUME TypeOK, Rounds, Queued # {}, ProcessBatch, UNCHANGED <<candle, currentCandle>>,
           \/ UNCHANGED <<lastCandle, flushTask>>
           \/ lastCandle' = currentCandle /\ flushTask' = FALSE
    PROVE  Rounds'
<1>1. currentCandle \in Candles /\ flushTask
  BY QueuedHasCandle
<1>2. Queued' = {}
  BY DEF ProcessBatch, Queued
<1>3. /\ \A c \in Candles : batches'[c] <= 1 /\ (c > currentCandle => batches'[c] = 0)
      /\ flushTask /\ batches'[currentCandle] = 1 => cooldown' = "early"
  <2>1. CASE UNCHANGED <<cooldown, batches, step, score>>
    BY <2>1 DEF Rounds
  <2>2. CASE Executes
    <3>1. batches[currentCandle] = 0
      BY <1>1, <2>2 DEF Rounds, TypeOK, Executes
    <3> QED
      BY <1>1, <2>2, <3>1 DEF Rounds, TypeOK, Executes, Candles
  <2> QED
    BY <2>1, <2>2, BatchOutcome
<1>4. CASE UNCHANGED <<lastCandle, flushTask>>
  BY <1>1, <1>2, <1>3, <1>4 DEF Rounds
<1>5. CASE lastCandle' = currentCandle /\ flushTask' = FALSE
  <2>1. currentCandle <= currentCandle
    BY <1>1 DEF Candles
  <2> QED
    BY <1>1, <1>2, <1>3, <1>5, <2>1 DEF Rounds
<1> QED
  BY <1>4, <1>5

LEMMA NextRounds ==
    ASSUME TypeOK, Rounds, [Next]_vars
    PROVE  Rounds'
<1>1. CASE DebounceFlush
  <2>1. CASE Queued # {}
    BY <1>1, <2>1, BatchRounds DEF DebounceFlush
  <2>2. CASE Queued = {}
    BY <1>1, <2>2 DEF DebounceFlush, Rounds, Queued, TypeOK
  <2> QED
    BY <2>1, <2>2
<1>2. CASE FlushLoop
  BY <1>2, BatchRounds DEF FlushLoop
<1>3. CASE NextCandle
  BY <1>3 DEF NextCandle, Rounds, Queued, TypeOK, Candles
<1>4. CASE CooldownPasses
  BY <1>4 DEF CooldownPasses, Rounds, Queued
<1>5. ASSUME NEW s \in Symbols, CollectSignal(s) PROVE Rounds'
  <2>1. currentCandle' \in Candles /\ currentCandle' <= candle /\ currentCandle' > lastCandle
    BY <1>5, ConstantsAssumption DEF CollectSignal, Rounds, TypeOK, Candles
  <2>2. currentCandle' >= currentCandle
    BY <1>5 DEF CollectSignal, Rounds, TypeOK, Candles
  <2>3. flushTask' /\ batches' = batches /\ cooldown' = cooldown /\ candle' = candle /\ lastCandle' = lastCandle
    BY <1>5 DEF CollectSignal
  <2>4. batches[currentCandle'] = 1 => cooldown = "early"
    BY <1>5, <2>1 DEF CollectSignal, Rounds, TypeOK, Candles
  <2>5. \A c \in Candles : c > currentCandle' => batches[c] = 0
    BY <2>1, <2>2 DEF Rounds, TypeOK, Candles
  <2>6. lastCandle <= currentCandle'
    BY <2>1 DEF TypeOK, Candles
  <2> QED
    BY <2>1, <2>3, <2>4, <2>5, <2>6 DEF Rounds
<1>6. CASE UNCHANGED coordinatorVars
  BY <1>6 DEF coordinatorVars, Rounds, Queued
<1>7. SyncAnswered \/ SyncRefills \/ SyncApplied \/ Reconcile => UNCHANGED coordinatorVars
  BY DEF SyncAnswered, SyncRefills, SyncApplied, Reconcile
<1>8. ASSUME NEW s \in Symbols, Thread(s) PROVE UNCHANGED coordinatorVars
  BY <1>8 DEF Thread, RefuseSignal, PassGates, CheckSlots, Recycle, Insert
<1>9. ASSUME NEW s \in Symbols,
             \/ PriceMoves(s) \/ Expire(s) \/ TriggerRefused(s) \/ Trigger(s) \/ EntryEnds(s)
             \/ CloseOnExchange(s) \/ CloseSeen(s) \/ CleanupZombie(s)
      PROVE UNCHANGED coordinatorVars
  BY <1>9 DEF PriceMoves, Expire, TriggerRefused, Trigger, EntryEnds, CloseOnExchange, CloseSeen, CleanupZombie
<1>10. UNCHANGED vars => UNCHANGED coordinatorVars
  BY DEF vars, coordinatorVars
<1> QED
  BY <1>1, <1>2, <1>3, <1>4, <1>5, <1>6, <1>7, <1>8, <1>9, <1>10 DEF Next

\* The tables of coordinator, tracker and account cache keep their types, and the
\* candles their order.
THEOREM TypeCorrect == Spec => [](TypeOK /\ Rounds)
  BY InitTypes, InitRounds, NextTypes, NextRounds, PTL DEF Spec

\* A candle is executed in one batch at most, however the flush loop and the timer
\* interleave: shark_tank_flush_loop, _debounce_flush and the cooldown.
THEOREM CandleOnce == Spec => []OneBatchPerCandle
<1>1. TypeOK /\ Rounds => OneBatchPerCandle
  BY DEF Rounds, OneBatchPerCandle
<1> QED
  BY <1>1, TypeCorrect, PTL

--------------------------------------------------------------------------------
\* The slots.

Slots ==
    /\ cooldown = "over" => Executing = {}
    /\ Cardinality(Waiting) + Cardinality(Executing) <= MaxPositions

LEMMA Finite ==
    ASSUME TypeOK
    PROVE  /\ IsFiniteSet(Waiting) /\ IsFiniteSet(Executing) /\ IsFiniteSet(active) /\ IsFiniteSet(Held)
           /\ Cardinality(Waiting) \in Nat /\ Cardinality(Executing) \in Nat
           /\ Cardinality(active) \in Nat /\ Cardinality(Held) \in Nat
<1>1. IsFiniteSet(Waiting) /\ IsFiniteSet(Executing) /\ IsFiniteSet(active) /\ IsFiniteSet(Held)
  BY FS_Subset, ConstantsAssumption DEF Waiting, Executing, Held, TypeOK
<1> QED
  BY <1>1, FS_CardinalityType

LEMMA AtMostOneMore ==
    ASSUME NEW S, NEW x, IsFiniteSet(S)
    PROVE  IsFiniteSet(S \union {x}) /\ Cardinality(S \union {x}) <= Cardinality(S) + 1
<1>1. Cardinality(S) \in Nat
  BY FS_CardinalityType
<1>2. IsFiniteSet(S \union {x}) /\ Cardinality(S \union {x}) \in {Cardinality(S), Cardinality(S) + 1}
  BY FS_AddElement
<1> QED
  BY <1>1, <1>2

\* Fewer signals pending and fewer threads keep the slots.
LEMMA FewerKeepSlots ==
    ASSUME TypeOK, TypeOK', Slots, Waiting' \subseteq Waiting, Executing' \subseteq Executing,
           cooldown' = "over" => cooldown = "over" \/ Executing' = {}
    PROVE  Slots'
<1>1. Cardinality(Waiting') <= Cardinality(Waiting) /\ Cardinality(Executing') <= Cardinality(Executing)
  BY Finite, FS_Subset
<1>2. Cardinality(Waiting') \in Nat /\ Cardinality(Executing') \in Nat
  <2>1. IsFiniteSet(Waiting') /\ IsFiniteSet(Executing')
    BY Finite, FS_Subset
  <2> QED
    BY <2>1, FS_CardinalityType
<1>3. cooldown' = "over" => Executing' = {}
  BY DEF Slots
<1> QED
  BY <1>1, <1>2, <1>3, Finite, ConstantsAssumption DEF Slots

LEMMA BatchSlots ==
    ASSUME TypeOK, TypeOK', Slots, ProcessBatch, UNCHANGED pending
    PROVE  Slots'
<1>1. CASE UNCHANGED <<cooldown, batches, step, score>>
  BY <1>1, FewerKeepSlots DEF Waiting, Executing
<1>2. CASE Executes
  <2>1. PICK chosen \in SUBSET {s \in Queued : s \notin active /\ pending[s] = 0} :
          /\ Cardinality(chosen) <= AvailableSlots
          /\ step' = [s \in Symbols |-> IF s \in chosen THEN "gates" ELSE step[s]]
    BY <1>2 DEF Executes
  <2>2. Executing = {}
    BY <1>2 DEF Executes, Slots
  <2>3. Executing' = chosen
    BY <2>1, <2>2 DEF Executing, Queued
  <2>4. Waiting' = Waiting
    BY DEF Waiting
  <2>5. Cardinality(chosen) \in Nat
    BY <2>1, FS_Subset, FS_CardinalityType, ConstantsAssumption DEF Queued
  <2>6. Cardinality(Waiting) + Cardinality(chosen) <= MaxPositions
    BY <2>1, <2>5, Finite, ConstantsAssumption DEF AvailableSlots
  <2> QED
    BY <1>2, <2>3, <2>4, <2>6 DEF Slots, Executes
<1> QED
  BY <1>1, <1>2, BatchOutcome

\* Every step keeps the slots.
LEMMA NextSlots ==
    ASSUME TypeOK, TypeOK', Slots, [Next]_vars
    PROVE  Slots'
<1>1. CASE DebounceFlush
  BY <1>1, BatchSlots, FewerKeepSlots DEF DebounceFlush, Waiting, Executing
<1>2. CASE FlushLoop
  BY <1>2, BatchSlots DEF FlushLoop
<1>3. CASE CooldownPasses
  BY <1>3, FewerKeepSlots DEF CooldownPasses, threadVars, Waiting, Executing
<1>4. ASSUME NEW s \in Symbols, Insert(s) PROVE Slots'
  <2>1. Executing' = Executing \ {s} /\ s \in Executing
    BY <1>4 DEF Insert, Done, Executing, TypeOK
  <2>2. Waiting' \subseteq Waiting \union {s}
    BY <1>4 DEF Insert, Waiting, TypeOK
  <2>3. Cardinality(Executing') = Cardinality(Executing) - 1
    BY <2>1, Finite, FS_RemoveElement
  <2>4. IsFiniteSet(Waiting \union {s}) /\ Cardinality(Waiting \union {s}) <= Cardinality(Waiting) + 1
    BY AtMostOneMore, Finite
  <2>5. Cardinality(Waiting') <= Cardinality(Waiting \union {s})
    BY <2>2, <2>4, FS_Subset
  <2>6. Cardinality(Waiting') \in Nat /\ Cardinality(Waiting \union {s}) \in Nat
    BY <2>2, <2>4, FS_Subset, FS_CardinalityType
  <2>7. cooldown' = cooldown
    BY <1>4 DEF Insert, coordinatorVars
  <2> QED
    BY <2>1, <2>3, <2>4, <2>5, <2>6, <2>7, Finite, ConstantsAssumption DEF Slots
<1>5. ASSUME NEW s \in Symbols, RefuseSignal(s) \/ PassGates(s) \/ CheckSlots(s) \/ Recycle(s) PROVE Slots'
  <2>1. Waiting' \subseteq Waiting
    BY <1>5 DEF RefuseSignal, PassGates, CheckSlots, Recycle, Delete, Waiting
  <2>2. Executing' \subseteq Executing
    BY <1>5 DEF RefuseSignal, PassGates, CheckSlots, Recycle, Goto, Done, Executing, TypeOK
  <2>3. cooldown' = cooldown
    BY <1>5 DEF RefuseSignal, PassGates, CheckSlots, Recycle, coordinatorVars
  <2> QED
    BY <2>1, <2>2, <2>3, FewerKeepSlots
<1>6. ASSUME NEW s \in Symbols,
             \/ PriceMoves(s) \/ Expire(s) \/ TriggerRefused(s) \/ Trigger(s) \/ EntryEnds(s)
             \/ CloseOnExchange(s) \/ CloseSeen(s) \/ CleanupZombie(s) \/ CollectSignal(s)
      PROVE Slots'
  <2>1. Waiting' \subseteq Waiting
    BY <1>6 DEF PriceMoves, Expire, TriggerRefused, Trigger, EntryEnds, CloseOnExchange, CloseSeen,
                CleanupZombie, CollectSignal, Delete, Waiting
  <2>2. Executing' = Executing /\ cooldown' = cooldown
    BY <1>6 DEF PriceMoves, Expire, TriggerRefused, Trigger, EntryEnds, CloseOnExchange, CloseSeen,
                CleanupZombie, CollectSignal, Executing, threadVars, coordinatorVars
  <2> QED
    BY <2>1, <2>2, FewerKeepSlots
<1>7. CASE SyncAnswered \/ SyncRefills \/ SyncApplied \/ Reconcile \/ NextCandle \/ UNCHANGED vars
  <2>1. Waiting' \subseteq Waiting
    BY <1>7 DEF SyncAnswered, SyncRefills, SyncApplied, Reconcile, NextCandle, vars, Delete, Waiting
  <2>2. Executing' = Executing /\ cooldown' = cooldown
    BY <1>7 DEF SyncAnswered, SyncRefills, SyncApplied, Reconcile, NextCandle, vars, Executing,
                threadVars, coordinatorVars
  <2> QED
    BY <2>1, <2>2, FewerKeepSlots
<1> QED
  BY <1>1, <1>2, <1>3, <1>4, <1>5, <1>6, <1>7 DEF Next, Thread

LEMMA InitSlots == Init => Slots
<1> SUFFICES ASSUME Init PROVE Slots
  OBVIOUS
<1>1. Waiting = {} /\ Executing = {}
  BY DEF Init, Waiting, Executing
<1> QED
  BY <1>1, FS_EmptySet, ConstantsAssumption DEF Slots

\* The slots are kept although threads count and insert without a lock: at most one
\* batch has threads, and it has no more of them than slots were free.
THEOREM SlotsKept == Spec => []PendingWithinSlots
<1>1. Spec => []Slots
  <2>1. TypeOK /\ Rounds /\ Slots /\ [Next]_vars => Slots'
    BY NextTypes, NextSlots
  <2> QED
    BY <2>1, InitSlots, TypeCorrect, PTL DEF Spec
<1>2. TypeOK /\ Slots => PendingWithinSlots
  <2> SUFFICES ASSUME TypeOK, Slots PROVE PendingWithinSlots
    OBVIOUS
  <2> DEFINE inserting == {s \in Symbols : step[s] = "insert"}
  <2>1. inserting \subseteq Executing
    BY DEF Executing
  <2>2. Cardinality(inserting) <= Cardinality(Executing) /\ Cardinality(inserting) \in Nat
    BY <2>1, Finite, FS_Subset, FS_CardinalityType
  <2> QED
    BY <2>2, Finite, ConstantsAssumption DEF Slots, PendingWithinSlots
<1> QED
  BY <1>1, <1>2, TypeCorrect, PTL

--------------------------------------------------------------------------------
\* The limits.

OnItsWay(s) == pending[s] # 0 \/ step[s] \in {"slots", "recycle", "insert"}

\* While no decision has missed a held position, a signal that is on its way is not
\* that of a held symbol, and an entry that is under way has a free place.
Seen ==
    ~blind =>
       /\ Cardinality(Held) <= MaxPositions
       /\ \A s \in Symbols : held[s] <= 1
       /\ \A s \in Symbols : OnItsWay(s) => held[s] = 0
       /\ entering # NoSymbol => held[entering] = 0 /\ Cardinality(Held) < MaxPositions

\* A symbol with a pending signal, or whose entry is under way, has no thread.
Apart == \A s \in Symbols : pending[s] # 0 \/ entering = s => step[s] = "idle"

\* A batch gives threads to symbols without a pending signal, and no thread passes
\* the gates in it.
LEMMA BatchThreads ==
    ASSUME TypeOK, ProcessBatch
    PROVE  \A s \in Symbols : \/ step'[s] = step[s]
                              \/ step'[s] = "gates" /\ pending[s] = 0
<1>1. CASE UNCHANGED <<cooldown, batches, step, score>>
  BY <1>1
<1>2. CASE Executes
  BY <1>2 DEF Executes
<1> QED
  BY <1>1, <1>2, BatchOutcome

LEMMA NextApart ==
    ASSUME TypeOK, Apart, [Next]_vars
    PROVE  Apart'
<1>1. CASE DebounceFlush \/ FlushLoop
  <2>1. \A s \in Symbols : \/ step'[s] = step[s]
                           \/ step'[s] = "gates" /\ pending[s] = 0
    BY <1>1, BatchThreads DEF DebounceFlush, FlushLoop
  <2>2. pending' = pending /\ entering' = entering /\ entering = NoSymbol
    BY <1>1 DEF DebounceFlush, FlushLoop, LoopFree
  <2> QED
    BY <2>1, <2>2, ConstantsAssumption DEF Apart
<1>2. CASE NextCandle \/ CooldownPasses \/ SyncAnswered \/ SyncRefills \/ SyncApplied \/ Reconcile
           \/ UNCHANGED vars
  BY <1>2 DEF NextCandle, CooldownPasses, SyncAnswered, SyncRefills, SyncApplied, Reconcile, Delete,
              vars, threadVars, Apart
<1>3. ASSUME NEW s \in Symbols, Thread(s) PROVE Apart'
  <2>1. step[s] # "idle" /\ \A t \in Symbols \ {s} : step'[t] = step[t] /\ (pending'[t] # 0 => pending[t] # 0)
    BY <1>3 DEF Thread, RefuseSignal, PassGates, CheckSlots, Recycle, Insert, Delete, Goto, Done, TypeOK
  <2>2. pending'[s] # 0 => pending[s] # 0 \/ step'[s] = "idle"
    BY <1>3 DEF Thread, RefuseSignal, PassGates, CheckSlots, Recycle, Insert, Delete, Goto, Done, TypeOK
  <2>3. entering' = entering
    BY <1>3 DEF Thread, RefuseSignal, PassGates, CheckSlots, Recycle, Insert, cacheVars
  <2> QED
    BY <2>1, <2>2, <2>3 DEF Apart
<1>4. ASSUME NEW s \in Symbols,
             \/ PriceMoves(s) \/ Expire(s) \/ TriggerRefused(s) \/ Trigger(s) \/ EntryEnds(s)
             \/ CloseOnExchange(s) \/ CloseSeen(s) \/ CleanupZombie(s) \/ CollectSignal(s)
      PROVE Apart'
  BY <1>4, ConstantsAssumption DEF PriceMoves, Expire, TriggerRefused, Trigger, EntryEnds, CloseOnExchange,
     CloseSeen, CleanupZombie, CollectSignal, Delete, threadVars, Apart
<1> QED
  BY <1>1, <1>2, <1>3, <1>4 DEF Next

\* What leaves the positions alone and sends no signal on its way keeps the limits.
LEMMA StillSeen ==
    ASSUME Seen, blind' = blind, held' = held, entering' \in {entering, NoSymbol},
           \A s \in Symbols : OnItsWay(s)' => OnItsWay(s)
    PROVE  Seen'
<1>1. Held' = Held
  BY DEF Held
<1> QED
  BY <1>1 DEF Seen

LEMMA NextSeen ==
    ASSUME TypeOK, TypeOK', Apart, Seen, [Next]_vars
    PROVE  Seen'
<1>1. CASE DebounceFlush \/ FlushLoop
  <2>1. \A s \in Symbols : OnItsWay(s)' => OnItsWay(s)
    BY <1>1, BatchThreads DEF DebounceFlush, FlushLoop, OnItsWay
  <2>2. blind' = blind /\ held' = held /\ entering' = entering
    BY <1>1 DEF DebounceFlush, FlushLoop, cacheVars
  <2> QED
    BY <2>1, <2>2, StillSeen
<1>2. CASE NextCandle \/ CooldownPasses \/ SyncAnswered \/ SyncRefills \/ SyncApplied \/ Reconcile
           \/ UNCHANGED vars
  <2>1. \A s \in Symbols : OnItsWay(s)' => OnItsWay(s)
    BY <1>2 DEF NextCandle, CooldownPasses, SyncAnswered, SyncRefills, SyncApplied, Reconcile, Delete,
                vars, threadVars, OnItsWay
  <2>2. blind' = blind /\ held' = held /\ entering' = entering
    BY <1>2 DEF NextCandle, CooldownPasses, SyncAnswered, SyncRefills, SyncApplied, Reconcile, vars, cacheVars
  <2> QED
    BY <2>1, <2>2, StillSeen
<1>3. ASSUME NEW s \in Symbols, RefuseSignal(s) \/ CheckSlots(s) \/ Recycle(s) \/ Insert(s) PROVE Seen'
  <2>1. \A t \in Symbols : OnItsWay(t)' => OnItsWay(t)
    BY <1>3 DEF RefuseSignal, CheckSlots, Recycle, Insert, Delete, Goto, Done, OnItsWay, TypeOK
  <2>2. blind' = blind /\ held' = held /\ entering' = entering
    BY <1>3 DEF RefuseSignal, CheckSlots, Recycle, Insert, cacheVars
  <2> QED
    BY <2>1, <2>2, StillSeen
<1>4. ASSUME NEW s \in Symbols,
             \/ PriceMoves(s) \/ Expire(s) \/ TriggerRefused(s)
             \/ CloseSeen(s) \/ CleanupZombie(s) \/ CollectSignal(s)
      PROVE Seen'
  <2>1. \A t \in Symbols : OnItsWay(t)' => OnItsWay(t)
    BY <1>4 DEF PriceMoves, Expire, TriggerRefused, CloseSeen, CleanupZombie, CollectSignal, Delete,
                threadVars, OnItsWay
  <2>2. blind' = blind /\ held' = held /\ entering' = entering
    BY <1>4 DEF PriceMoves, Expire, TriggerRefused, CloseSeen, CleanupZombie, CollectSignal, cacheVars
  <2> QED
    BY <2>1, <2>2, StillSeen
<1>5. ASSUME NEW s \in Symbols, PassGates(s) PROVE Seen'
  <2>1. ~blind' => ~blind /\ held[s] = 0
    <3>1. ~blind' => ~blind /\ Held \subseteq active /\ s \notin active
      BY <1>5 DEF PassGates, SeesAll
    <3>2. s \notin Held => held[s] = 0
      BY DEF Held, TypeOK
    <3> QED
      BY <3>1, <3>2
  <2>2. \A t \in Symbols \ {s} : OnItsWay(t)' => OnItsWay(t)
    BY <1>5 DEF PassGates, Goto, OnItsWay, TypeOK
  <2>3. held' = held /\ entering' = entering /\ Held' = Held
    BY <1>5 DEF PassGates, cacheVars, Held
  <2> QED
    BY <2>1, <2>2, <2>3 DEF Seen
<1>6. ASSUME NEW s \in Symbols, Trigger(s) PROVE Seen'
  <2>1. ~blind' => ~blind /\ Cardinality(Held) <= Cardinality(active)
    BY <1>6, Finite, FS_Subset DEF Trigger, SeesAll
  <2>2. ~blind' => Cardinality(Held) < MaxPositions
    BY <1>6, <2>1, Finite, ConstantsAssumption DEF Trigger
  <2>3. ~blind' => held[s] = 0
    BY <1>6, <2>1 DEF Trigger, Seen, OnItsWay
  <2>4. held' = held /\ Held' = Held /\ entering' = s /\ \A t \in Symbols : OnItsWay(t)' => OnItsWay(t)
    BY <1>6 DEF Trigger, cacheVars, threadVars, Held, OnItsWay
  <2> QED
    BY <2>1, <2>2, <2>3, <2>4 DEF Seen
<1>7. ASSUME NEW s \in Symbols, EntryEnds(s) PROVE Seen'
  <2>1. /\ held' = held \/ held' = [held EXCEPT ![s] = @ + 1]
        /\ entering = s /\ entering' = NoSymbol /\ blind' = blind
        /\ \A t \in Symbols : OnItsWay(t)' => OnItsWay(t) /\ t # s
    BY <1>7 DEF EntryEnds, Delete, threadVars, Apart, OnItsWay
  <2>2. CASE held' = held
    BY <2>1, <2>2, StillSeen
  <2>3. CASE held' = [held EXCEPT ![s] = @ + 1]
    <3>1. Held' = Held \union {s}
      BY <2>3 DEF Held, TypeOK
    <3>2. Cardinality(Held') \in Nat /\ Cardinality(Held') <= Cardinality(Held) + 1
      BY <3>1, Finite, AtMostOneMore, FS_CardinalityType
    <3>3. ~blind => held[s] = 0 /\ Cardinality(Held) < MaxPositions
      BY <2>1, ConstantsAssumption DEF Seen
    <3>4. ~blind => Cardinality(Held') <= MaxPositions
      BY <3>2, <3>3, Finite, ConstantsAssumption
    <3>5. ~blind => \A t \in Symbols : held'[t] <= 1 /\ (t # s => held'[t] = held[t])
      BY <2>3, <3>3 DEF Seen, TypeOK
    <3> QED
      BY <2>1, <3>4, <3>5 DEF Seen
  <2> QED
    BY <2>1, <2>2, <2>3
<1>8. ASSUME NEW s \in Symbols, CloseOnExchange(s) PROVE Seen'
  <2>1. held' = [held EXCEPT ![s] = 0] /\ blind' = blind /\ entering' = entering
        /\ \A t \in Symbols : OnItsWay(t)' => OnItsWay(t)
    BY <1>8 DEF CloseOnExchange, threadVars, OnItsWay
  <2>2. \A t \in Symbols : held'[t] <= held[t] /\ (held[t] = 0 => held'[t] = 0) /\ held'[t] \in Nat
    BY <2>1 DEF TypeOK
  <2>3. Held' \subseteq Held
    BY <2>1 DEF Held, TypeOK
  <2>4. Cardinality(Held') \in Nat /\ Cardinality(Held') <= Cardinality(Held)
    BY <2>3, Finite, FS_Subset, FS_CardinalityType
  <2>5. ~blind => \A t \in Symbols : held'[t] <= 1 /\ (OnItsWay(t)' => held'[t] = 0)
    BY <2>1, <2>2 DEF Seen, TypeOK
  <2>6. ~blind => Cardinality(Held') <= MaxPositions
    BY <2>4, Finite, ConstantsAssumption DEF Seen
  <2>7. ~blind /\ entering # NoSymbol => held'[entering] = 0 /\ Cardinality(Held') < MaxPositions
    BY <2>2, <2>4, Finite, ConstantsAssumption DEF Seen, TypeOK
  <2> QED
    BY <2>1, <2>5, <2>6, <2>7 DEF Seen
<1> QED
  BY <1>1, <1>2, <1>3, <1>4, <1>5, <1>6, <1>7, <1>8 DEF Next, Thread

LEMMA InitSeen == Init => Apart /\ Seen
<1> SUFFICES ASSUME Init PROVE Apart /\ Seen
  OBVIOUS
<1>1. Held = {}
  BY DEF Init, Held
<1> QED
  BY <1>1, FS_EmptySet, ConstantsAssumption DEF Init, Apart, Seen, OnItsWay

\* While every thread that passed the gates and every trigger saw all positions that
\* were held, the limit on positions holds and no symbol is entered twice, whatever
\* is recycled, triggered, expired, synced or reconciled meanwhile.
THEOREM LimitsKept == Spec => []LimitsHoldWhenSeen
<1>1. TypeOK /\ Rounds /\ Apart /\ Seen /\ [Next]_vars => (Apart /\ Seen)'
  BY NextTypes, NextApart, NextSeen
<1>2. Seen => LimitsHoldWhenSeen
  BY DEF Seen, LimitsHoldWhenSeen
<1> QED
  BY <1>1, <1>2, InitSeen, TypeCorrect, PTL DEF Spec

--------------------------------------------------------------------------------
(* What is recycled.                                                       *)

\* A symbol with a thread has no pending signal, and the victim of a thread has no thread
\* of its own: nothing can make it better before it is deleted.
Chosen ==
    /\ \A s \in Executing : pending[s] = 0
    /\ \A s \in Symbols :
         step[s] = "recycle" =>
           /\ victim[s] \in Symbols /\ step[victim[s]] = "idle"
           /\ pending[victim[s]] < score[s]

LEMMA ScoreType ==
    ASSUME TypeOK, NEW s \in Symbols
    PROVE  pending[s] \in Nat /\ score[s] \in Nat
<1>1. Score \subseteq Nat
  BY ConstantsAssumption DEF Score
<1>2. pending[s] \in Score /\ score[s] \in Score
  BY DEF TypeOK
<1> QED
  BY <1>1, <1>2

LEMMA InitChosen == Init => Chosen
  BY DEF Init, Chosen, Executing

\* A batch finds no thread at work.
LEMMA BatchChosen ==
    ASSUME TypeOK, Slots, Chosen, ProcessBatch \/ UNCHANGED <<cooldown, batches, step, score>>,
           UNCHANGED <<victim, pending>>
    PROVE  Chosen'
<1>1. CASE UNCHANGED <<cooldown, batches, step, score>>
  BY <1>1 DEF Chosen, Executing
<1>2. CASE Executes
  <2>1. PICK chosen \in SUBSET {s \in Queued : s \notin active /\ pending[s] = 0} :
          step' = [s \in Symbols |-> IF s \in chosen THEN "gates" ELSE step[s]]
    BY <1>2 DEF Executes
  <2>2. \A s \in Symbols : step[s] = "idle"
    BY <1>2 DEF Executes, Slots, Executing
  <2>3. \A s \in Symbols : step'[s] # "recycle" /\ (step'[s] # "idle" => s \in chosen)
    BY <2>1, <2>2
  <2> QED
    BY <2>1, <2>3 DEF Chosen, Executing
<1> QED
  BY <1>1, <1>2, BatchOutcome

\* Without a thread's step signals are only deleted.
LEMMA DeletionChosen ==
    ASSUME TypeOK, Chosen, UNCHANGED threadVars, pending' \in [Symbols -> Score],
           \A s \in Symbols : pending'[s] \in {0, pending[s]}
    PROVE  Chosen'
<1>1. ASSUME NEW s \in Symbols, step[s] = "recycle"
      PROVE  pending'[victim[s]] < score[s]
  <2>1. victim[s] \in Symbols /\ pending[victim[s]] < score[s]
    BY <1>1 DEF Chosen
  <2>2. pending[victim[s]] \in Nat /\ score[s] \in Nat
    BY <2>1, ScoreType
  <2> QED
    BY <2>1, <2>2
<1> QED
  BY <1>1 DEF Chosen, Executing, threadVars

\* The steps of a thread.
LEMMA ThreadChosen ==
    ASSUME TypeOK, TypeOK', Chosen, NEW s \in Symbols, Thread(s)
    PROVE  Chosen'
<1>1. s \in Executing /\ pending[s] = 0
  BY DEF Thread, RefuseSignal, PassGates, CheckSlots, Recycle, Insert, Executing, Chosen
<1>2. \A t \in Symbols : t # s => step'[t] = step[t] /\ score'[t] = score[t] /\ victim'[t] = victim[t]
  BY DEF Thread, RefuseSignal, PassGates, CheckSlots, Recycle, Insert, Goto, Done, TypeOK
<1>3. \A t \in Symbols : t # s => pending'[t] \in {0, pending[t]}
  BY DEF Thread, RefuseSignal, PassGates, CheckSlots, Recycle, Insert, Delete, TypeOK
<1>4. \A t \in Executing' : pending'[t] = 0
  <2>1. ASSUME step'[s] # "idle"
        PROVE  pending'[s] = 0
    BY <1>1, <2>1 DEF Thread, RefuseSignal, PassGates, CheckSlots, Recycle, Insert, Delete, Done, TypeOK
  <2> QED
    BY <1>2, <1>3, <2>1 DEF Executing, Chosen
<1>5. ASSUME NEW t \in Symbols, t # s, step[t] = "recycle"
      PROVE  /\ victim[t] \in Symbols /\ victim[t] # s /\ step[victim[t]] = "idle"
             /\ pending'[victim[t]] < score[t]
  <2>1. victim[t] \in Symbols /\ step[victim[t]] = "idle" /\ pending[victim[t]] < score[t]
    BY <1>5 DEF Chosen
  <2>2. victim[t] # s
    BY <1>1, <2>1 DEF Executing
  <2>3. pending[victim[t]] \in Nat /\ score[t] \in Nat
    BY <2>1, ScoreType
  <2> QED
    BY <1>3, <2>1, <2>2, <2>3
<1>6. ASSUME step'[s] = "recycle"
      PROVE  /\ victim'[s] \in Symbols /\ victim'[s] # s /\ step[victim'[s]] = "idle"
             /\ pending'[victim'[s]] < score'[s]
  <2>1. CheckSlots(s) /\ \E w \in Recyclable(s) : victim' = [victim EXCEPT ![s] = w]
    BY <1>6 DEF Thread, RefuseSignal, PassGates, CheckSlots, Recycle, Insert, Goto, Done, TypeOK
  <2>2. PICK w \in Recyclable(s) : victim' = [victim EXCEPT ![s] = w]
    BY <2>1
  <2>3. /\ w \in Symbols /\ pending[w] # 0 /\ score[s] * 10 > pending[w] * 11 /\ victim'[s] = w
        /\ pending' = pending /\ score' = score
    BY <1>6, <2>1, <2>2 DEF Recyclable, Waiting, TypeOK, CheckSlots, Goto, Done
  <2>4. step[w] = "idle" /\ w # s
    BY <1>1, <2>3 DEF Chosen, Executing
  <2>5. pending[w] \in Nat /\ score[s] \in Nat
    BY <2>3, ScoreType
  <2>6. pending[w] < score[s]
    BY <2>3, <2>5
  <2> QED
    BY <2>3, <2>4, <2>6
<1> QED
  BY <1>2, <1>4, <1>5, <1>6 DEF Chosen

LEMMA NextChosen ==
    ASSUME TypeOK, TypeOK', Slots, Chosen, [Next]_vars
    PROVE  Chosen'
<1>1. CASE DebounceFlush \/ FlushLoop
  BY <1>1, BatchChosen DEF DebounceFlush, FlushLoop
<1>2. ASSUME NEW s \in Symbols, Thread(s) PROVE Chosen'
  BY <1>2, ThreadChosen
<1>3. ASSUME NEW s \in Symbols,
             \/ PriceMoves(s) \/ Expire(s) \/ TriggerRefused(s) \/ Trigger(s) \/ EntryEnds(s)
             \/ CloseOnExchange(s) \/ CloseSeen(s) \/ CleanupZombie(s) \/ CollectSignal(s)
      PROVE Chosen'
  <2>1. UNCHANGED threadVars
    BY <1>3 DEF PriceMoves, Expire, TriggerRefused, Trigger, EntryEnds, CloseOnExchange, CloseSeen,
                CleanupZombie, CollectSignal, threadVars
  <2>2. \A t \in Symbols : pending'[t] \in {0, pending[t]}
    BY <1>3 DEF PriceMoves, Expire, TriggerRefused, Trigger, EntryEnds, CloseOnExchange, CloseSeen,
                CleanupZombie, CollectSignal, Delete
  <2> QED
    BY <2>1, <2>2, DeletionChosen DEF TypeOK
<1>4. CASE \/ SyncAnswered \/ SyncRefills \/ SyncApplied \/ Reconcile \/ NextCandle \/ CooldownPasses
           \/ UNCHANGED vars
  <2>1. UNCHANGED threadVars
    BY <1>4 DEF SyncAnswered, SyncRefills, SyncApplied, Reconcile, NextCandle, CooldownPasses, vars, threadVars
  <2>2. \A t \in Symbols : pending'[t] \in {0, pending[t]}
    BY <1>4 DEF SyncAnswered, SyncRefills, SyncApplied, Reconcile, NextCandle, CooldownPasses, vars, Delete
  <2> QED
    BY <2>1, <2>2, DeletionChosen DEF TypeOK
<1> QED
  BY <1>1, <1>2, <1>3, <1>4 DEF Next

\* A pending signal that a thread deletes to make room is worse than the thread's own, also
\* when it was chosen before other threads inserted, recycled or the loop deleted signals.
THEOREM RecyclesTheWorse == Spec => RecycledIsWorse
<1>1. TypeOK /\ Rounds /\ Slots /\ Chosen /\ [Next]_vars => Slots' /\ Chosen'
  BY NextTypes, NextSlots, NextChosen
<1>2. Chosen /\ [Next]_vars =>
        [\A s, w \in Symbols :
           Recycle(s) /\ victim[s] = w /\ pending[w] # 0 => pending[w] < score[s]]_vars
  BY DEF Chosen, Recycle
<1> QED
  BY <1>1, <1>2, InitSlots, InitChosen, TypeCorrect, PTL DEF Spec, RecycledIsWorse
================================================================================
