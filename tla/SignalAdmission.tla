----------------------------- MODULE SignalAdmission -----------------------------
(***************************************************************************)
(* How a signal becomes a position: SharkTankCoordinator collects the      *)
(* signals of a candle in a batch and hands the best of them to threads,   *)
(* which put them into LocalSignalTracker; a price that reaches a pending  *)
(* signal enters the position on the event loop.  The limits are kept by   *)
(* reading active_positions, which the account sync rewrites from an       *)
(* answer of the exchange that may be older than an entry.  Everything     *)
(* but the threads runs on the event loop, which an entry stops.           *)
(***************************************************************************)
EXTENDS Integers, FiniteSets

CONSTANTS
    Symbols,
    Confidence,         \* the scores signals have, positive integers
    MaxPositions,
    EnableRecycling,    \* setting smart_recycling of the tracker
    NoSymbol,
    MaxCandles, MaxSyncs    \* bounds: candles seen, answers to account syncs

ASSUME ConstantsAssumption ==
    /\ IsFiniteSet(Symbols) /\ NoSymbol \notin Symbols
    /\ Confidence \subseteq Nat \ {0}
    /\ MaxPositions \in Nat \ {0}
    /\ EnableRecycling \in BOOLEAN
    /\ MaxCandles \in Nat \ {0} /\ MaxSyncs \in Nat

VARIABLES
    candle,             \* the candle the market is in
    batch,              \* _pending_signals of the coordinator, 0 for no signal
    flushTask,          \* whether the debounce timer runs
    currentCandle, lastCandle,  \* 0 for None
    cooldown,           \* since the last batch: "early" while a timer running then still runs
    step, score, victim,        \* the thread that executes a symbol's signal
    pending,            \* pending_signals of the tracker, their confidence or 0
    locked,             \* pending signals whose last known price is near the target
    entering,           \* the symbol whose entry stops the loop
    active,             \* the keys of active_positions
    held,               \* positions on the exchange, how many entries each is made of
    answer,             \* positions in an answer not yet applied
    syncing, syncs,
    zombies,            \* closed symbols whose cleanup task has yet to run
    batches,            \* auxiliary: batches executed for each candle
    blind               \* auxiliary: a thread or a trigger ever missed a held position

coordinatorVars == <<candle, batch, flushTask, currentCandle, lastCandle, cooldown, batches>>
threadVars == <<step, score, victim>>
cacheVars == <<active, held, answer, syncing, syncs, zombies>>
vars == <<candle, batch, flushTask, currentCandle, lastCandle, cooldown, batches,
          step, score, victim, pending, locked, entering, active, held, answer, syncing,
          syncs, zombies, blind>>

Candles == 1 .. MaxCandles
Score == Confidence \union {0}
Queued == {s \in Symbols : batch[s] # 0}
Waiting == {s \in Symbols : pending[s] # 0}
Executing == {s \in Symbols : step[s] # "idle"}
Held == {s \in Symbols : held[s] > 0}
LoopFree == entering = NoSymbol /\ syncing # "refilling"

\* The tables of coordinator, tracker and account cache keep their types.
TypeOK ==
    /\ candle \in Candles /\ currentCandle \in 0 .. MaxCandles /\ lastCandle \in 0 .. MaxCandles
    /\ batch \in [Symbols -> Score]
    /\ flushTask \in BOOLEAN
    /\ cooldown \in {"over", "early", "late"}
    /\ step \in [Symbols -> {"idle", "gates", "slots", "recycle", "insert"}]
    /\ score \in [Symbols -> Score]
    /\ victim \in [Symbols -> Symbols \union {NoSymbol}]
    /\ pending \in [Symbols -> Score]
    /\ locked \subseteq Symbols
    /\ entering \in Symbols \union {NoSymbol}
    /\ active \subseteq Symbols
    /\ held \in [Symbols -> Nat]
    /\ answer \subseteq Symbols
    /\ syncing \in {"idle", "answered", "refilling"} /\ syncs \in 0 .. MaxSyncs
    /\ zombies \subseteq Symbols
    /\ batches \in [Candles -> Nat]
    /\ blind \in BOOLEAN

Init ==
    /\ candle = 1 /\ currentCandle = 0 /\ lastCandle = 0
    /\ batch = [s \in Symbols |-> 0] /\ flushTask = FALSE /\ cooldown = "over"
    /\ step = [s \in Symbols |-> "idle"]
    /\ score = [s \in Symbols |-> 0]
    /\ victim = [s \in Symbols |-> NoSymbol]
    /\ pending = [s \in Symbols |-> 0] /\ locked = {}
    /\ entering = NoSymbol
    /\ active = {} /\ held = [s \in Symbols |-> 0]
    /\ answer = {} /\ syncing = "idle" /\ syncs = 0 /\ zombies = {}
    /\ batches = [c \in Candles |-> 0] /\ blind = FALSE

--------------------------------------------------------------------------------
\* The coordinator.

\* collect_signal: the latest signal of a symbol counts, a candle that has been
\* processed is closed, the first signal starts the timer of two seconds.
CollectSignal(s) ==
    /\ LoopFree
    /\ lastCandle # candle
    /\ \E c \in Confidence : batch' = [batch EXCEPT ![s] = c]
    /\ flushTask' = TRUE
    /\ currentCandle' = IF flushTask THEN currentCandle ELSE candle
    /\ UNCHANGED <<candle, lastCandle, cooldown, batches, threadVars, pending, locked, entering,
                   cacheVars, blind>>

AvailableSlots == MaxPositions - Cardinality(active) - Cardinality(Waiting)

\* The best n of some candidates, all of them when there are no more than n.
Best(candidates, n) ==
    {chosen \in SUBSET candidates :
        /\ Cardinality(chosen) = IF Cardinality(candidates) < n THEN Cardinality(candidates) ELSE n
        /\ \A s \in chosen, t \in candidates \ chosen : batch[s] >= batch[t]}

\* Mutant: the time of the batch is not noted.
ProcessBatchUncooled ==
    /\ batch' = [s \in Symbols |-> 0]
    /\ \/ UNCHANGED <<cooldown, batches, step, score>>
       \/ /\ cooldown = "over"
          /\ AvailableSlots > 0
          /\ \E eligible \in (SUBSET {s \in Queued : s \notin active /\ pending[s] = 0}) \ {{}} :
               \E chosen \in Best(eligible, AvailableSlots) :
                  /\ step' = [s \in Symbols |-> IF s \in chosen THEN "gates" ELSE step[s]]
                  /\ score' = [s \in Symbols |-> IF s \in chosen THEN batch[s] ELSE score[s]]
          /\ UNCHANGED cooldown
          /\ batches' = [batches EXCEPT ![currentCandle] = @ + 1]

\* _process_batch: a batch that meets a dead zone, the cooldown, full slots or too
\* little margin is dropped; of those that pass the quality filter, the breaker
\* and the filter of positions and pending signals each chosen one gets a thread.
ProcessBatch ==
    /\ batch' = [s \in Symbols |-> 0]
    /\ \/ UNCHANGED <<cooldown, batches, step, score>>
       \/ /\ cooldown = "over"
          /\ AvailableSlots > 0
          /\ \E eligible \in (SUBSET {s \in Queued : s \notin active /\ pending[s] = 0}) \ {{}} :
               \E chosen \in Best(eligible, AvailableSlots) :
                  /\ step' = [s \in Symbols |-> IF s \in chosen THEN "gates" ELSE step[s]]
                  /\ score' = [s \in Symbols |-> IF s \in chosen THEN batch[s] ELSE score[s]]
          /\ cooldown' = "early"
          /\ batches' = [batches EXCEPT ![currentCandle] = @ + 1]

\* Mutant: the candle is not marked as processed.
DebounceFlushForgets ==
    /\ LoopFree /\ flushTask
    /\ IF Queued # {} THEN ProcessBatch
                      ELSE UNCHANGED <<batch, cooldown, batches, step, score>>
    /\ flushTask' = FALSE
    /\ UNCHANGED <<candle, currentCandle, lastCandle, victim, pending, locked, entering, cacheVars, blind>>

\* _debounce_flush, after its two seconds.
DebounceFlush ==
    /\ LoopFree /\ flushTask
    /\ IF Queued # {} THEN ProcessBatch
                      ELSE UNCHANGED <<batch, cooldown, batches, step, score>>
    /\ lastCandle' = currentCandle
    /\ flushTask' = FALSE
    /\ UNCHANGED <<candle, currentCandle, victim, pending, locked, entering, cacheVars, blind>>

\* shark_tank_flush_loop of the API, every three seconds.
FlushLoop ==
    /\ LoopFree /\ Queued # {}
    /\ ProcessBatch
    /\ UNCHANGED <<candle, flushTask, currentCandle, lastCandle, victim, pending, locked, entering,
                   cacheVars, blind>>

NextCandle ==
    /\ candle < MaxCandles
    /\ candle' = candle + 1
    /\ UNCHANGED <<batch, flushTask, currentCandle, lastCandle, cooldown, batches, threadVars,
                   pending, locked, entering, cacheVars, blind>>

\* The sixty seconds between two batches outlast a timer of two that ran when they
\* began, and the threads.
CooldownPasses ==
    /\ \/ cooldown = "early" /\ ~flushTask /\ cooldown' = "late"
       \/ cooldown = "late" /\ Executing = {} /\ cooldown' = "over"
    /\ UNCHANGED <<candle, batch, flushTask, currentCandle, lastCandle, batches, threadVars,
                   pending, locked, entering, cacheVars, blind>>

--------------------------------------------------------------------------------
\* The threads: LiveTradingService.execute_signal, then LocalSignalTracker.add_signal.

SeesAll == Held \subseteq active

Goto(s, there) == step' = [step EXCEPT ![s] = there] /\ UNCHANGED score
Done(s) == step' = [step EXCEPT ![s] = "idle"] /\ score' = [score EXCEPT ![s] = 0]

\* Mutant: the entries are set to None instead of being deleted.
DeleteNone(S) ==
    /\ pending' = [s \in Symbols |-> IF s \in S THEN NoSymbol ELSE pending[s]]
    /\ locked' = locked \ S

\* Pending signals are deleted.
Delete(S) ==
    /\ pending' = [s \in Symbols |-> IF s \in S THEN 0 ELSE pending[s]]
    /\ locked' = locked \ S

\* Refused by BTC filter, breaker or dead zone, too small, or with a position or a
\* pending signal of the symbol.
RefuseSignal(s) ==
    /\ step[s] = "gates"
    /\ Done(s)
    /\ UNCHANGED <<coordinatorVars, victim, pending, locked, entering, cacheVars, blind>>

PassGates(s) ==
    /\ step[s] = "gates"
    /\ s \notin active /\ pending[s] = 0
    /\ Goto(s, "slots")
    /\ blind' = (blind \/ ~SeesAll)
    /\ UNCHANGED <<coordinatorVars, victim, pending, locked, entering, cacheVars>>

\* Mutant: the worst is replaced by whatever comes.
RecyclableAny(s) ==
    {w \in Waiting \ locked :
        EnableRecycling /\ \A v \in Waiting \ locked : pending[w] <= pending[v]}

\* The pending signals that may be recycled for s: the worst that is not close to its
\* target, when s is more than 10 % better.
Recyclable(s) ==
    {w \in Waiting \ locked :
        /\ EnableRecycling
        /\ \A v \in Waiting \ locked : pending[w] <= pending[v]
        /\ score[s] * 10 > pending[w] * 11}

\* The slots are counted and, when none is free, the signal to recycle is chosen.
CheckSlots(s) ==
    /\ step[s] = "slots"
    /\ \/ AvailableSlots > 0 /\ Goto(s, "insert") /\ UNCHANGED victim
       \/ /\ AvailableSlots <= 0
          /\ \E w \in Recyclable(s) : victim' = [victim EXCEPT ![s] = w]
          /\ Goto(s, "recycle")
       \/ /\ AvailableSlots <= 0 /\ Recyclable(s) = {}
          /\ Done(s) /\ UNCHANGED victim
    /\ UNCHANGED <<coordinatorVars, pending, locked, entering, cacheVars, blind>>

\* The chosen signal is deleted; when it is gone the KeyError ends the thread.
Recycle(s) ==
    /\ step[s] = "recycle"
    /\ IF pending[victim[s]] = 0 THEN Done(s) ELSE Goto(s, "insert")
    /\ Delete({victim[s]})
    /\ victim' = [victim EXCEPT ![s] = NoSymbol]
    /\ UNCHANGED <<coordinatorVars, entering, cacheVars, blind>>

\* A new signal has no known price and is protected as if near its target.
Insert(s) ==
    /\ step[s] = "insert"
    /\ pending' = [pending EXCEPT ![s] = score[s]]
    /\ locked' = locked \union {s}
    /\ Done(s)
    /\ UNCHANGED <<coordinatorVars, victim, entering, cacheVars, blind>>

--------------------------------------------------------------------------------
\* The loop: prices, entries, expiry.

\* A price that does not trigger moves to or away from the target.
PriceMoves(s) ==
    /\ LoopFree /\ pending[s] # 0
    /\ \/ locked' = locked \union {s}
       \/ locked' = locked \ {s}
    /\ UNCHANGED <<coordinatorVars, threadVars, pending, entering, cacheVars, blind>>

\* The end of its time, seen by a price or by the cleanup.
Expire(s) ==
    /\ LoopFree /\ pending[s] # 0
    /\ Delete({s})
    /\ UNCHANGED <<coordinatorVars, threadVars, entering, cacheVars, blind>>

\* The price or the closed candle triggers; a gate of _execute_triggered_signal
\* (dead zone, breaker, safe mode, stop loss, heartbeat, positions) refuses, and
\* the signal is deleted all the same.
TriggerRefused(s) ==
    /\ LoopFree /\ pending[s] # 0
    /\ Delete({s})
    /\ UNCHANGED <<coordinatorVars, threadVars, entering, cacheVars, blind>>

\* The gates are passed and the entry begins.
Trigger(s) ==
    /\ LoopFree /\ pending[s] # 0
    /\ Cardinality(active) < MaxPositions
    /\ entering' = s
    /\ locked' \in {locked, locked \ {s}}
    /\ blind' = (blind \/ ~SeesAll)
    /\ UNCHANGED <<coordinatorVars, threadVars, pending, cacheVars>>

\* Mutant: the signal stays pending after its entry.
EntryEndsPending(s) ==
    /\ entering = s
    /\ entering' = NoSymbol
    /\ \/ held' = [held EXCEPT ![s] = @ + 1] /\ active' = {t \in Symbols : held'[t] > 0}
       \/ held' = [held EXCEPT ![s] = @ + 1] /\ UNCHANGED active
       \/ UNCHANGED <<held, active>>
    /\ UNCHANGED <<coordinatorVars, threadVars, pending, locked, answer, syncing, syncs, zombies, blind>>

\* The entry ends: executed and seen by _refresh_positions, executed and not seen
\* (the refresh fails, or the symbol is still monitored and it is left out, or the
\* order is taken for failed), or not executed.  The signal, when still there, is
\* deleted.
EntryEnds(s) ==
    /\ entering = s
    /\ entering' = NoSymbol
    /\ \/ held' = [held EXCEPT ![s] = @ + 1] /\ active' = {t \in Symbols : held'[t] > 0}
       \/ held' = [held EXCEPT ![s] = @ + 1] /\ UNCHANGED active
       \/ UNCHANGED <<held, active>>
    /\ Delete({s})
    /\ UNCHANGED <<coordinatorVars, threadVars, answer, syncing, syncs, zombies, blind>>

--------------------------------------------------------------------------------
\* Positions closed, and the account sync.

CloseOnExchange(s) ==
    /\ held[s] > 0
    /\ held' = [held EXCEPT ![s] = 0]
    /\ UNCHANGED <<coordinatorVars, threadVars, pending, locked, entering, active, answer, syncing,
                   syncs, zombies, blind>>

\* The fills of the closing order complete the trade: the position leaves the cache.
CloseSeen(s) ==
    /\ LoopFree /\ s \in active /\ held[s] = 0
    /\ active' = active \ {s}
    /\ UNCHANGED <<coordinatorVars, threadVars, pending, locked, entering, held, answer, syncing,
                   syncs, zombies, blind>>

\* The exchange answers get_positions; the loop takes the answer up later.
SyncAnswered ==
    /\ syncing = "idle" /\ syncs < MaxSyncs
    /\ syncing' = "answered" /\ syncs' = syncs + 1
    /\ answer' = Held
    /\ UNCHANGED <<coordinatorVars, threadVars, pending, locked, entering, active, held, zombies, blind>>

\* _refresh_positions_async clears the cache and fills it again, visibly to threads.
SyncRefills ==
    /\ LoopFree /\ syncing = "answered"
    /\ syncing' = "refilling"
    /\ zombies' = zombies \union (active \ answer)
    /\ active' \in SUBSET answer
    /\ UNCHANGED <<coordinatorVars, threadVars, pending, locked, entering, held, answer, syncs, blind>>

SyncApplied ==
    /\ syncing = "refilling"
    /\ active' = answer
    /\ syncing' = "idle" /\ answer' = {}
    /\ UNCHANGED <<coordinatorVars, threadVars, pending, locked, entering, held, syncs, zombies, blind>>

\* _perform_reconciliation drops the positions an answer lacks, with their signals.
Reconcile ==
    /\ LoopFree /\ syncing = "answered"
    /\ active' = active \intersect answer
    /\ Delete(active \ answer)
    /\ syncing' = "idle" /\ answer' = {}
    /\ UNCHANGED <<coordinatorVars, threadVars, entering, held, syncs, zombies, blind>>

\* _cleanup_zombie_orders, the task of a symbol found closed.
CleanupZombie(s) ==
    /\ LoopFree /\ s \in zombies
    /\ zombies' = zombies \ {s}
    /\ Delete({s})
    /\ UNCHANGED <<coordinatorVars, threadVars, entering, active, held, answer, syncing,
                   syncs, blind>>

--------------------------------------------------------------------------------
Thread(s) == RefuseSignal(s) \/ PassGates(s) \/ CheckSlots(s) \/ Recycle(s) \/ Insert(s)

Next ==
    \/ DebounceFlush \/ FlushLoop \/ NextCandle \/ CooldownPasses
    \/ SyncAnswered \/ SyncRefills \/ SyncApplied \/ Reconcile
    \/ \E s \in Symbols :
         \/ CollectSignal(s) \/ Thread(s)
         \/ PriceMoves(s) \/ Expire(s) \/ TriggerRefused(s) \/ Trigger(s) \/ EntryEnds(s)
         \/ CloseOnExchange(s) \/ CloseSeen(s) \/ CleanupZombie(s)

Spec == Init /\ [][Next]_vars

--------------------------------------------------------------------------------
\* A batch's candle is executed once: what the flush loop takes out of the batch
\* before the timer, and the timer, never make two batches of it.
OneBatchPerCandle == \A c \in Candles : batches[c] <= 1

\* Pending signals and threads about to add one never exceed the slots, though the
\* threads count and insert without a lock.
PendingWithinSlots ==
    Cardinality(Waiting) + Cardinality({s \in Symbols : step[s] = "insert"}) <= MaxPositions

\* A pending signal that is recycled is worse than the one that takes its place, also
\* when it was chosen before others were added, triggered or deleted.
RecycledIsWorse ==
    [][\A s, w \in Symbols :
          Recycle(s) /\ victim[s] = w /\ pending[w] # 0 => pending[w] < score[s]]_vars

\* No more positions than allowed and none entered twice, whatever is recycled,
\* triggered or expires meanwhile, as long as no decision missed a held position.
LimitsHoldWhenSeen ==
    ~blind => Cardinality(Held) <= MaxPositions /\ \A s \in Symbols : held[s] <= 1
================================================================================
