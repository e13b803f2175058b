----------------------------- MODULE PositionMonitor -----------------------------
(***************************************************************************)
(* What stands behind a position's stop loss: the monitor's own copy       *)
(* (MonitoredPosition), the watermark of the live trading service, and the *)
(* row in the database.  Every tick works on the first and writes through  *)
(* to the others; a position nobody monitors is taken up again from the    *)
(* watermark, and the watermark is read from the row after a restart.      *)
(* Closing an order deletes the watermark before it is known whether the   *)
(* close succeeds, the older trailing engine of the service writes it as   *)
(* well, and reconcile_state, which compares the tracked positions with    *)
(* the exchange, replaces what it adopts and forgets what it finds gone.   *)
(*                                                                         *)
(* One symbol, since every table is keyed by it.  Prices and stops are     *)
(* small integers, larger is better: a short position mirrors them.  The   *)
(* close orders themselves, the mutex and the fills are in ExitPipeline;   *)
(* here a close is under way, and then it failed or the position is gone.  *)
(* Settings are the defaults: take profit closes everything, the stop is   *)
(* looked at when a candle closes, no profit lock, the queue exists.       *)
(* Whether an ATR is known, which a trailing stop needs, is left open.     *)
(***************************************************************************)
EXTENDS Integers, FiniteSets

CONSTANTS
    Entry, Target,      \* entry price and take profit
    LocalStop,          \* calculate_local_sl: 1.2 % below the entry
    SignalStops,        \* stop losses of signals, at most that far away
    HardCap,            \* HARD_CAP_PCT, and the default stop of an orphan: 2 %
    BackupStop,         \* the stop order on the exchange: 2.5 %
    Extreme,            \* EXTREME_LOSS_THRESHOLD: below it, even in the grace period
    DefaultTarget,      \* the take profit of an adopted position that has none: 2 %
    Breakeven,          \* the entry and a buffer
    Trail,              \* ATR times TRAILING_ATR_MULT
    Prices,
    MaxInFlight,        \* bound: work that was started and is not done
    Short,              \* a short position goes to breakeven under a weaker condition
    Nothing             \* an absent record

ASSUME LevelsAssumption ==
    /\ {Entry, Target, DefaultTarget, LocalStop, HardCap, BackupStop, Extreme, Breakeven, Trail}
         \subseteq Nat \ {0}
    /\ Extreme <= HardCap /\ BackupStop <= HardCap /\ HardCap < LocalStop /\ LocalStop < Entry
    /\ Entry < Breakeven /\ Breakeven < Target
    /\ SignalStops \subseteq LocalStop .. Entry - 1
    /\ Prices \subseteq Nat \ {0}
    /\ MaxInFlight \in Nat
    /\ Short \in BOOLEAN

VARIABLES
    open,               \* symbol \in active_positions, and held by the exchange
    mon,                \* _positions[symbol] of the monitor
    queuedTp,           \* the symbol is in _grace_period_tp_queue
    wm,                 \* _position_watermarks[symbol]
    row,                \* the OPEN row of live_positions
    request,            \* the exit that waits in the queue
    thread,             \* a close or a cleanup started by _on_sl_hit has yet to run
    sweep,
    closing,            \* symbol \in _closing_symbols
    calls,              \* who has a close under way
    tracker,            \* symbol \in _local_positions
    bracket,            \* symbol \in _bracket_orders: reconcile_state has adopted it
    answer,             \* what the exchange told a reconcile_state that still waits
    kept,               \* auxiliary: a row was saved for this position, and the monitor has
                        \* worked from its own data ever since
    asked               \* auxiliary: take profits asked for this position since it was
                        \* given one, by its entry or by reconcile_state

closeVars == <<request, thread, sweep, closing, calls>>
trackVars == <<tracker, bracket, answer>>
vars == <<open, mon, queuedTp, wm, row, request, thread, sweep, closing, calls,
          tracker, bracket, answer, kept, asked>>

Phases == {"entry", "breakeven", "trailing", "closed"}
Stops == {LocalStop, HardCap, BackupStop, Breakeven} \union SignalStops
         \union {s \in {p - Trail : p \in Prices} : s > 0}
Targets == {Target, DefaultTarget}

Monitored ==
    [phase : Phases, initial : Stops \union {0}, stop : Stops \union {0}, hits : {0, 1},
     target : Targets \union {0}, grace : BOOLEAN]
Watermark ==
    [stop : Stops \union {0}, target : Targets \union {0}, hits : {0, 1}, phase : Phases, be : BOOLEAN,
     ours : BOOLEAN]
Row == [stop : Stops \union {0}, hits : {0, 1}, phase : Phases]

Callers == {"worker", "thread", "sold"}

ASSUME NothingAssumption == Nothing \notin Monitored \union Watermark \union Row

\* The three copies keep their types.  No position is monitored with neither a stop nor
\* a take profit; one of them may be missing, the stop when an orderly shutdown has
\* written it over with that of an empty watermark.
TypeOK ==
    /\ open \in BOOLEAN
    /\ mon \in Monitored \union {Nothing}
    /\ mon # Nothing => mon.stop > 0 \/ mon.target > 0
    /\ queuedTp \in BOOLEAN
    /\ wm \in Watermark \union {Nothing}
    /\ row \in Row \union {Nothing}
    /\ request \in {"none", "full", "partial"}
    /\ thread \in BOOLEAN /\ sweep \in BOOLEAN /\ closing \in BOOLEAN
    /\ calls \subseteq Callers
    /\ tracker \in BOOLEAN /\ bracket \in BOOLEAN
    /\ answer \in {"none", "held", "gone"}
    /\ kept \in BOOLEAN
    /\ asked \in Nat

Init ==
    /\ open = FALSE /\ mon = Nothing /\ queuedTp = FALSE /\ wm = Nothing /\ row = Nothing
    /\ request = "none" /\ thread = FALSE /\ sweep = FALSE /\ closing = FALSE /\ calls = {}
    /\ tracker = FALSE /\ bracket = FALSE /\ answer = "none"
    /\ kept = FALSE /\ asked = 0

--------------------------------------------------------------------------------
\* Writing through.  A watermark that is missing is created, in part.

\* The watermark the persisting callbacks create.
Minimal ==
    [stop |-> 0, target |-> 0, hits |-> 0, phase |-> "entry", be |-> FALSE,
     ours |-> FALSE]
Known(w) == IF w = Nothing THEN Minimal ELSE w

\* _persist_tp_hit_to_db
WithHit(w) == [Known(w) EXCEPT !.hits = 1, !.target = 0]

\* _persist_phase_to_db
WithPhase(w, phase) == [Known(w) EXCEPT !.phase = phase, !.be = TRUE]

\* _persist_sl_to_db: a watermark that is missing is taken to be past the take profit
WithStop(w, stop) ==
    IF w = Nothing
    THEN [Minimal EXCEPT !.stop = stop, !.hits = 1, !.phase = "trailing", !.be = TRUE]
    ELSE [w EXCEPT !.stop = stop]

\* update_live_position_*: the OPEN row, if there is one
SetRow(r, field, value) == IF r = Nothing THEN r ELSE [r EXCEPT ![field] = value]

\* The watermark is read back from the row (_sync_position_states_from_exchange);
\* without a row it is empty, the take profit is never cleared in the row.  It counts
\* as the monitor's own data if the row is.
Loaded(r, own) ==
    IF r = Nothing
    THEN Minimal
    ELSE [stop |-> r.stop, target |-> Target, hits |-> r.hits, phase |-> r.phase,
          be |-> r.phase # "entry", ours |-> own]

--------------------------------------------------------------------------------
\* Entering, and taking up a position that nobody monitors.

\* _execute_triggered_signal and _place_backup_sl_only: a signal with the stop s has
\* been filled.  Monitoring starts with the fixed stop and the watermark is set or,
\* where an old one is left, updated; only when the backup order fails does the
\* monitor use the signal's stop.  The row is saved afterwards, with the signal's
\* stop; saving it may fail, and then an older open row stays.
Enter(s, backup, saves) ==
    LET stop == IF backup THEN LocalStop ELSE s
        new == [stop |-> stop, target |-> Target, hits |-> 0, phase |-> "entry", be |-> FALSE,
                ours |-> saves]
    IN /\ ~open
       /\ open' = TRUE
       /\ mon' = IF mon # Nothing /\ ~backup THEN mon
                 ELSE [phase |-> "entry", initial |-> stop, stop |-> stop, hits |-> 0,
                       target |-> Target, grace |-> TRUE]
       /\ wm' = IF wm = Nothing THEN (IF backup THEN new ELSE wm)
                ELSE IF backup THEN [wm EXCEPT !.stop = stop, !.target = Target, !.ours = FALSE]
                ELSE [wm EXCEPT !.ours = FALSE]
       /\ row' = IF saves THEN [stop |-> s, hits |-> 0, phase |-> "entry"]
                 ELSE row
       /\ tracker' = TRUE
       /\ kept' = (saves /\ (mon = Nothing \/ backup)) /\ asked' = 0
       /\ UNCHANGED <<queuedTp, bracket, answer, closeVars>>

\* The phase a restored position starts in.
Derived(d) ==
    IF d.phase = "entry" /\ d.hits = 1 THEN "trailing"
    ELSE IF d.phase = "entry" /\ d.be THEN "breakeven"
    ELSE d.phase

\* Mutant: an empty watermark counts as one.
OrphanedMissing == wm = Nothing

\* There is nothing to restore the position from.
Orphaned == wm = Nothing \/ (wm.stop = 0 /\ wm.target = 0)

\* What _restore_position_monitoring makes of an orphan.  Its row is not looked up:
\* the method it calls on the repository does not exist, and the error is logged.
Orphan ==
    [stop |-> HardCap, target |-> 0, hits |-> 0, phase |-> "entry", be |-> FALSE,
     ours |-> FALSE]

\* Mutant: a missing or empty watermark is left for later.
AdoptKnown ==
    /\ open /\ mon = Nothing /\ ~closing
    /\ ~Orphaned
    /\ mon' = [phase |-> Derived(wm), initial |-> wm.stop, stop |-> wm.stop, hits |-> wm.hits,
               target |-> wm.target, grace |-> TRUE]
    /\ kept' = (kept /\ wm.ours)
    /\ UNCHANGED <<open, queuedTp, wm, row, asked, closeVars, trackVars>>

\* _ensure_positions_monitored with _restore_position_monitoring, after each sync of
\* the positions: an open position that is not being closed is monitored again.
Adopt ==
    /\ open /\ mon = Nothing /\ ~closing
    /\ wm' = IF Orphaned THEN Orphan ELSE wm
    /\ mon' = [phase |-> Derived(wm'), initial |-> wm'.stop, stop |-> wm'.stop, hits |-> wm'.hits,
               target |-> wm'.target, grace |-> TRUE]
    /\ kept' = (kept /\ wm'.ours)
    /\ UNCHANGED <<open, queuedTp, row, asked, closeVars, trackVars>>

\* The bound: requests, threads, closes and answers there may be at once.
Room(n) ==
    LET one(pending) == IF pending THEN 1 ELSE 0
    IN n + one(request # "none") + one(thread) + one(sweep) + one(answer # "none")
         + Cardinality(calls) <= MaxInFlight

\* _cleanup_all_orders_for_symbol, as far as it changes what is kept here.
OrdersCleaned == wm' = Nothing /\ bracket' = FALSE

\* A close begins: the symbol is marked and the cleanup of its orders, which comes
\* before the close order, deletes the watermark.
Begin(caller) ==
    /\ closing' = TRUE
    /\ calls' = calls \union {caller}
    /\ OrdersCleaned

--------------------------------------------------------------------------------
\* Ticks, from the shared client (async) and from the real-time service (sync).

Watched == mon # Nothing /\ mon.phase # "closed"
TargetHit(p) == mon.hits = 0 /\ mon.target > 0 /\ p >= mon.target
Asked == asked' = IF open /\ asked < 2 THEN asked + 1 ELSE asked

\* _queue_execution: refused while an exit of the symbol waits.
Queue(kind) ==
    \/ request = "none" /\ Room(1) /\ request' = kind
    \/ request # "none" /\ UNCHANGED request

GracePasses ==
    /\ mon # Nothing /\ mon.grace
    /\ mon' = [mon EXCEPT !.grace = FALSE]
    /\ UNCHANGED <<open, queuedTp, wm, row, kept, asked, closeVars, trackVars>>

\* In the grace period a take profit is put off, and the stop loss asks for a close
\* on ticks of the shared client; the monitor stays on.
GraceTick(p) ==
    /\ Watched /\ mon.grace
    /\ \/ /\ TargetHit(p)
          /\ queuedTp' = TRUE
          /\ UNCHANGED request
       \/ /\ mon.stop > 0 /\ p <= mon.stop
          /\ Queue("full")
          /\ UNCHANGED queuedTp
    /\ UNCHANGED <<open, mon, wm, row, thread, sweep, closing, calls, kept, asked, trackVars>>

\* The take profit put off is asked for: a part is closed, the stop stays where it is.
AsyncQueuedTarget ==
    /\ Watched /\ ~mon.grace /\ queuedTp
    /\ queuedTp' = FALSE
    /\ Queue("partial") /\ Asked
    /\ mon' = [mon EXCEPT !.hits = 1, !.phase = "trailing"]
    /\ wm' = WithPhase(WithHit(wm), "trailing")
    /\ row' = SetRow(SetRow(row, "hits", 1), "phase", "trailing")
    /\ UNCHANGED <<open, thread, sweep, closing, calls, kept, trackVars>>

\* Hard cap by the low of the candle, or the stop loss when the candle closes, which
\* any tick may be.
StopReached(p, low) == low <= HardCap \/ (mon.stop > 0 /\ p <= mon.stop)

AsyncStop(p, low) ==
    /\ Watched /\ ~mon.grace /\ ~queuedTp
    /\ low <= p /\ StopReached(p, low)
    /\ Queue("full")
    /\ mon' = Nothing
    /\ UNCHANGED <<open, queuedTp, wm, row, thread, sweep, closing, calls, kept, asked, trackVars>>

\* Mutant: the take profit is counted in memory only.
AsyncTargetUnsaved(p) ==
    /\ Watched /\ ~mon.grace /\ ~queuedTp
    /\ p > HardCap /\ TargetHit(p)
    /\ Queue("full") /\ Asked
    /\ mon' = Nothing
    /\ UNCHANGED <<open, queuedTp, wm, row, thread, sweep, closing, calls, kept, trackVars>>

\* The take profit closes everything; the phase "closed" is persisted with it.
AsyncTarget(p) ==
    /\ Watched /\ ~mon.grace /\ ~queuedTp
    /\ p > HardCap /\ TargetHit(p)
    /\ Queue("full") /\ Asked
    /\ mon' = Nothing
    /\ wm' = WithPhase(WithHit(wm), "closed")
    /\ row' = SetRow(SetRow(row, "hits", 1), "phase", "closed")
    /\ UNCHANGED <<open, queuedTp, thread, sweep, closing, calls, kept, trackVars>>

\* _on_sl_hit: close_position and the cleanup run in threads.
SyncStop(p) ==
    /\ Watched /\ Room(2)
    /\ \/ mon.grace /\ mon.stop > 0 /\ p < Extreme
       \/ ~mon.grace /\ ~queuedTp /\ p <= HardCap
    /\ thread' = TRUE /\ sweep' = TRUE
    /\ mon' = Nothing /\ queuedTp' = FALSE
    /\ UNCHANGED <<open, wm, row, request, closing, calls, kept, asked, trackVars>>

\* _on_tp1_hit: the stop goes to breakeven and the phase to "closed", then
\* close_position blocks the loop; whatever it answers the monitor lets go.
SyncTarget(p) ==
    /\ Watched /\ ~mon.grace /\ Room(2)
    /\ queuedTp \/ (p > HardCap /\ TargetHit(p))
    /\ Asked
    /\ row' = SetRow(SetRow(SetRow(row, "hits", 1), "stop", Breakeven), "phase", "closed")
    /\ \/ open /\ Begin("sold")
       \/ open /\ closing' = FALSE /\ UNCHANGED calls /\ OrdersCleaned
       \/ /\ ~open /\ closing' = FALSE /\ UNCHANGED <<calls, bracket>>
          /\ wm' = WithPhase(WithStop(WithHit(wm), Breakeven), "closed")
    /\ sweep' = TRUE
    /\ mon' = Nothing /\ queuedTp' = FALSE
    /\ UNCHANGED <<open, request, thread, tracker, answer, kept>>

\* No exit is due at the price p of a tick.
NoExit(p) == Watched /\ ~mon.grace /\ ~queuedTp /\ p > HardCap /\ ~TargetHit(p)

\* 1.5 times the risk is gained and breakeven improves the stop, or the position is
\* short and the stop is still the initial one.
BreakevenDue(p) ==
    LET risk == IF mon.initial < Entry THEN Entry - mon.initial ELSE mon.initial - Entry
    IN /\ mon.phase = "entry"
       /\ 2 * (p - Entry) >= 3 * risk
       /\ Breakeven > mon.stop \/ (Short /\ mon.stop = mon.initial)

\* Mutant: the new stop is not written through.
TriggerBreakevenUnsaved(p) ==
    /\ NoExit(p) /\ BreakevenDue(p)
    /\ mon' = [mon EXCEPT !.stop = Breakeven, !.phase = "breakeven"]
    /\ wm' = WithPhase(wm, "breakeven")
    /\ row' = SetRow(row, "phase", "breakeven")
    /\ UNCHANGED <<open, queuedTp, kept, asked, closeVars, trackVars>>

\* _trigger_breakeven: the stop moves to the entry.
TriggerBreakeven(p) ==
    /\ NoExit(p) /\ BreakevenDue(p)
    /\ mon' = [mon EXCEPT !.stop = Breakeven, !.phase = "breakeven"]
    /\ wm' = WithPhase(WithStop(wm, Breakeven), "breakeven")
    /\ row' = SetRow(SetRow(row, "stop", Breakeven), "phase", "breakeven")
    /\ UNCHANGED <<open, queuedTp, kept, asked, closeVars, trackVars>>

\* Mutant: the trailing stop follows the price down as well.
UpdateTrailingBoth(p, top) ==
    /\ NoExit(p) /\ p <= top
    /\ mon.phase = "trailing"
    /\ top - Trail # mon.stop
    /\ mon' = [mon EXCEPT !.stop = top - Trail]
    /\ wm' = WithStop(wm, top - Trail)
    /\ row' = SetRow(row, "stop", top - Trail)
    /\ UNCHANGED <<open, queuedTp, kept, asked, closeVars, trackVars>>

\* _update_trailing: the stop follows the highest price, top, that has been seen.
UpdateTrailing(p, top) ==
    /\ NoExit(p) /\ p <= top
    /\ mon.phase = "trailing"
    /\ top - Trail > mon.stop
    /\ mon' = [mon EXCEPT !.stop = top - Trail]
    /\ wm' = WithStop(wm, top - Trail)
    /\ row' = SetRow(row, "stop", top - Trail)
    /\ UNCHANGED <<open, queuedTp, kept, asked, closeVars, trackVars>>

\* process_market_data_async, the older trailing engine: it makes an empty watermark
\* where there is none, at the take profit closes 60 % on its own account and writes
\* the watermark, and in profit marks it as breakeven without moving the stop (how far
\* depends on the risk, here it is any profit).  The monitor learns of none of it.
EngineTick(p) ==
    /\ open
    /\ \/ /\ wm = Nothing
          /\ wm' = Minimal
       \/ /\ wm # Nothing
          /\ wm.hits = 0 /\ wm.target > 0 /\ p >= wm.target
          /\ wm' = [wm EXCEPT !.stop = Breakeven, !.target = 0, !.hits = 1, !.be = TRUE, !.ours = FALSE]
       \/ /\ wm # Nothing
          /\ ~wm.be /\ p > Entry
          /\ wm' = [wm EXCEPT !.be = TRUE, !.ours = FALSE]
    /\ UNCHANGED <<open, mon, queuedTp, row, kept, asked, closeVars, trackVars>>

--------------------------------------------------------------------------------
\* Closing.

\* The worker takes the request.  A partial request leaves the position open unless
\* the part is too small to sell; a full one is refused while the symbol is closing.
WorkerTakes ==
    /\ request # "none"
    /\ request' = "none"
    /\ \/ /\ open /\ ~closing
          /\ Begin("worker")
       \/ /\ request = "partial" \/ closing \/ ~open
          /\ UNCHANGED <<wm, bracket, closing, calls>>
    /\ UNCHANGED <<open, mon, queuedTp, row, thread, sweep, tracker, answer, kept, asked>>

\* close_position in a thread: it does not ask whether the symbol is closing.
ThreadCloses ==
    /\ thread
    /\ thread' = FALSE
    /\ IF open THEN Begin("thread") ELSE UNCHANGED <<wm, bracket, closing, calls>>
    /\ UNCHANGED <<open, mon, queuedTp, row, request, sweep, tracker, answer, kept, asked>>

\* _exit_all_positions_portfolio_target: each monitored position is closed.  When
\* the symbol is closing already the call is refused; the cleanup and the end of
\* the monitoring follow whatever it answered.  Ticks while it waits are left out.
PortfolioExit ==
    /\ mon # Nothing /\ Room(1)
    /\ \/ open /\ ~closing /\ Begin("worker")
       \/ OrdersCleaned /\ UNCHANGED <<closing, calls>>
    /\ mon' = Nothing /\ queuedTp' = FALSE
    /\ UNCHANGED <<open, row, request, thread, sweep, tracker, answer, kept, asked>>

\* _check_auto_close_local with _close_position_market, at a candle close in profit:
\* the order comes first, the cleanup only when it was accepted.
AutoClose ==
    /\ Watched /\ Room(1)
    /\ \/ open /\ Begin("sold")
       \/ closing' = FALSE /\ UNCHANGED <<calls, wm, bracket>>
    /\ mon' = Nothing /\ queuedTp' = FALSE
    /\ UNCHANGED <<open, row, request, thread, sweep, tracker, answer, kept, asked>>

\* The close order failed: the mark is taken back, the watermark stays deleted.
CloseFails(caller) ==
    /\ caller \in calls \ {"sold"}
    /\ calls' = calls \ {caller}
    /\ closing' = FALSE
    /\ UNCHANGED <<open, mon, queuedTp, wm, row, request, thread, sweep, kept, asked, trackVars>>

\* The position is sold and the close completed: the row is closed with it.
CloseCompletes(caller) ==
    /\ caller \in calls
    /\ calls' = calls \ {caller}
    /\ closing' = FALSE
    /\ IF open
       THEN /\ open' = FALSE /\ row' = Nothing /\ kept' = FALSE
            /\ mon' = Nothing /\ queuedTp' = FALSE /\ tracker' = FALSE
       ELSE UNCHANGED <<open, row, kept, mon, queuedTp, tracker>>
    /\ UNCHANGED <<wm, request, thread, sweep, bracket, answer, asked>>

\* The position is gone without a close of the service: the fills of the backup stop
\* complete it, or reconciliation finds it gone, deletes the watermark and leaves
\* the row open.  A cleanup of the symbol's orders is still to come.
PositionGone ==
    /\ open /\ Room(1)
    /\ open' = FALSE
    /\ mon' = Nothing /\ queuedTp' = FALSE
    /\ \/ row' = Nothing /\ tracker' = FALSE /\ UNCHANGED <<wm, bracket>>
       \/ OrdersCleaned /\ UNCHANGED <<row, tracker>>
    /\ kept' = FALSE
    /\ sweep' = TRUE
    /\ UNCHANGED <<request, thread, closing, calls, answer, asked>>

\* A cleanup of the symbol's orders comes late and deletes whatever watermark there
\* is; _cleanup_zombie_orders, unlike the other one, leaves the bracket orders.
Sweep ==
    /\ sweep
    /\ sweep' = FALSE
    /\ wm' = Nothing /\ bracket' \in {bracket, FALSE}
    /\ UNCHANGED <<open, mon, queuedTp, row, request, thread, closing, calls, tracker, answer,
                   kept, asked>>

--------------------------------------------------------------------------------
\* The watermarks are read back.

\* activate_trading: every watermark is cleared and read back from the rows.
Reload ==
    /\ wm' = IF open THEN Loaded(row, kept) ELSE Nothing
    /\ UNCHANGED <<open, mon, queuedTp, row, kept, asked, closeVars, trackVars>>

\* The rows a tick leaves that a crash cuts short: its updates are committed one by
\* one, in this order.
TornRows ==
    LET hit == SetRow(row, "hits", 1)
        trailing == SetRow(hit, "phase", "trailing")
    IN {r \in {SetRow(row, "stop", Breakeven)} : \E p \in Prices : NoExit(p) /\ BreakevenDue(p)}
       \union
       {r \in {hit, trailing, SetRow(trailing, "stop", Breakeven)} :
          \E p \in Prices : ~mon.grace /\ (queuedTp \/ (p > HardCap /\ TargetHit(p)))}

\* The process starts again.  The queue, threads, marks and monitored positions are
\* lost; a close order that was under way may have been executed.
StartAgain ==
    /\ \/ open' = open /\ "sold" \notin calls
       \/ open' = FALSE /\ calls # {}
    /\ wm' = IF open' THEN Loaded(row', kept') ELSE Nothing
    /\ mon' = Nothing /\ queuedTp' = FALSE
    /\ request' = "none" /\ thread' = FALSE /\ sweep' = FALSE /\ closing' = FALSE /\ calls' = {}
    /\ tracker' = FALSE /\ bracket' = FALSE /\ answer' = "none"

\* A crash, perhaps within a tick.
Restart ==
    /\ row' \in {row} \union (IF row # Nothing /\ Watched THEN TornRows ELSE {})
    /\ IF row' # Nothing /\ row # Nothing /\ row'.hits # row.hits THEN Asked ELSE UNCHANGED asked
    /\ kept' = kept
    /\ StartAgain

\* stop(), the orderly shutdown: every watermark's stop is written into its row, also
\* one that the older engine has left at zero or a reconciliation has put there.
ShutDown ==
    /\ row' = IF wm = Nothing THEN row ELSE SetRow(row, "stop", wm.stop)
    /\ kept' = (kept /\ (wm # Nothing => wm.ours))
    /\ UNCHANGED asked
    /\ StartAgain

\* _run_daily_cleanup: an open row older than a day is closed as a ghost.  The exchange
\* is not asked; the position may be held and monitored.
DailyCleanup ==
    /\ row # Nothing
    /\ row' = Nothing
    /\ UNCHANGED <<open, mon, queuedTp, wm, kept, asked, closeVars, trackVars>>

--------------------------------------------------------------------------------
\* reconcile_state, at the start and every five minutes.

\* The exchange is asked for the positions, and while a close is under way it may
\* have been executed.  Then the orders are asked for, in two more requests, and
\* meanwhile anything may happen.
ReconcileAsks ==
    /\ answer = "none" /\ Room(1)
    /\ \/ open /\ "sold" \notin calls /\ answer' = "held"
       \/ (~open \/ calls # {}) /\ answer' = "gone"
    /\ UNCHANGED <<open, mon, queuedTp, wm, row, tracker, bracket, kept, asked, closeVars>>

\* _adopt_orphan_position: a position without bracket orders counts as an orphan, and
\* an entry places none.  Of the watermark the stop and the take profit survive, found
\* stands in for a missing stop: the stop order on the exchange, if there is one.  A
\* position without a tracker, as each is after a restart, is monitored afresh.
AdoptOrphan(found) ==
    LET old == Known(wm)
        stop == IF old.stop > 0 THEN old.stop ELSE found
    IN /\ answer = "held" /\ ~bracket
       /\ bracket' = TRUE /\ tracker' = TRUE
       /\ wm' = [Minimal EXCEPT !.stop = stop, !.target = old.target]
       /\ IF tracker
          THEN UNCHANGED <<mon, kept>>
          ELSE /\ mon' = [phase |-> "entry", initial |-> LocalStop, stop |-> LocalStop, hits |-> 0,
                          target |-> IF old.target > 0 THEN old.target ELSE DefaultTarget,
                          grace |-> TRUE]
               /\ kept' = FALSE
       /\ asked' = IF old.target > 0 \/ ~tracker THEN 0 ELSE asked
       /\ answer' = "none"
       /\ UNCHANGED <<open, queuedTp, row, closeVars>>

\* _cleanup_stale_tracking: a position that was adopted and that the answer lacks.
CleanStale ==
    /\ answer = "gone" /\ bracket
    /\ OrdersCleaned
    /\ tracker' = FALSE
    /\ mon' = Nothing /\ queuedTp' = FALSE
    /\ answer' = "none"
    /\ UNCHANGED <<open, row, kept, asked, closeVars>>

NothingToReconcile ==
    /\ (answer = "held" /\ bracket) \/ (answer = "gone" /\ ~bracket)
    /\ answer' = "none"
    /\ UNCHANGED <<open, mon, queuedTp, wm, row, tracker, bracket, kept, asked, closeVars>>

--------------------------------------------------------------------------------
Next ==
    \/ \E s \in SignalStops, backup, saves \in BOOLEAN :
         Enter(s, backup, saves)
    \/ Adopt
    \/ GracePasses
    \/ \E p \in Prices : GraceTick(p)
    \/ AsyncQueuedTarget
    \/ \E p, low \in Prices : AsyncStop(p, low)
    \/ \E p \in Prices : AsyncTarget(p)
    \/ \E p \in Prices : SyncStop(p)
    \/ \E p \in Prices : SyncTarget(p)
    \/ \E p \in Prices : TriggerBreakeven(p)
    \/ \E p, top \in Prices : UpdateTrailing(p, top)
    \/ \E p \in Prices : EngineTick(p)
    \/ WorkerTakes
    \/ ThreadCloses
    \/ PortfolioExit
    \/ AutoClose
    \/ \E c \in Callers : CloseFails(c)
    \/ \E c \in Callers : CloseCompletes(c)
    \/ PositionGone
    \/ Sweep
    \/ Reload
    \/ ReconcileAsks
    \/ \E found \in {0, BackupStop} : AdoptOrphan(found)
    \/ CleanStale
    \/ NothingToReconcile
    \/ Restart
    \/ ShutDown
    \/ DailyCleanup

\* The sync of the positions runs every five seconds, and while closes are under way
\* one of them ends, in failure or success.
Fairness ==
    /\ WF_vars(Adopt)
    /\ WF_vars(\E c \in Callers : CloseFails(c) \/ CloseCompletes(c))

Spec == Init /\ [][Next]_vars /\ Fairness

--------------------------------------------------------------------------------
\* While the monitor works from data it wrote itself, the three copies tell the same
\* story: the row, unless it was closed as a ghost after a day, has the take profits,
\* the phase and the stop of the monitor, so a restart resumes where it was, and so has
\* a watermark nobody else has touched.  Until the stop first moves the row may have the
\* signal's and the monitor the fixed one, which is never tighter.
CopiesAgree ==
    open /\ kept /\ mon # Nothing =>
      LET same(d) == d.hits = mon.hits /\ d.stop >= mon.stop
                     /\ (d.stop = mon.stop \/ mon.stop = mon.initial)
      IN /\ row # Nothing => same(row)
         /\ wm # Nothing /\ wm.ours => same(wm) /\ Derived(wm) = mon.phase

\* The stop of a position is never loosened, neither where the monitor keeps it nor in
\* the row, through breakeven, trailing, take profit, crash and shutdown, as long as the
\* monitor works from its own data: no stop of an engine, a reconciliation or an empty
\* watermark has been written into the row.  Only the signal's stop in the row, which
\* the monitor has not used, may give way to the fixed one or a better.
StopNeverLoosened ==
    [][open /\ open' /\ kept /\ kept' =>
         /\ row # Nothing /\ row' # Nothing =>
              row'.stop >= row.stop \/ (row.stop \in SignalStops /\ row'.stop >= LocalStop)
         /\ mon # Nothing /\ mon' # Nothing => mon'.stop >= mon.stop]_vars

\* The take profit of a position is asked for at most once, whatever fails, however
\* often the position is taken up again and the process restarts, unless
\* reconcile_state adopts it and gives it a take profit once more.
TargetAskedOnce == asked <= 1

\* An open position the monitor has let go of is monitored again, or gone: no order
\* of failing closes and late cleanups leaves it alone for ever.  (That it leads to one of
\* the two whenever neither holds says the same.)
TakenUpAgain == []<>(mon # Nothing \/ ~open)

\* The comment on restoring a position says that its full state is restored and that
\* the trailing stop works after a restart: a stop that has reached the breakeven
\* price stays there or above while the position is monitored.
BreakevenKept ==
    [][open /\ open' /\ mon # Nothing /\ mon' # Nothing /\ mon.stop >= Breakeven =>
         mon'.stop >= Breakeven]_vars
================================================================================
