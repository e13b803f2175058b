------------------------------ MODULE ExitPipeline ------------------------------
(***************************************************************************)
(* How one symbol's position is closed in live mode: the position monitor  *)
(* asks for an exit, the execution worker calls close_position_async, the  *)
(* exchange executes the market order, and the fills that come back on the *)
(* user data stream complete the close (circuit breaker, database, monitor *)
(* and caches).  Beside it run the sync loop, which refreshes the cached   *)
(* positions every 5 seconds and takes up unmonitored ones, the            *)
(* reconciliation loop, and the backup stop loss resting on the exchange.  *)
(*                                                                         *)
(* All of it happens on one event loop.  A step of a coroutine is what it  *)
(* does between two suspensions; blocking REST calls do not suspend it.    *)
(* Every table of the service is keyed by the symbol, so one symbol shows  *)
(* all interactions; other symbols only make the worker late, which is     *)
(* always possible here.  Positions are long; shorts mirror them.          *)
(***************************************************************************)
EXTENDS PositionTracker, Sequences

CONSTANTS
    EntryFills,     \* the sizes of the fills of an entry order, in order
    Size,           \* their sum: the size of a position
    MaxLives,       \* bound: positions opened one after the other
    MaxCalls        \* attempts of the worker: MAX_RETRIES and the emergency close

ASSUME SizeAssumption == Size \in Nat \ {0}
ASSUME EntryFillsAssumption == EntryFills \in Seq(1 .. Size)
ASSUME SumAssumption ==
    \E total \in [0 .. Len(EntryFills) -> 0 .. Size] :
        /\ total[0] = 0 /\ total[Len(EntryFills)] = Size
        /\ \A i \in 1 .. Len(EntryFills) : total[i] = total[i - 1] + EntryFills[i]
ASSUME MaxLivesAssumption == MaxLives \in Nat
ASSUME MaxCallsAssumption == MaxCalls \in Nat \ {0}

VARIABLES
    \* the exchange
    held,           \* the quantity of the open position
    backup,         \* whether the backup stop loss rests in the book
    resting,        \* whether a limit order of a candle close was left in the book
    stream,         \* fills not yet handled by the user data stream
    \* the monitor, the queue and the worker
    life,           \* how many positions have been opened
    monitored,      \* how the monitor follows the symbol
    request,        \* the exit waiting in the queue
    worker,         \* the close order the worker waits for
    \* the live trading service
    tracker,        \* _local_positions[symbol]
    active,         \* active_positions[symbol]
    mutex,          \* symbol \in _closing_symbols, and how old the entry is
    discards,       \* delayed removals from _closing_symbols under way
    snapshot,       \* the position the sync loop has been told and not yet stored
    sweeps,         \* _cleanup_zombie_orders tasks under way
    audit,          \* the reconciliation loop has been told that there is no position
    recorded,       \* trades recorded by the circuit breaker for each position
    \* not in the code: why a position's tracker does not have all of it
    gaps

orderVars == <<backup, resting>>
exchangeVars == <<held, orderVars, stream>>
monitorVars == <<monitored, request>>
recordVars == <<recorded, gaps>>
syncVars == <<snapshot, sweeps, audit>>
bookVars == <<recorded, monitored, active, mutex, discards>>
vars == <<held, backup, resting, stream, life, monitored, request, worker,
          tracker, active, mutex, discards, snapshot, sweeps, audit, recorded, gaps>>

Lives == 1 .. MaxLives

\* The ways in which a tracker comes to miss a part of its position: an entry fill
\* of the size of another is taken for a duplicate ("equal"); the position is added
\* to one that was still held ("added"); a close is recorded from the reply of its
\* order while fills of the entry are still due ("early").
Gap == Lives \X {"equal", "added", "early"}

\* Nothing is missing from the position's tracker.
Accounted(l) == \A gap \in gaps : gap[1] # l

Quantities == Nat \ {0}

Fill == [kind : {"entry", "exit"}, qty : Quantities]

Fills(kind, sizes) == [i \in DOMAIN sizes |-> [kind |-> kind, qty |-> sizes[i]]]

IdleWorker == [state |-> "idle"]
BusyWorker ==
    [state : {"sent", "executed", "rejected"}, kind : {"full", "partial"},
     qty : Quantities, calls : 1 .. MaxCalls]

\* Every table keeps its type; in particular no order sells more than is held.
TypeOK ==
    /\ held \in Nat
    /\ backup \in BOOLEAN
    /\ resting \in BOOLEAN
    /\ stream \in Seq(Fill)
    /\ life \in 0 .. MaxLives
    /\ monitored \in {"off", "entry", "trailing"}
    /\ request \in {"none", "full", "partial"}
    /\ worker \in BusyWorker \union {IdleWorker}
    /\ tracker \in Tracker(Lives, Quantities) \union {NoTracker}
    /\ active \in Nat
    /\ mutex \in {"free", "fresh", "stale"}
    /\ discards \in Nat
    /\ snapshot \subseteq Nat
    /\ sweeps \in Nat
    /\ audit \in BOOLEAN
    /\ recorded \in [Lives -> Nat]
    /\ gaps \subseteq Gap

Init ==
    /\ held = 0 /\ backup = FALSE /\ resting = FALSE /\ stream = <<>>
    /\ life = 0
    /\ monitored = "off" /\ request = "none" /\ worker = IdleWorker
    /\ tracker = NoTracker /\ active = 0
    /\ mutex = "free" /\ discards = 0
    /\ snapshot = {} /\ sweeps = 0 /\ audit = FALSE
    /\ recorded = [l \in Lives |-> 0]
    /\ gaps = {}

--------------------------------------------------------------------------------
\* The exchange.

\* qty is sold, in one fill or lot by lot.
Sell(qty) ==
    /\ held' = held - qty
    /\ \E sold \in {<<qty>>, [i \in 1 .. qty |-> 1]} :
         stream' = stream \o Fills("exit", sold)

\* What a reduce-only order over qty sells.
Reduced(qty) == IF qty < held THEN qty ELSE held

\* _cleanup_all_orders_for_symbol and its like cancel the orders they find; each
\* cancellation may fail.
CancelOrders ==
    /\ backup' \in {FALSE, backup}
    /\ resting' \in {FALSE, resting}

\* The market falls through the backup stop loss.  When the stream reports the
\* algo order as triggered, update_cached_order starts a cleanup of the symbol.
BackupFires ==
    /\ backup
    /\ held > 0
    /\ Sell(held)
    /\ backup' = FALSE
    /\ sweeps' = sweeps + 1
    /\ UNCHANGED <<resting, life, monitorVars, worker, tracker, active, mutex, discards, snapshot, audit, recordVars>>

\* The limit order that was left in the book is executed, at once or in parts.
RestingFills ==
    /\ resting
    /\ \E sold \in 1 .. held : Sell(sold)
    /\ resting' \in BOOLEAN
    /\ UNCHANGED <<backup, life, monitorVars, worker, tracker, active, mutex, discards, syncVars, recordVars>>

\* Mutant: without reduce_only the order sells more than there is.
OrderArrivesUncapped ==
    /\ worker.state = "sent"
    /\ held > 0
    /\ Sell(worker.qty)
    /\ worker' = [worker EXCEPT !.state = "executed"]
    /\ UNCHANGED <<orderVars, life, monitorVars, tracker, active, mutex, discards, syncVars, recordVars>>

\* The worker's close order reaches the exchange; it is reduce-only.
OrderArrives ==
    /\ worker.state = "sent"
    /\ \/ /\ held > 0
          /\ Sell(Reduced(worker.qty))
          /\ worker' = [worker EXCEPT !.state = "executed"]
       \/ /\ held = 0
          /\ worker' = [worker EXCEPT !.state = "rejected"]
          /\ UNCHANGED <<held, stream>>
    /\ UNCHANGED <<orderVars, life, monitorVars, tracker, active, mutex, discards, syncVars, recordVars>>

--------------------------------------------------------------------------------
\* Mutant: a tracker that is there already is used for the entry.
EntryTrackerKept == IF tracker = NoTracker THEN NewTracker(life', "LONG") ELSE tracker

\* The entry replaces whatever tracker the symbol has.
EntryTracker == NewTracker(life', "LONG")

\* _execute_triggered_signal: a pending signal triggers and its market order is
\* filled.  The service makes a tracker, places the backup stop loss (which may
\* fail), starts monitoring and refreshes the cached positions, all in one step;
\* with the symbol still monitored it returns before the last two.  The gates look
\* at the cached positions only: an older position that the cache has lost is added
\* to, and its tracker replaced.
\* Assumed of the exchange: the fills of a closed position have arrived before the
\* symbol's next signal has been collected, ranked and triggered.
Enter ==
    /\ life < MaxLives
    /\ active = 0
    /\ stream = <<>>
    /\ life' = life + 1
    /\ held' = held + Size
    /\ gaps' = IF held > 0 THEN gaps \union {<<life', "added">>} ELSE gaps
    /\ stream' = Fills("entry", EntryFills)
    /\ tracker' = EntryTracker
    /\ backup' \in BOOLEAN
    /\ IF monitored = "off"
       THEN monitored' = "entry" /\ active' = held'
       ELSE UNCHANGED <<monitored, active>>
    /\ UNCHANGED <<resting, request, worker, mutex, discards, syncVars, recorded>>

--------------------------------------------------------------------------------
\* The position monitor.

\* _queue_execution: refused while an exit of the symbol waits.
Queue(kind) == request' = IF request = "none" THEN kind ELSE request

\* Hard cap, candle-close stop loss or full take profit: the request is queued
\* and the monitor lets go of the position, whether or not it was accepted.
ExitTriggered ==
    /\ monitored # "off"
    /\ Queue("full")
    /\ monitored' = "off"
    /\ UNCHANGED <<exchangeVars, life, worker, tracker, active, mutex, discards, syncVars, recordVars>>

\* Stop loss within the grace period after the entry: the monitor holds on.
GraceExitTriggered ==
    /\ monitored = "entry"
    /\ Queue("full")
    /\ UNCHANGED <<exchangeVars, life, monitored, worker, tracker, active, mutex, discards, syncVars, recordVars>>

\* A take profit that was hit within the grace period closes a part.
PartialTriggered ==
    /\ monitored = "entry"
    /\ Queue("partial")
    /\ monitored' = "trailing"
    /\ UNCHANGED <<exchangeVars, life, worker, tracker, active, mutex, discards, syncVars, recordVars>>

\* An entry fill has not been handled yet.
EntryDue == \E i \in 1 .. Len(stream) : stream[i].kind = "entry"

\* Mutant: the fills are left to remove the tracker.
LimitFilledKeepsTracker ==
    /\ Sell(Reduced(tracker.entered))
    /\ recorded' = [recorded EXCEPT ![tracker.life] = @ + 1]
    /\ gaps' = IF EntryDue THEN gaps \union {<<tracker.life, "early">>} ELSE gaps
    /\ active' = 0 /\ mutex' = "free"
    /\ CancelOrders
    /\ UNCHANGED tracker

\* The limit order was polled until it was filled.  Its status has a price: the
\* trade is recorded and mutex, caches and tracker are dropped before the fills come.
LimitFilled ==
    /\ Sell(Reduced(tracker.entered))
    /\ recorded' = [recorded EXCEPT ![tracker.life] = @ + 1]
    /\ gaps' = IF EntryDue THEN gaps \union {<<tracker.life, "early">>} ELSE gaps
    /\ tracker' = NoTracker /\ active' = 0 /\ mutex' = "free"
    /\ CancelOrders

\* A market order follows, for all of the quantity or for what the limit order left.
\* What the limit order sold may have escaped the polls, and when it could not be
\* cancelled it stays in the book.  The market order's acknowledgement has no price,
\* so the close is deferred; when it is refused or lost the mutex is given back.
MarketFollows ==
    /\ \/ /\ \E sold \in Reduced(tracker.entered) .. Reduced(2 * tracker.entered) : Sell(sold)
          /\ mutex' = "fresh"
          /\ backup' \in {FALSE, backup}
       \/ /\ \/ \E sold \in 1 .. Reduced(2 * tracker.entered) : Sell(sold)
             \/ UNCHANGED <<held, stream>>
          /\ mutex' = "free"
          /\ UNCHANGED backup
    /\ resting' \in BOOLEAN
    /\ UNCHANGED <<tracker, active, recordVars>>

\* _check_candle_close_exit_adapter and _close_position_market: a profitable
\* position is closed with orders that block the event loop, first a reduce-only
\* limit order (order_type is LIMIT; with MARKET only MarketFollows is left).  The
\* mutex is taken without asking whether it is held.  With nothing to sell, or a
\* tracker that is not the position's, the orders are refused.
AutoClose ==
    /\ monitored = "entry"
    /\ tracker # NoTracker
    /\ monitored' = "off"
    /\ \/ /\ held > 0 /\ tracker.side = "LONG" /\ tracker.entered > 0
          /\ LimitFilled \/ MarketFollows
       \/ /\ mutex' = "free"
          /\ UNCHANGED <<exchangeVars, tracker, active, recordVars>>
    /\ UNCHANGED <<life, request, worker, discards, syncVars>>

--------------------------------------------------------------------------------
\* The execution worker and close_position_async.

Send(kind, qty, n) ==
    worker' = [state |-> "sent", kind |-> kind, qty |-> qty, calls |-> n]

\* One call of close_position_async, up to the suspension in create_order, and
\* the calls that follow at once when it fails without one: with the mutex
\* taken all of them are refused; with no cached position the first one leaves
\* the mutex behind and the others are refused.
CallFullClose(n, m) ==
    \/ /\ m = "fresh"
       /\ worker' = IdleWorker
       /\ mutex' = m
       /\ UNCHANGED orderVars
    \/ /\ m # "fresh"
       /\ active = 0
       /\ worker' = IdleWorker
       /\ mutex' = "fresh"
       /\ UNCHANGED orderVars
    \/ /\ m # "fresh"
       /\ active > 0
       /\ Send("full", active, n)
       /\ mutex' = "fresh"
       /\ CancelOrders

\* One call of partial_close_position_async (no mutex).  60 % of the position,
\* rounded down to lots; a part below the minimum quantity closes everything.
CallPartialClose(n) ==
    \/ /\ active = 0
       /\ worker' = IdleWorker
       /\ UNCHANGED <<mutex, orderVars>>
    \/ /\ active > 1
       /\ Send("partial", (active * 6) \div 10, n)
       /\ UNCHANGED <<mutex, orderVars>>
    \/ active = 1 /\ CallFullClose(n, mutex)

Attempt(kind, n, m) ==
    \/ kind = "full" /\ CallFullClose(n, m)
    \/ kind = "partial" /\ CallPartialClose(n)

WorkerTakes ==
    /\ worker = IdleWorker
    /\ request # "none"
    /\ request' = "none"
    /\ Attempt(request, 1, mutex)
    /\ UNCHANGED <<held, stream, life, monitored, tracker, active, discards, syncVars, recordVars>>

\* The order was acknowledged.  The acknowledgement of a market order carries no
\* price, so a full close is deferred: mutex and caches are kept for the fills.
Acknowledged ==
    /\ worker.state = "executed"
    /\ worker' = IdleWorker
    /\ UNCHANGED <<exchangeVars, life, monitorVars, tracker, active, mutex, discards, syncVars, recordVars>>

\* create_order raised: the order or its answer was lost, or it was rejected.
\* A full close gives the mutex back; the worker tries again at once.
CallFailed ==
    /\ worker.state # "idle"
    /\ LET freed == IF worker.kind = "full" THEN "free" ELSE mutex IN
       \/ /\ worker.calls < MaxCalls
          /\ Attempt(worker.kind, worker.calls + 1, freed)
       \/ /\ worker.calls = MaxCalls
          /\ worker' = IdleWorker
          /\ mutex' = freed
          /\ UNCHANGED orderVars
    /\ UNCHANGED <<held, stream, life, monitorVars, tracker, active, discards, syncVars, recordVars>>

--------------------------------------------------------------------------------
\* _record_fill_to_local_tracker: what the user data stream does with a fill.

\* _complete_deferred_close
Complete ==
    /\ recorded' = [recorded EXCEPT ![tracker.life] = @ + 1]
    /\ monitored' = "off"
    /\ active' = 0
    /\ tracker' = NoTracker
    /\ mutex' = IF mutex = "free" THEN "fresh" ELSE mutex
    /\ discards' = discards + 1

\* A fill without a tracker is ignored while the symbol is being closed, or when
\* the cached position shows that it is an exit.
Ignored(fill) ==
    /\ tracker = NoTracker
    /\ mutex # "free" \/ (fill.kind = "exit" /\ active > 0)

\* The tracker a fill goes to.  A missing one is made on the spot, on the side of
\* the symbol's pending signal, or else of the fill.
Receiver ==
    IF tracker = NoTracker THEN {NewTracker(life, side) : side \in Side} ELSE {tracker}

Exits(t, fill) == fill.kind = IF t.side = "LONG" THEN "exit" ELSE "entry"

Completes(t, fill) ==
    /\ Exits(t, fill)
    /\ Quantity(t) > 0
    /\ Quantity(AddExitFill(t, fill.qty)) = 0

Note(t, fill) ==
    tracker' = IF Exits(t, fill) THEN AddExitFill(t, fill.qty) ELSE AddEntryFill(t, fill.qty)

\* Mutant: as before v5.5.0, only a close of the service's own is completed.
BookOwn(t, fill) ==
    IF mutex # "free" /\ Completes(t, fill) THEN Complete
    ELSE Note(t, fill) /\ UNCHANGED bookVars

Book(t, fill) ==
    IF Completes(t, fill) THEN Complete
    ELSE Note(t, fill) /\ UNCHANGED bookVars

\* An entry fill that is of the size of an earlier one.
LooksRecorded(fill) ==
    /\ tracker # NoTracker
    /\ tracker.side = "LONG" /\ fill.kind = "entry" /\ fill.qty \in tracker.sizes

RecordFill ==
    /\ stream # <<>>
    /\ stream' = Tail(stream)
    /\ gaps' = IF LooksRecorded(Head(stream)) THEN gaps \union {<<tracker.life, "equal">>} ELSE gaps
    /\ IF Ignored(Head(stream))
       THEN UNCHANGED <<tracker, bookVars>>
       ELSE \E t \in Receiver : Book(t, Head(stream))
    /\ UNCHANGED <<held, orderVars, life, request, worker, syncVars>>

\* _delayed_discard, five seconds after a completion.
Discard ==
    /\ discards > 0
    /\ discards' = discards - 1
    /\ mutex' = "free"
    /\ UNCHANGED <<exchangeVars, life, monitorVars, worker, tracker, active, syncVars, recordVars>>

\* Sixty seconds have passed.  A call in flight ends earlier: REST calls time
\* out after 30 seconds.
MutexAges ==
    /\ mutex = "fresh"
    /\ worker = IdleWorker
    /\ mutex' = "stale"
    /\ UNCHANGED <<exchangeVars, life, monitorVars, worker, tracker, active, discards, syncVars, recordVars>>

--------------------------------------------------------------------------------
\* The sync loop and the reconciliation loop.

\* The exchange answers get_positions.
SyncRead ==
    /\ snapshot = {}
    /\ snapshot' = {held}
    /\ UNCHANGED <<exchangeVars, life, monitorVars, worker, tracker, active, mutex, discards, sweeps, audit, recordVars>>

\* _refresh_positions_async and _ensure_positions_monitored: the answer replaces
\* the cache; a symbol gone from it is swept, an unmonitored one is taken up
\* again unless it is being closed.
SyncApply ==
    /\ \E amount \in snapshot :
         /\ active' = amount
         /\ sweeps' = IF active > 0 /\ amount = 0 THEN sweeps + 1 ELSE sweeps
         /\ IF amount > 0 /\ mutex = "free" /\ monitored = "off"
            THEN monitored' \in {"entry", "trailing"}
            ELSE UNCHANGED monitored
    /\ snapshot' = {}
    /\ UNCHANGED <<exchangeVars, life, request, worker, tracker, mutex, discards, audit, recordVars>>

\* A position update on the user data stream: refresh_cached_positions asks the
\* exchange with a blocking call.
AccountUpdate ==
    /\ active # held
    /\ active' = held
    /\ UNCHANGED <<exchangeVars, life, monitorVars, worker, tracker, mutex, discards, syncVars, recordVars>>

\* _cleanup_zombie_orders cancels the orders of the symbol it finds.
Sweep ==
    /\ sweeps > 0
    /\ sweeps' = sweeps - 1
    /\ CancelOrders
    /\ UNCHANGED <<held, stream, life, monitorVars, worker, tracker, active, mutex, discards, snapshot, audit, recordVars>>

\* _perform_reconciliation asks the exchange every 60 seconds; only the answer
\* that there is no position can change anything.
AuditRead ==
    /\ held = 0
    /\ audit' = TRUE
    /\ UNCHANGED <<exchangeVars, life, monitorVars, worker, tracker, active, mutex, discards, snapshot, sweeps, recordVars>>

\* A cached position the answer does not have is a ghost: it is dropped, no longer
\* monitored, and its orders are cancelled.
Reconcile ==
    /\ audit
    /\ audit' = FALSE
    /\ IF active > 0
       THEN active' = 0 /\ monitored' = "off" /\ CancelOrders
       ELSE UNCHANGED <<active, monitored, orderVars>>
    /\ UNCHANGED <<held, stream, life, request, worker, tracker, mutex, discards, snapshot, sweeps, recordVars>>

--------------------------------------------------------------------------------
Next ==
    \/ BackupFires \/ RestingFills \/ OrderArrives
    \/ Enter
    \/ ExitTriggered \/ GraceExitTriggered \/ PartialTriggered \/ AutoClose
    \/ WorkerTakes \/ Acknowledged \/ CallFailed
    \/ RecordFill \/ Discard \/ MutexAges
    \/ SyncRead \/ SyncApply \/ AccountUpdate \/ Sweep
    \/ AuditRead \/ Reconcile

Fairness ==
    /\ WF_vars(WorkerTakes) /\ WF_vars(Acknowledged \/ CallFailed)
    /\ WF_vars(RecordFill) /\ WF_vars(Discard) /\ WF_vars(MutexAges)
    /\ WF_vars(SyncRead) /\ WF_vars(SyncApply) /\ WF_vars(Sweep)

Spec == Init /\ [][Next]_vars /\ Fairness

\* What the recording of a closed position needs: the stream delivers its fills.
StreamSpec == Init /\ [][Next]_vars /\ WF_vars(RecordFill)

--------------------------------------------------------------------------------
\* A closed position enters the circuit breaker and the database once, however its
\* fills, late fills and competing closes (own order, backup stop loss, candle close,
\* a limit order left in the book) fall together: whoever records it drops the
\* tracker, and no fill that is still to come makes another one that completes, unless
\* fills of the entry itself were still due.
RecordedOnce == \A l \in Lives : recorded[l] <= 1 \/ <<l, "early">> \in gaps

\* Once every fill has been handled, the service's own books and the exchange agree
\* about the newest position: until its trade is recorded the tracker has what is
\* held, however many parts have been closed, and afterwards nothing is held.
BooksAgree ==
    stream = <<>> /\ life > 0 /\ Accounted(life) =>
        held = IF tracker = NoTracker \/ recorded[life] > 0 THEN 0 ELSE Quantity(tracker)

\* A trade is recorded as closed, by the fills or by the reply of a candle close's
\* order, only when the exchange has closed all of it: partial closes and split fills
\* never complete a close early.
RecordedWhenFlat ==
    [][\A l \in Lives :
           recorded'[l] > recorded[l] => held' = 0 \/ ~Accounted(l)']_vars

\* A position that is gone, by whichever order, is recorded in the end; so the
\* circuit breaker learns of a loss the backup stop loss took, and the deferred
\* close always completes.
ClosedIsRecorded ==
    life > 0 /\ held = 0 ~> life > 0 /\ recorded[life] > 0

\* An open position the monitor has let go of is closed or taken up again.  (The
\* close mutex has a timeout "to prevent permanent MUTEX deadlock".)
NotLeftAlone == held > 0 /\ monitored = "off" ~> held = 0 \/ monitored # "off"

\* The backup stop loss of an open position is cancelled only by a close of that
\* position: it is the protection against "server crash".
BackupKept == [][backup /\ ~backup' => held' = 0 \/ mutex' # "free" \/ held' < held]_vars
================================================================================
