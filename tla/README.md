# A verification project for Hinto Trader

Hinto Trader is an automated trader for Binance USD-M futures.  Its Python backend
(`src/backend`) turns candles into signals, keeps them pending until the price reaches
them, buys, watches the position and closes it; a React frontend shows what it does.
This directory holds TLA+ models of the parts of the backend that hold money at risk,
the TLC runs that check them on small instances, and TLAPS proofs of what holds for
every instance.  `PROJECT.json` lists components, runs, mutants, hazards, findings and
theorems, and maps each definition to the lines it models.

Paths below are relative to `src/backend/src` unless they start with `src/`; `LTS` is
`application/services/live_trading_service.py` and `M` is
`application/services/position_monitor_service.py`.

## 1. The system

One process, one asyncio event loop.  Coroutines interleave at `await` only, but REST
calls made by the synchronous client block the loop, and some work runs in threads
(`asyncio.to_thread` for the candidates of a batch, a pool of four for limit orders).

| Component | State it keeps | Operations | Interacts with |
|---|---|---|---|
| SignalGenerator, indicators | none beyond candles | a signal per candle and symbol | RealtimeService calls it |
| SharkTankCoordinator | batch of a candle, last candle | `collect_signal`, debounce flush, `force_process` | calls `execute_signal`, cancels pending signals |
| LocalSignalTracker | pending signals, cooldowns | `add_signal`, price and candle checks, expiry | calls `_execute_triggered_signal` back |
| LiveTradingService, entering | order type, pending entries, limit order threads | `execute_signal`, `_execute_triggered_signal` | the client, tracker, monitor |
| BinanceFuturesClient | sessions per thread, time offset | signed requests, retried | the exchange |
| PositionMonitorService | monitored positions, their phase | ticks, candle closes | asks the queue for exits |
| PriorityExecutionQueue | heap, symbols and ids in it, lock | `enqueue`, `dequeue`, `stop_accepting` | ExecutionWorker takes from it |
| ExecutionWorker | running flag, task | retry, emergency close, drain | close callbacks of LTS |
| LiveTradingService, closing | cached positions, close mutex, local trackers | close, partial close, fills, sync, reconciliation, cleanup | exchange, stream, breaker, monitor |
| LocalPosition | fills, net quantity | `add_entry_fill`, `add_exit_fill` | LTS feeds it from the stream |
| UserDataStream | connection, listen key | delivers fills and account updates | LTS |
| CircuitBreaker | streaks, recent losses, deadlines, day's balance | `record_trade_with_time`, `update_portfolio_state`, `is_blocked` | asked at both gates before an entry |
| TradingStateMachine | state of the trader, cooldown | transitions, halt, restore | state recovery |
| SignalLifecycleService, TTL scheduler | status of signals in the database | confirm, expire | tracker, repositories |
| Backtest: BacktestEngine, ExecutionSimulator | orders, positions, balance, margin used and locked, trades | `run_portfolio`: `update`, `update_positions_1m`, `process_batch_signals` | tells a CircuitBreaker of its own |
| PaperTradingService | simulated orders and positions in the database | candle by candle | API |
| Repositories, API, notifications, frontend | SQLite tables, settings | read and write | all services |

What is hard about it:

* **Fills come back on their own.** A close order is only acknowledged; the trade is
  completed when its fills arrive on the user data stream, in lots, possibly after the
  cache was cleared, a second order was sent, or the exchange's own stop loss fired.
* **Several actors close one position**: the monitor on ticks, a candle close, the
  worker retrying, the backup stop loss, reconciliation dropping a "ghost".
* **Answers get old.** Two loops ask for all positions, await, and then overwrite caches
  that have changed meanwhile.
* **Requests are repeated** by the client, by the worker and by the entry, without a
  client order id; an order whose reply was lost may exist.
* **Waiting is bounded, work is not**: ten seconds for a limit order's thread, thirty for
  draining, sixty for the close mutex.
* **Guards read counts** (slots, positions, losses) that another actor is changing.

What makes each part correct is stated with its module below.  Every hazard, with the line
where it bites and the properties that watch it, is in `PROJECT.json`.

## 2. The modules

```
ExecutionRequests <- PriorityExecutionQueue <- ExecutionWorker  (refines ExitService)
PositionTracker   <- ExitPipeline           (monitor, worker, LTS, stream, exchange)
PositionMonitor   (monitor, watermark, database row, older trailing engine, reconcile_state, restart)
SignalAdmission   (coordinator, candidate threads, tracker, account cache)
EntryOrder        (entry, limit order threads, client, exchange)
CircuitBreaker
ExecutionSimulator (main loop of the backtest, its orders, positions and account)
```

`MC*` modules give the instances for TLC; `*_proofs` modules hold the theorems.  In the
order of a trade: a signal is admitted (`SignalAdmission`), bought (`EntryOrder`), watched
(`PositionMonitor`), its exit is queued (`ExecutionWorker`), closed and recorded
(`ExitPipeline`), and the record may stop the next one (`CircuitBreaker`).  Modules of
neighbouring stages share a boundary and not state: `EntryEnds` of `SignalAdmission` is all of
`EntryOrder` as one step, since the entry stops the event loop; the close under way in
`PositionMonitor` is the call that `ExitPipeline` splits.

### Exit requests: PriorityExecutionQueue, ExecutionWorker, ExitService

`PriorityExecutionQueue` has the heap as a set of requests (it orders by priority and
then by time, which is the order of acceptance), with the two indexes beside it.
`ExecutionWorker` is the coroutine `_run`: `task` says where it stands, "handed" being
the moment when `wait_for` has taken a request out of the queue but `_run` has not
resumed.  `Submit` is the monitor's request; `Succeed`, `ReportFailure`, `Raise` are the
three ways the close callback ends; `BackoffOver` and `EmergencyOver` end the waits of the
retry loop; `Stop`, `DrainOver`, `Stopped` are `stop()` up to each of its suspensions.
`ExitService` is what the two promise together, without attempts, indexes or shutdown
phases: requests are carried out one at a time, a stop loss before others and among
equals the oldest; each is resolved at most once; and one is given up unresolved only
after the service has closed.

### Signals: SignalAdmission

`CollectSignal` fills the batch of a candle and starts the two-second timer, whose end is
`DebounceFlush`; `FlushLoop` is the loop of the API that calls `force_process` every three seconds.
`ProcessBatch` ranks what was collected and starts a thread for each of the best: `step`
says where a thread stands between its checks, `PassGates`, `CheckSlots`, `Recycle` and
`Insert`, which are separate because the threads read the tables of the loop and of each
other without a lock.  `Trigger` and `EntryEnds` are the callback of a signal whose price is
reached.  `active` is the cache `active_positions`, `held` the exchange; `SyncAnswered` and
`SyncRefills`, `SyncApplied`, `Reconcile` read an answer and apply it later, and
`_refresh_positions_async` clears the cache before it fills it, which the threads see.

The cooldown of a batch (60 s) outlasts the debounce timer and the threads of the batch: it
is "early" while one of them may still be at work, then "late", then over.  A victim of
recycling that is already gone raises `KeyError` and ends the thread.  Every gate at the
trigger (safe mode, circuit breaker, blacklist, size) is `TriggerRefused`, which deletes the
signal.  `blind` remembers that some decision was taken while the cache lacked a held
position: limits hold only as far as the cache did.

### Monitoring: PositionMonitor

Three copies of the stop, phase and take-profit count of a position: the monitor's (`mon`),
the watermark of LTS (`wm`) and the row of `live_positions` (`row`).  A tick works on the first
and writes the others through callbacks; `Adopt` re-creates the monitor's from the watermark,
`Reload` the watermark from the row, and `EngineTick` is the older trailing engine of
`process_market_data_async`, which writes only the watermark.  The process ends in two ways.
`Restart` is a crash, `TornRows` being what one in the middle of a tick leaves; `ShutDown` is
`stop()`, which writes every watermark's stop into its row (LTS:3391): after an entry that is the
fixed stop over the signal's, and from a watermark the older engine made it is 0.
`StartAgain` is what both have in common, the next start included.  `DailyCleanup` marks a row
older than a day as a ghost; a day may be over at any moment of the model.  Closes are `Begin` to `CloseFails` or `CloseCompletes`; a
close deletes the watermark before its outcome is known.

`reconcile_state`, at the start and every five minutes, asks for the positions and then, in
two more requests, for the orders: `ReconcileAsks` keeps the first answer ("held" or "gone"),
and whatever happens until `AdoptOrphan`, `CleanStale` or `NothingToReconcile` acts on it is
not seen.  `bracket` and `tracker` say whether the symbol is in `_bracket_orders` and
`_local_positions`: an entry makes a tracker and no brackets, so that a position is adopted once
in its life, its watermark loses hits and phase, and after a restart, which keeps neither table,
it is also monitored afresh.  An outdated "held" may leave a monitor for a position that is
gone (`mon # Nothing` without `open`), whose next entry without backup stop then keeps it.

One symbol, levels instead of prices, larger is better, and the default settings (take profit
in full, stop looked at when a candle closes, no profit lock).  A candle may close at any
tick, with any low; `top` stands for `max_price` and may be any price seen or not, which only
adds behaviours, as `Short` does (the weaker breakeven condition of a short).  `kept` says that
the row was written for this position and that the monitor has worked from its own data since;
a position taken up without row or watermark, monitored afresh by `AdoptOrphan`, or whose row
got a stop at shutdown that the engine or a reconciliation had put into the watermark, is not
covered.  `asked` counts take profits since the position was last given one.  Not in the
model: the mutex that a failed close leaves behind (see `NotLeftAlone` of `ExitPipeline`), ticks
between the awaits of a portfolio exit, manual changes of stops, and the orders that
`reconcile_state` cancels on the exchange.

### Closing: PositionTracker, ExitPipeline

One symbol from entry to recorded trade, `MaxLives` times.  Worker calls are split where
`close_position_async` awaits `create_order`: the order reaches the exchange
(`OrderArrives`), and the call then ends acknowledged or with an error, whether or not
it was executed (`CallFailed` is enabled in every state of the order, which is a lost
reply).  Fills wait in `stream` and are handled one by one (`RecordFill`, which includes
`_complete_deferred_close`).  The two loops that read and then overwrite are two actions
each (`SyncRead`/`SyncApply`, `AuditRead`/`Reconcile`); cleanup tasks are counted in
`sweeps`, delayed mutex removals in `discards`.  The close mutex is "fresh" for sixty
seconds and then "stale".

`PositionTracker` is the arithmetic of `LocalPosition` in lots: an entry fill is a
duplicate when its size is already recorded for the order (order ids are the same for
all fills of an entry), an exit fill is refused once everything was exited.

`AutoClose` is the close of a profitable position at a candle close, with orders that block
the event loop.  By default the first is a reduce-only limit order (GTX).  When the polls see it
filled, its status has a price, and `LimitFilled` tells the breaker and the database at once and
drops tracker, cached position and mutex before the fills arrive (LTS:9173-9222); the fills then
find nothing that shows them to be exits and make a tracker on the wrong side.  Otherwise
`MarketFollows`: a market order for the rest, whose acknowledgement has no price, so that the close
is deferred; a part the limit order sold may have escaped the polls, and an order that could
not be cancelled stays in the book (`resting`, `RestingFills`).

A tracker may miss a part of its position in three ways, each recorded in `gaps` where it
happens and exempted by name in the properties: a fill of the entry has the size of another one
and is taken for a duplicate ("equal"); an entry adds to a position that the cache had lost, since
the gates count cached positions only, and replaces its tracker ("added"); a candle close is
recorded from the reply while fills of the entry are still due ("early").

Assumed of the exchange: fills arrive in order and each once; an order marked
reduce-only sells at most what is held; the fills of a closed position are in before the
symbol's next entry.

Left out: a price in the reply to a market order (`create_order` does not ask for the full
response, so it says NEW and the close is deferred), the branch without Telegram service, the
force-close of positions in a dead zone (LTS:6886, in a thread that `api/main.py:594` starts
once a minute), which is one more closer that may compete with the others, restart and price levels (both in
`PositionMonitor`), a queue that is full, shorts (they mirror longs), and `reconcile_state`,
whose effect on the monitor's tables is in `PositionMonitor`.  Here it could drop the tracker
of a position whose backup stop is just being executed, so that the trade is not recorded, and
cancel the backup stop of a fresh entry as an orphan order; the properties of this module are
claimed without it.

### Entering: EntryOrder

`_execute_triggered_signal` from its gates to the backup stop loss.  An attempt submits
a post-only limit order to a thread (`Place`, `Poll`, `EndPolling`, `Cancel`, `Confirm` are
the steps of `_try_limit_gtx_order_sync`), takes the thread's result or gives up waiting
after ten seconds, and sends a market order for the rest.  Threads of earlier attempts
may still be at work.  A result is the executed quantity: nothing, a part, or all, which
stand for `None`, `PARTIALLY_FILLED` and `FILLED`.  `Deliveries` is what the two tries of
`_send_signed_request` can do with an order: how often the exchange makes it and what the
client is told.  `faults` counts tries that were not answered and threads not waited for.

Polls that find the order open change nothing and are no steps; so the number of polls
and the time between them are abstracted, and any fill may come between any two of the
thread's requests.  The gates of the handler are one choice, because none of them
changes state.  Assumed of the exchange: a market order that is accepted is executed in
full; replies to new orders say NEW.

### CircuitBreaker

Every trade result and balance, with the time it was told, is kept in a history that the
code does not have.  The actions translate the counters, pruned lists and deadlines of
the code; the properties say what the history calls for and compare.  `RecordTrade` is
all of `record_trade_with_time`.  The cooldown schedule, limits, windows and dead zones
are constants, and a limit of 0 switches its rule off as in the code.

Time is discrete (one unit is the granularity of cooldowns and windows); `update_params`,
the size penalty and the texts of `get_block_reason` are left out.

### The backtest: ExecutionSimulator

One step of the model is one stage of one candle of one symbol.  `step` says where the main
loop stands: the next bar, `update` over the candles of the bar, the minutes of the bar with
`update_positions_1m`, the bar's signals, `process_batch_signals`, placing, closing the
portfolio, and the end of the data.  A candle is walked in three or four prices; the stages of
a symbol are `OrderStage` (fill, cancel, wait) or `PositionStage`, whose checks are a list in the
code's order, the first that applies deciding (`BarChecks`, `MinuteChecks`, `UncoveredChecks`).
Money is gain times lots, a gain is the distance from the entry in the position's favour, so
longs and shorts read alike.  `opt` holds the settings of a backtest; a run checks several
groups at once.

Open: which signals come, which of them the circuit breaker and the filters let through, the
order of symbols within a candle.  Assumed: slippage and fees constant per unit, the quantity
filled is the quantity ordered, fixed leverage, stops of signals within the limits and above the
minimum notional, `profitable_check_interval` 1, `max_sl_pct` set exactly when stops look at
closes only, dead zones that begin and end with a bar, no rolling router.  A pending symbol
without a candle in the bar has any price.

## 3. The runs

| Run | Question | Instance | Result |
|---|---|---|---|
| `exec_worker` | Is any accepted exit lost between heap, indexes, hand-over, retries and shutdown; does the worker refine `ExitService`; is everything resolved? | 3 symbols, 3 requests, queue of 2, 3 retries | holds |
| `exit_pipeline` | Is every closed trade recorded once and in the end, and do the books agree with the exchange, from one position to the next? | 1 lot, 2 positions, 2 calls | holds |
| `exit_unequal_fills` | Is a trade recorded once and only when flat, and do the books agree, when entry and exits are filled and closed in parts? | 3 lots as 1+2, 1 position, 1 call | holds |
| `exit_mutex_leak` | Is an open position never left alone? | 1 lot | **violated** |
| `exit_backup_cancelled` | Is the backup stop loss kept while the position is open? | 1 lot | **violated** |
| `entry_order` | Is what is reported as entered held in full; without faults, is it exact and is nothing left in the book; does it end? | 3 lots, 2 attempts, 3 faults | holds |
| `entry_remainder` | Is only the remainder of a part-filled order bought? | 2 lots, 3 attempts, no faults | **violated** |
| `circuit_breaker` | Do the breaker's tables block exactly what the history calls for? | 2 symbols, 2 sides, 3 reports, 7 hours | holds |
| `signal_admission` | Is each candle executed once, are slots and position limits kept although threads check and insert without a lock, is what is recycled worse than what replaces it? | 3 symbols, 2 slots, 2 scores, 2 candles, 1 sync | holds |
| `position_monitor` | Do monitor, watermark and row agree, is the stop never loosened, the take profit asked for once, and an open position never left unmonitored for ever? | 3 prices, 2 pieces of work in flight, any number of positions, reconciliations, restarts and cleanups | holds |
| `position_monitor_restart` | Does a stop that reached breakeven stay there while the position is monitored? | the same | **violated** |
| `backtest` | Do margin and balance add up, are stops honoured and before liquidation, is each trade of a replay told to the breaker once? | 14 groups of settings, 10 shapes of candles, 3 to 5 bars | holds |

Each violation is a disagreement of the code with its own comments, told in
`PROJECT.json` under `findings` with both places quoted:

* A close that finds no cached position leaves the mutex behind; the monitor has let go
  of the symbol and the sync loop does not take it up while the mutex is there.
* A reconciliation or cleanup begun before an entry cancels the new position's backup
  stop loss.
* When the market order for the remainder is refused (a remainder below the minimum
  notional, for one) the next attempt buys the whole quantity again; when all are
  refused a failed entry leaves the part without stop loss.
* After a restart a position is restored with the stop, phase and take-profit count of its
  row, and then adopted once more by `reconcile_state`, since it has no bracket orders and no
  tracker: it is monitored with the fixed stop of 1.2 %, in phase entry, and its take profit
  may be asked for again.

**What the models leave aside, seen while writing them.**  These have no run; each is
excluded by a constant or a stated assumption, or is code that changes no state here.

* Two equal fills of an entry are taken for one; a partial close then completes the trade
  while half of the position is open (the exemption of "equal").
* The text in `_record_fill_to_local_tracker` (LTS:1517) says that an exit fill of a position
  that "was already closed and cleaned up" makes no ghost tracker; after a candle close whose
  limit order was filled it does (see `LimitFilled`).  It never completes and the next entry
  replaces it, so `RecordedOnce` and `BooksAgree` hold.
* A candle close that is recorded from its reply, with a tracker that missed a part of the
  position or whose entry fills are still due, closes the trade in the books with a part of it
  held; when that part is sold a second trade may be recorded.
* A second entry on top of a position the cache has lost makes one tracker for both ("added").
* `cleanup_ghost_positions` says that ghosts are rows "that no longer exist on exchange"; the
  exchange is not asked, so a position held for a day loses its row.  A restart then takes it
  up as an orphan with a stop of 2 % and no take profit.
* `stop()` of LTS writes a watermark's stop over a tighter one in the row: the signal's after a
  plain entry, and any stop when the older engine has made the watermark anew with none; what is
  restored from that has only a take profit (hence `TypeOK`: a stop or a take profit).
* `stop()` ends the task when its time is over or the worker is between attempts, so a
  request that was begun may be neither done nor failed; `DrainedOnStop` says no more.
* A win clears the deadline that the daily loss limit has set (`circuit_breaker.py:307`);
  `CausesBlock` leaves that limit out.
* A portfolio exit tells the breaker of the trade itself, whatever became of the close, and
  the fills tell it again.
* The take profit saves the phase "CLOSED" when its close is asked for (M:1954).  When that
  close fails, or the process stops first, the position is taken up in a phase in which every
  tick returns before the hard cap is looked at, until `reconcile_state` or a portfolio exit
  comes by.
* An answer `reconcile_state` has waited with takes a fresh entry for stale: tracker, brackets
  and watermark go, its stop order is cancelled, and the next sync takes it up as an orphan; or
  it adopts a position that has been closed meanwhile, which leaves a monitor without position.
* `_place_backup_sl_only` starts the monitor with the fixed stop of 1.2 %, so the later start
  with the signal's stop returns at once (LTS:4824).
* The first `_sync_position_states_from_exchange` (LTS:797) is shadowed by a second of the same
  name (LTS:3955), so no local tracker is made after a restart.  `get_live_position`
  (LTS:1313) does not exist.
* The older trailing engine and the monitor both take profits; the engine's mark of
  breakeven can make a re-adopted position start in that phase without its stop moved.
* A trigger whose gate says no deletes the signal, where the log says it stays pending
  (LTS:4462).
* Backtest: a short walked high first is liquidated before its stop is looked at, although
  the text at `execution_simulator.py:1783` says the stop comes first; and a take profit in parts
  puts a stop that was at breakeven back at the entry, after its checkpoint of the bar was computed,
  so a fall through the rest of the bar liquidates at once what is left (`StopBeforeLiquidation`
  excepts both).  A breakeven after the profit lock lowers the locked stop in the same way, so the
  property is about settings without the lock; trades closed by reversal, by the portfolio target of a bar and at the end of the
  data are not told to the breaker; with one-minute candles a position whose symbol has none in the
  last minute stays open at the end; with the chase of market orders a position filled at the
  close of a bar is then compared with minutes before its fill; a partial close releases no
  margin until the position is closed, and a liquidation then costs all of it; the fallback
  without one-minute candles looks at neither stop nor liquidation; `n1_fill` and, in bars of
  15 minutes, `partial_close_ac` have no effect; `_replace_pending_order` is never called.

**Bounds.**  Three requests over a queue of two make a full queue, a duplicate and a
priority inversion possible at once.  The exit pipeline: two positions in a row show everything a symbol
leaves behind for its next one, and two calls are one repetition; `exit_pipeline` has both,
with positions of one lot, and 1,567,218 states.  `exit_unequal_fills` has one position of three lots,
the least for which an entry comes in unequal parts and a partial close leaves something, and
3,053,570 states with one call.  That a partial close is repeated is checked by neither; the proofs
cover it.  Three lots make a
part of a limit order differ from its rest; two attempts are one repetition, and three
faults allow a repeated order, a lost answer and a late thread together.  In the breaker,
two symbols reach the thresholds of a side, a day of four hours is crossed within seven,
and three reports are one more than each limit, so that a block is renewed, lifted or
pruned.  In `signal_admission` two slots for three symbols make one signal too many; two
candles are one change, and one answer of the exchange is enough to be older than an entry.
`position_monitor` bounds only what is in flight: requests, threads, closes and answers
together are two (`MaxInFlight`), so that any one of them overlaps with any other.  It has
1,209,195 distinct states; its three prices lie below the hard cap, between breakeven and the
target, and above the target, and with a trail of 10 the trailing stop lies below and above the stop it
replaces.  Levels that no definition compares share a value: the default stop of an orphan with the
stop order on the exchange, the default take profit with the signal's.  The candles of `backtest` reach each threshold alone and in
either order within one candle, and a trail as long as the target leaves a stop at the entry; three to five bars are an order, its fill, a bar with a
position and what follows its close.  The constants of a run are in its `.cfg`.

Deadlock is checked in `backtest`, where only the end of the data may stop the loop.  It is not
checked elsewhere: the other models stop when their bounds are used up or when the last
position is closed.

**Fairness.**  The event loop runs every ready coroutine and every request ends, by the
client's timeout if need be, so the worker, the stream handler, the loops and the timers
are weakly fair, each for its own step; `exit_pipeline`, whose liveness property is about
recording only, is checked under `StreamSpec`, which assumes no more than that the stream's fills
are handled.  In `EntryOrder` the entry and each thread are.  In
`PositionMonitor` the five-second sync that adopts positions is (it calls
`_ensure_positions_monitored`; in live mode only once trading has been activated), and among the closes under
way some one ends, which the client's timeout and the worker's bounded retries give.
`SignalAdmission`, `CircuitBreaker` and `ExecutionSimulator` claim safety only and assume no
fairness.
Nothing is assumed of prices, signals, fills of a resting order, or of who calls
`stop()`.

**Mutants.**  Every property of a passing run is falsified by a bug planted in a
definition of the code: a dropped index update, a fill recognised by size, a
quantity counted once, a cancellation not sent, a block kept from a stale list, a candle
not marked as processed, a margin released with every part.  Mutant definitions stand in front
of the definition they replace and are used by nothing else.

## 4. The proofs

TLAPS proves, with the constants as parameters and only the `ASSUME`s that stand in the
modules (sizes and bounds are natural numbers, most of them positive):

`ExecutionWorker_proofs`: type correctness, `TrackingExact`, `NothingLost`, `RetryBound`,
`DrainedOnStop`, and that the worker implements `ExitService`.  The inductive invariant
adds to the properties that ids are unique and below `nextId` (`Numbered`, without which
taking the minimum could remove two requests), that calls made follow from the attempt
under way (`Counted`), and what `stop` has reached (`Stopping`).  The refinement is a step
simulation: a submission is an `Accept`, `Take` a `TakeUp`, each way of finishing a
`Resolve`, retries and start stutter.

`ExitPipeline_proofs`: type correctness, hence that no order sells more than is held, and
`RecordedOnce`, for every split of an entry into fills, equal parts included, and for the
recordings by a fill as for those from the reply of a limit order.  Recording
once rests on the order of the stream: no entry fill follows an exit fill (`Ordered`), so
once a trade is recorded only exit fills can come, and a tracker that such a fill makes
on the spot is either on the wrong side or can never complete (`Mirrored`, `Closed`).  When a
candle close is recorded before the entry's fills are in, the argument fails, and the
property exempts "early".

`EntryOrder_proofs`: type correctness, `EnteredIsHeld`, `NothingLeftOpen` and
`ExactWhenAnswered`.  Three invariants build on each other.  `Held`: what any order or
thread counts as filled is no more than what is held, and a market order covers what is
missing; so with any number of lost, repeated or late requests a reported entry is
held in full.  `Quiet`: without faults only the thread waited for has work to do and an
order in the book.  `Exact`: without faults and in the first attempt, bought lots, the
order's fills, the thread's result and the remainder add up at every step.

`SignalAdmission_proofs`: type correctness, `OneBatchPerCandle`, `PendingWithinSlots` and
`LimitsHoldWhenSeen`, for every set of symbols, scores, limit, number of candles and syncs.
That no candle is executed twice rests on `Rounds`: signals are queued only while the timer
runs, its candle is later than the last one processed, and when the flush loop was first the
cooldown is still early, so that the timer's own batch does nothing.  The slots are a matter of
counting (`Slots`): pending signals and threads together are no more than allowed, because a
batch gives out only free slots and the cooldown outlasts its threads.  The limits (`Seen`,
`Apart`) hold because, until a decision was blind, a signal on its way is never that of a held
symbol and an entry under way has a free place.

`PositionMonitor_proofs`: type correctness, `CopiesAgree`, `TargetAskedOnce` and
`StopNeverLoosened`, for all levels and prices, any number of positions, crashes, shutdowns,
cleanups and reconciliations.  The inductive invariant has three parts: `TypeOK`, in which a monitored
position has a stop or a take profit, because what would have neither counts as an orphan and
gets a stop; a take profit that was asked for is gone from every copy a restart or an adoption
can read (`Spent`); and monitor, untouched watermark and row tell the same story (`Story`).  Since
the cleanup may take the row away while monitor and watermark go on, `Story` is about the row as it would
be: some row, kept up by every tick, that the real one equals when it is there (`Tale`).

`SignalAdmission_proofs` also has `RecycledIsWorse`.  The victim is chosen when the thread counts
the slots and deleted later, after other threads and the loop have changed the table.  It stays
worse because a symbol with a thread under way has no pending signal and a chosen victim has no
thread (`Chosen`): nobody can replace the victim's signal by a better one in between.

`CircuitBreaker_proofs`: all of the module's invariants, for every number of symbols, every limit
and window.  The counters, lists and deadlines of the code are shown to be functions of the
history: `Counted` (a streak is the trades of a side since its last win, a day's losses are those
in the history, a pruned list holds what the window still reaches), `Caused` (every deadline has a
trade that calls for it), `Served` (every trade that calls for a block has one) and `Balanced`
(the day's first balance and the halt).  Counting through appends needs no induction: the
lemmas compare cardinalities of the sets before and after.  `BlocksKept` assumes
`CooldownsRise`, that a longer streak never has a shorter cooldown, because the code overwrites
the deadline of the streak; the one schedule in the repository, `2:0.5,3:2,4:8,5:24` at
`infrastructure/di_container.py:1123`, rises.

`ExitPipeline_proofs` also has `BooksAgree` and `RecordedWhenFlat`.  `Booked` follows the net
quantity of the tracker through the fills that are still in the stream (`Course`): what is booked
plus what is on its way is what the exchange holds, as long as nothing is missing from the
tracker (`Accounted`).  Nothing is assumed of the sizes of fills; `gaps` names the positions the
two properties do not speak of.  `SumAssumption` says that the fills of an entry sum to its
quantity; it relates two constants of the model.

`ExecutionSimulator_proofs`: type correctness, `EachTradeToldOnce`, `AccountSound`,
`StopsHonoured` and the action property `StopBeforeLiquidation`, for any number of symbols, any
candles and any settings `Options` can hold.
* Sums over a set are recursive functions; what the proofs need of them (the sum without one
  element, with one changed, of a larger set) is shown by taking a smallest counterexample, since
  induction theorems with an operator parameter are unavailable.
* The effects of a stage are stated once (`OrderEffect`, `PositionEffect`): a step at one symbol
  leaves the others alone and changes the books by what that symbol weighed before and after
  (`Weighed`).
* `Looping` says where the loop can stand, `Hearing` what signals can wait there.  `TradesTold`
  counts trades and those told to the breaker.
* `RoomLeft`: signals that passed the counts of `process_batch_signals` still fit whichever of them
  are placed.  It is what makes the number of positions an invariant, since several signals are
  let through before the first is placed.
* `StopsKept`, `MidBar`: whatever moves a stop leaves it below the best price seen, and a
  target not taken at an earlier stage of the candle is not reached at its close.  The proof
  goes down the list of checks with the stages of the candle as a sequence
  (`Later`, `BetterAhead`).  `StopsAreHonoured` assumes `LevelsApart`: the levels that trigger the
  profit lock and the breakeven lie above the stops they set, and the trailing distance is
  positive.  The code does not check its settings for that; its defaults satisfy it, and without
  it a stop is moved above the market and hit at a price that was never traded.
* `StoppedBeforeLiquidated` assumes nothing of the levels beyond what the property names.  Its
  invariant `PathsGuarded` is about the prices still to be walked: before each of them that would
  liquidate comes one that takes the position out (`Preceded`).  A candle's path begins so
  (`PathGuarded`: the checkpoint of the stop comes before that of the liquidation price, and a
  candle that reaches only the latter opens beyond the stop), and a stage that leaves the position open keeps
  it (`GuardedOn`).  The proof attempt showed that the first form of the property was too strong:
  `Covers` needs a stop that never falls, and a part that is taken lowers one that was at
  breakeven.  TLC then found that liquidation, with the candle `Spike`, and the property now
  names it.

Only model-checked: the liveness properties (`AcceptedIsResolved`, `StopReturns`,
`ClosedIsRecorded`, `Settles`, `TakenUpAgain`), which are out of the prover's reach.

## 5. What is not modelled

* TradingStateMachine and the state recovery service: states and cooldown of the trader;
  planned below.  SignalLifecycleService and the TTL scheduler change the status of
  signals in the database only.
* PaperTradingService simulates orders candle by candle, as the backtest does.
* Market data, indicators, strategies and confidence arithmetic are functions of candles.
* Repositories are modelled where a property depends on a write (the row of
  `PositionMonitor`); API routes, notifications, monitoring and the frontend do input and
  output.
* Of the entry: sizing, leverage and `execute_signal` before the tracker.  Of the tracker:
  restoring signals at start.  Of the coordinator: its own recycling, which is switched off.
* Of the breaker: `update_params`, the size penalty, the texts of `get_block_reason`.
* Of the backtest: sizing by volatility, dynamic take profits, the ramp of the balance, volume
  filter, `max_order_value`, maker fees, exit at a fixed profit, exit profiles, replay events,
  statistics and reports; and the one-minute candles left after the last bar of 15 minutes
  (`backtest_engine.py:647`), whose trades are not told to the breaker.
* Of signals: `EntryEnds` refreshes the cached positions and deletes the signal in one step; the
  code does the first at the end of the callback and the second after it.
* Of the monitor: take profit in parts, profit lock and intrabar stops, which settings switch
  off by default.

## 6. Plan

1. `TradingStateMachine`: states, cooldown, halt and restore; halted is final, and a
   restored state is one the transitions allow.  Sequential and small.
2. The replacement of stop orders (`update_stop_loss`, `_on_order_update`) as a further
   component of `ExitPipeline`: between cancelling and placing there is no protection.
3. `PaperTradingService`, with the account properties of `ExecutionSimulator`.

Proofs left: of `EntryOrder`, that the quantity bought is bounded by attempts and tries.
