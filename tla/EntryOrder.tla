------------------------------- MODULE EntryOrder -------------------------------
(***************************************************************************)
(* How a triggered signal is bought: up to MaxAttempts attempts, each a    *)
(* post-only (GTX) limit order followed by a market order for the rest.    *)
(* The limit order is placed, polled and cancelled by a thread of a pool,  *)
(* for which the entry waits ten seconds; a thread that is late goes on    *)
(* alone.  Every signed request is sent again by the client when it is not *)
(* answered, and carries no client order id, so an order whose reply was   *)
(* lost may be placed twice.                                               *)
(*                                                                         *)
(* The exchange fills a limit order in any parts at any time, expires one  *)
(* that crosses the book, and executes an accepted market order at once    *)
(* and in full; its replies to new orders say NEW, never FILLED, so that   *)
(* an order filled at once is one filled before the first poll.            *)
(***************************************************************************)
EXTENDS Integers

CONSTANTS
    Quantity,       \* signal.quantity, in lots
    MaxAttempts,    \* MAX_RETRIES of _execute_triggered_signal
    OrderTypes,     \* the values order_type may have
    MaxFaults       \* bound: requests to the exchange that are not answered

ASSUME QuantityAssumption == Quantity \in Nat \ {0}
ASSUME MaxAttemptsAssumption == MaxAttempts \in Nat \ {0}
ASSUME OrderTypesAssumption == OrderTypes \subseteq {"LIMIT", "MARKET"}
ASSUME MaxFaultsAssumption == MaxFaults \in Nat

VARIABLES
    \* the entry
    orderType,
    entry,          \* how far _execute_triggered_signal is
    attempt,
    remaining,      \* remaining_qty of the attempt
    stop,           \* the quantity of the backup stop loss
    \* the threads of the pool, one for each attempt
    step,
    executed,       \* what the thread returns: 0 for None, Quantity for FILLED
    \* the exchange
    gtx,            \* the limit orders of each attempt, the answered one first
    bought,         \* the position of the symbol
    faults          \* requests not answered and results not waited for

entryVars == <<orderType, entry, attempt, remaining, stop>>
threadVars == <<step, executed>>
vars == <<orderType, entry, attempt, remaining, stop, step, executed, gtx, bought, faults>>

Attempts == 1 .. MaxAttempts
Copies == 1 .. 2

LimitOrder ==
    {o \in [status : {"none", "open", "filled", "expired", "cancelled"}, filled : 0 .. Quantity] :
        /\ o.status = "filled" <=> o.filled = Quantity
        /\ o.status \in {"none", "expired"} => o.filled = 0}

NoOrder == [status |-> "none", filled |-> 0]
OpenOrder == [status |-> "open", filled |-> 0]

\* The entry, the threads and the orders keep their types; in particular the
\* market order of an attempt is never empty.
TypeOK ==
    /\ orderType \in {"LIMIT", "MARKET"}
    /\ entry \in {"idle", "ready", "waiting", "market", "bought", "entered", "failed"}
    /\ attempt \in Attempts
    /\ remaining \in 1 .. Quantity
    /\ stop \in 0 .. Quantity
    /\ step \in [Attempts -> {"idle", "place", "poll", "cancel", "confirm", "done"}]
    /\ executed \in [Attempts -> 0 .. Quantity]
    /\ gtx \in [Attempts -> [Copies -> LimitOrder]]
    /\ bought \in Nat
    /\ faults \in Nat

Init ==
    /\ orderType \in OrderTypes
    /\ entry = "idle"
    /\ attempt = 1
    /\ remaining = Quantity
    /\ stop = 0
    /\ step = [a \in Attempts |-> "idle"]
    /\ executed = [a \in Attempts |-> 0]
    /\ gtx = [a \in Attempts |-> [c \in Copies |-> NoOrder]]
    /\ bought = 0
    /\ faults = 0

--------------------------------------------------------------------------------
(* The client: a request is sent at most twice (MAX_RETRIES = 2), again when  *)
(* it was not answered, whether or not it had arrived.                        *)

Tries == 2

\* A request that the exchange never answers.
Unanswered ==
    /\ faults + Tries <= MaxFaults
    /\ faults' = faults + Tries

\* What may become of a new order: how often the exchange makes it, and the
\* answer the client gets in the end.
Deliveries ==
    {d \in [copies : 0 .. Tries, answer : {"accepted", "refused", "none"}] :
        /\ d.answer = "accepted" => d.copies > 0
        /\ d.answer = "refused" => d.copies < Tries}

\* The tries of the request that were not answered.
Lost(d) ==
    CASE d.answer = "none" -> Tries
      [] d.answer = "accepted" -> d.copies - 1
      [] d.answer = "refused" -> d.copies

Send(d) ==
    /\ d \in Deliveries
    /\ Lost(d) > 0 => faults + Lost(d) <= MaxFaults
    /\ faults' = faults + Lost(d)

--------------------------------------------------------------------------------
(* A thread of the pool: _try_limit_gtx_order_sync. *)

Place(a) ==
    /\ step[a] = "place"
    /\ \E d \in Deliveries :
          /\ Send(d)
          /\ gtx' = [gtx EXCEPT ![a] =
                        [c \in Copies |-> IF c <= d.copies THEN OpenOrder ELSE NoOrder]]
          /\ step' = [step EXCEPT ![a] = IF d.answer = "accepted" THEN "poll" ELSE "done"]
    /\ UNCHANGED <<entryVars, executed, bought>>

\* A poll that finds the order filled or gone; others change nothing.
Poll(a) ==
    /\ step[a] = "poll"
    /\ gtx[a][1].status \in {"filled", "expired"}
    /\ step' = [step EXCEPT ![a] = "done"]
    /\ executed' = [executed EXCEPT ![a] = gtx[a][1].filled]
    /\ UNCHANGED <<entryVars, gtx, bought, faults>>

\* Mutant: polled until it is filled.
EndPollingWhenFilled(a) ==
    /\ step[a] = "poll"
    /\ gtx[a][1].status = "filled"
    /\ step' = [step EXCEPT ![a] = "cancel"]
    /\ UNCHANGED <<entryVars, executed, gtx, bought, faults>>

\* Five seconds have passed.
EndPolling(a) ==
    /\ step[a] = "poll"
    /\ step' = [step EXCEPT ![a] = "cancel"]
    /\ UNCHANGED <<entryVars, executed, gtx, bought, faults>>

\* Mutant: the order is given up but not cancelled.
CancelNothing(a) ==
    /\ step[a] = "cancel"
    /\ step' = [step EXCEPT ![a] = "confirm"]
    /\ UNCHANGED <<entryVars, executed, gtx, bought, faults>>

\* An error, be it that the order is gone or that no answer came, is caught.
Cancel(a) ==
    /\ step[a] = "cancel"
    /\ step' = [step EXCEPT ![a] = "confirm"]
    /\ \/ /\ gtx[a][1].status = "open"
          /\ gtx' = [gtx EXCEPT ![a][1].status = "cancelled"]
          /\ UNCHANGED faults \/ Unanswered
       \/ /\ gtx[a][1].status # "open"
          /\ UNCHANGED <<gtx, faults>>
       \/ /\ Unanswered
          /\ UNCHANGED gtx
    /\ UNCHANGED <<entryVars, executed, bought>>

\* Mutant: what was filled before the cancellation is not asked for.
ConfirmNothing(a) ==
    /\ step[a] = "confirm"
    /\ step' = [step EXCEPT ![a] = "done"]
    /\ UNCHANGED <<entryVars, executed, gtx, bought, faults>>

\* The order is read once more; without an answer nothing counts as filled.
Confirm(a) ==
    /\ step[a] = "confirm"
    /\ step' = [step EXCEPT ![a] = "done"]
    /\ \/ /\ executed' = [executed EXCEPT ![a] = gtx[a][1].filled]
          /\ UNCHANGED faults
       \/ /\ Unanswered
          /\ UNCHANGED executed
    /\ UNCHANGED <<entryVars, gtx, bought>>

Thread(a) == Place(a) \/ Poll(a) \/ EndPolling(a) \/ Cancel(a) \/ Confirm(a)

--------------------------------------------------------------------------------
(* The entry: _execute_triggered_signal. *)

\* The signal passes the gates (breaker, safe mode, stop loss, heartbeat, slots)
\* or is dropped at one of them, before any order is sent.
Trigger ==
    /\ entry = "idle"
    /\ entry' \in {"ready", "failed"}
    /\ UNCHANGED <<orderType, attempt, remaining, stop, threadVars, gtx, bought, faults>>

Begin ==
    /\ entry = "ready"
    /\ remaining' = Quantity
    /\ \/ /\ orderType = "LIMIT"
          /\ entry' = "waiting"
          /\ step' = [step EXCEPT ![attempt] = "place"]
       \/ /\ orderType = "MARKET"
          /\ entry' = "market"
          /\ UNCHANGED step
    /\ UNCHANGED <<orderType, attempt, stop, executed, gtx, bought, faults>>

\* Mutant: any order the thread returns counts as filled.
TakeAnyResult ==
    /\ entry = "waiting"
    /\ step[attempt] = "done"
    /\ entry' = IF executed[attempt] > 0 THEN "bought" ELSE "market"
    /\ UNCHANGED <<orderType, attempt, remaining, stop, threadVars, gtx, bought, faults>>

\* Mutant: the market order is for the part that was filled.
TakeResultSwapped ==
    /\ entry = "waiting"
    /\ step[attempt] = "done"
    /\ \/ /\ executed[attempt] = Quantity
          /\ entry' = "bought"
          /\ UNCHANGED remaining
       \/ /\ executed[attempt] # Quantity
          /\ entry' = "market"
          /\ remaining' = executed[attempt]
    /\ UNCHANGED <<orderType, attempt, stop, threadVars, gtx, bought, faults>>

\* Only the rest of a partly filled limit order is bought at the market.
TakeResult ==
    /\ entry = "waiting"
    /\ step[attempt] = "done"
    /\ \/ /\ executed[attempt] = Quantity
          /\ entry' = "bought"
          /\ UNCHANGED remaining
       \/ /\ executed[attempt] # Quantity
          /\ entry' = "market"
          /\ remaining' = Quantity - executed[attempt]
    /\ UNCHANGED <<orderType, attempt, stop, threadVars, gtx, bought, faults>>

\* The ten seconds of future.result are over; the thread is not stopped.
GiveUpWaiting ==
    /\ entry = "waiting"
    /\ step[attempt] # "done"
    /\ entry' = "market"
    /\ faults' = faults + 1
    /\ UNCHANGED <<orderType, attempt, remaining, stop, threadVars, gtx, bought>>

\* The market order.  An error ends the attempt; the next one begins anew.
SendMarket ==
    /\ entry = "market"
    /\ \E d \in Deliveries :
          /\ Send(d)
          /\ bought' = bought + d.copies * remaining
          /\ \/ /\ d.answer = "accepted"
                /\ entry' = "bought"
                /\ UNCHANGED attempt
             \/ /\ d.answer # "accepted" /\ attempt < MaxAttempts
                /\ entry' = "ready"
                /\ attempt' = attempt + 1
             \/ /\ d.answer # "accepted" /\ attempt = MaxAttempts
                /\ entry' = "failed"
                /\ UNCHANGED attempt
    /\ UNCHANGED <<orderType, remaining, stop, threadVars, gtx>>

\* The quantity of the backup stop loss: an error while it is placed is caught.
BackupStop == {0, Quantity}

\* The backup stop loss, the records and the monitor get signal.quantity.
Protect ==
    /\ entry = "bought"
    /\ entry' = "entered"
    /\ stop' \in BackupStop
    /\ UNCHANGED <<orderType, attempt, remaining, threadVars, gtx, bought, faults>>

Entry == Begin \/ TakeResult \/ GiveUpWaiting \/ SendMarket \/ Protect

--------------------------------------------------------------------------------
(* The exchange. *)

Fill(a, c) ==
    /\ gtx[a][c].status = "open"
    /\ \E q \in 1 .. Quantity - gtx[a][c].filled :
          /\ gtx' = [gtx EXCEPT ![a][c] =
                [status |-> IF @.filled + q = Quantity THEN "filled" ELSE "open",
                 filled |-> @.filled + q]]
          /\ bought' = bought + q
    /\ UNCHANGED <<entryVars, threadVars, faults>>

Expire(a, c) ==
    /\ gtx[a][c] = OpenOrder
    /\ gtx' = [gtx EXCEPT ![a][c].status = "expired"]
    /\ UNCHANGED <<entryVars, threadVars, bought, faults>>

Exchange == \E a \in Attempts, c \in Copies : Fill(a, c) \/ Expire(a, c)

Next == Trigger \/ Entry \/ (\E a \in Attempts : Thread(a)) \/ Exchange

\* The thread of the entry runs on, its waiting is bounded, and so do the
\* threads of the pool, whose requests time out.  The exchange owes nothing.
Fairness == WF_vars(Entry) /\ \A a \in Attempts : WF_vars(Thread(a))

Spec == Init /\ [][Next]_vars /\ Fairness

--------------------------------------------------------------------------------
Over == entry \in {"entered", "failed"}

\* An entry reported as made is held in full, whatever was lost or late: the
\* stop loss and the monitor are never given more than there is.
EnteredIsHeld ==
    /\ entry \in {"bought", "entered"} => bought >= Quantity
    /\ stop <= bought

\* When every request is answered in time, no limit order is left in the book
\* once the entry has gone past it, not even when market orders are refused.
NothingLeftOpen ==
    faults = 0 /\ entry \notin {"ready", "waiting"} =>
        \A a \in Attempts, c \in Copies : gtx[a][c].status # "open"

\* When every request is answered in time, a signal bought in the first attempt
\* is bought exactly, however fills race with polls and the cancellation.
ExactWhenAnswered ==
    faults = 0 /\ attempt = 1 /\ entry \in {"bought", "entered"} => bought = Quantity

\* A triggered entry comes to an end, and so do its threads, whatever is lost.
Settles ==
    entry # "idle" ~> Over /\ \A a \in Attempts : step[a] \in {"idle", "done"}

\* What the comment on partial fills says, "only MARKET the remainder": no more
\* than the signal's quantity is bought.
OnlyTheRemainder == bought <= Quantity
================================================================================
