---------------------------- MODULE ExecutionWorker ----------------------------
(***************************************************************************)
(* ExecutionWorker: the background task that takes exit requests from the  *)
(* queue one at a time, calls the close callback with retries, falls back  *)
(* to one emergency close for a stop loss, and drains the queue on stop(). *)
(*                                                                         *)
(* The close callbacks of LiveTradingService are seen here only through    *)
(* what a call can do to the worker: report success, report failure, or    *)
(* raise.                                                                  *)
(***************************************************************************)
EXTENDS PriorityExecutionQueue

CONSTANT MaxRetries     \* MAX_RETRIES

ASSUME MaxRetriesAssumption == MaxRetries \in Nat \ {0}

NoRequest == [id |-> 0]

VARIABLES
    running,    \* _running
    task,       \* where the coroutine _run stands
    current,    \* the request taken from the queue and not yet finished
    attempt,    \* the attempt under way, 0 when none is
    calls,      \* how often the close callback was called for each request
    fate,       \* what has become of each request
    stopper,    \* where the coroutine stop stands
    timedOut    \* whether draining gave up after SHUTDOWN_TIMEOUT

workerVars == <<running, task, current, attempt, calls, fate>>
stopVars == <<stopper, timedOut>>
vars == <<queueVars, workerVars, stopVars>>

\* "waiting": in wait_for(dequeue); "handed": the inner task of wait_for has
\* taken the request, _run has not resumed yet; "executing", "backoff",
\* "emergency": inside _process_request; "ended": the loop was left.
TaskState == {"none", "waiting", "handed", "executing", "backoff", "emergency", "ended"}
Fate == {"none", "accepted", "started", "done", "failed", "abandoned"}
StopperState == {"idle", "draining", "cancelling", "stopped"}

TypeOK ==
    /\ QueueTypeOK
    /\ running \in BOOLEAN
    /\ task \in TaskState
    /\ current \in Request \union {NoRequest}
    /\ attempt \in 0 .. MaxRetries
    /\ calls \in [Ids -> 0 .. MaxRetries + 1]
    /\ fate \in [Ids -> Fate]
    /\ stopper \in StopperState
    /\ timedOut \in BOOLEAN

Init ==
    /\ QueueInit
    /\ running = FALSE
    /\ task = "none"
    /\ current = NoRequest
    /\ attempt = 0
    /\ calls = [i \in Ids |-> 0]
    /\ fate = [i \in Ids |-> "none"]
    /\ stopper = "idle"
    /\ timedOut = FALSE

--------------------------------------------------------------------------------
\* The position monitor asks for an exit.
Submit(s, t) ==
    /\ QueueExecution(s, t)
    /\ fate' = [fate EXCEPT ![nextId] = "accepted"]
    /\ UNCHANGED <<running, task, current, attempt, calls, stopVars>>

\* start: LiveTradingService starts the worker of a fresh queue once.
Start ==
    /\ task = "none"
    /\ stopper = "idle"
    /\ running' = TRUE
    /\ task' = "waiting"
    /\ UNCHANGED <<queueVars, current, attempt, calls, fate, stopVars>>

\* Mutant: "while True".
LoopForever == "waiting"

\* The condition of the loop of _run.
LoopTop == IF running \/ heap # {} THEN "waiting" ELSE "ended"

\* Mutant: the loop is left when wait_for gives up.
DequeueTimeoutEnds ==
    /\ task = "waiting"
    /\ task' = "ended"
    /\ UNCHANGED <<queueVars, running, current, attempt, calls, fate, stopVars>>

\* wait_for gave up after a second.
DequeueTimeout ==
    /\ task = "waiting"
    /\ task' = LoopTop
    /\ UNCHANGED <<queueVars, running, current, attempt, calls, fate, stopVars>>

Take ==
    /\ task = "waiting"
    /\ \E r \in heap : Dequeue(r) /\ current' = r
    /\ task' = "handed"
    /\ UNCHANGED <<running, attempt, calls, fate, stopVars>>

Call(i) == calls' = [calls EXCEPT ![i] = @ + 1]

\* _run resumes with the request and calls the callback for the first time.
Begin ==
    /\ task = "handed"
    /\ task' = "executing"
    /\ attempt' = 1
    /\ Call(current.id)
    /\ fate' = [fate EXCEPT ![current.id] = "started"]
    /\ UNCHANGED <<queueVars, running, current, stopVars>>

\* _process_request returns and the loop looks at its condition.
Finish(f) ==
    /\ fate' = [fate EXCEPT ![current.id] = f]
    /\ current' = NoRequest
    /\ attempt' = 0
    /\ task' = LoopTop
    /\ UNCHANGED <<queueVars, running, calls, stopVars>>

\* Mutant: the bound of the retry loop is off by one.
TryAgainOnceMore ==
    /\ attempt <= MaxRetries
    /\ attempt' = attempt + 1
    /\ Call(current.id)
    /\ task' = "executing"
    /\ UNCHANGED <<queueVars, running, current, fate, stopVars>>

\* The next round of "for attempt in range(MAX_RETRIES)".
TryAgain ==
    /\ attempt < MaxRetries
    /\ attempt' = attempt + 1
    /\ Call(current.id)
    /\ task' = "executing"
    /\ UNCHANGED <<queueVars, running, current, fate, stopVars>>

\* Mutant: a request that is not a stop loss is dropped at its first failure.
GiveUpEarly ==
    \/ /\ attempt = MaxRetries
       /\ IsStopLoss(current)
       /\ task' = "emergency"
       /\ Call(current.id)
       /\ UNCHANGED <<queueVars, running, current, attempt, fate, stopVars>>
    \/ /\ ~IsStopLoss(current)
       /\ Finish("failed")

\* All attempts failed: a stop loss gets one emergency close, the rest is dropped.
GiveUp ==
    /\ attempt = MaxRetries
    /\ \/ /\ IsStopLoss(current)
          /\ task' = "emergency"
          /\ Call(current.id)
          /\ UNCHANGED <<queueVars, running, current, attempt, fate, stopVars>>
       \/ /\ ~IsStopLoss(current)
          /\ Finish("failed")

Succeed == task = "executing" /\ Finish("done")

\* The callback returned a failure: the loop goes on without a pause.
ReportFailure == task = "executing" /\ (TryAgain \/ GiveUp)

\* Mutant: what the callback raised escapes _process_request.
RaiseUncaught ==
    /\ task = "executing"
    /\ current' = NoRequest
    /\ attempt' = 0
    /\ task' = LoopTop
    /\ UNCHANGED <<queueVars, running, calls, fate, stopVars>>

\* The callback raised: a stop loss is retried at once, the rest backs off
\* (also after the last attempt).
Raise ==
    /\ task = "executing"
    /\ \/ /\ IsStopLoss(current)
          /\ TryAgain \/ GiveUp
       \/ /\ ~IsStopLoss(current)
          /\ task' = "backoff"
          /\ UNCHANGED <<queueVars, running, current, attempt, calls, fate, stopVars>>

BackoffOver == task = "backoff" /\ (TryAgain \/ GiveUp)

\* The emergency close succeeded, or failed and needs manual intervention.
EmergencyOver ==
    /\ task = "emergency"
    /\ \E f \in {"done", "failed"} : Finish(f)

--------------------------------------------------------------------------------
\* stop, first part: no new requests, then wait for the queue to empty.
Stop ==
    /\ stopper = "idle"
    /\ task # "none"
    /\ stopper' = "draining"
    /\ running' = FALSE
    /\ StopAccepting
    /\ UNCHANGED <<task, current, attempt, calls, fate, timedOut>>

\* Mutant: the cancellation is never swallowed, a request handed over is dropped.
CancelDropsHanded ==
    \/ /\ task \in {"waiting", "handed"}
       /\ task' = "ended"
       /\ current' = NoRequest
       /\ UNCHANGED <<attempt, fate>>
    \/ /\ task \in {"executing", "backoff", "emergency"}
       /\ task' = "ended"
       /\ fate' = [fate EXCEPT ![current.id] = "abandoned"]
       /\ current' = NoRequest
       /\ attempt' = 0
    \/ /\ task \in {"none", "ended"}
       /\ UNCHANGED <<task, current, attempt, fate>>

\* Task.cancel as the coroutine feels it at its suspension.  Python 3.11's
\* wait_for swallows a cancellation that meets a finished inner task and returns
\* the request; inside _process_request nothing catches a CancelledError.
Cancel ==
    \/ /\ task = "waiting"
       /\ task' = "ended"
       /\ UNCHANGED <<current, attempt, fate>>
    \/ /\ task \in {"executing", "backoff", "emergency"}
       /\ task' = "ended"
       /\ fate' = [fate EXCEPT ![current.id] = "abandoned"]
       /\ current' = NoRequest
       /\ attempt' = 0
    \/ /\ task \in {"none", "handed", "ended"}
       /\ UNCHANGED <<task, current, attempt, fate>>

\* stop, second part: the queue is empty or draining took too long.
DrainOver ==
    /\ stopper = "draining"
    /\ timedOut' = (heap # {})
    /\ stopper' = "cancelling"
    /\ Cancel
    /\ UNCHANGED <<queueVars, running, calls>>

Stopped ==
    /\ stopper = "cancelling"
    /\ task = "ended"
    /\ stopper' = "stopped"
    /\ UNCHANGED <<queueVars, workerVars, timedOut>>

--------------------------------------------------------------------------------
Worker ==
    \/ DequeueTimeout \/ Take \/ Begin
    \/ Succeed \/ ReportFailure \/ Raise \/ BackoffOver \/ EmergencyOver

Next ==
    \/ \E s \in Symbols, t \in Types : Submit(s, t)
    \/ Start \/ Worker
    \/ Stop \/ DrainOver \/ Stopped

\* The event loop runs every ready coroutine, and every callback ends: the REST
\* client gives up after 30 seconds.  Nothing obliges anyone to call stop.
Fairness == WF_vars(Start) /\ WF_vars(Worker) /\ WF_vars(DrainOver) /\ WF_vars(Stopped)

Spec == Init /\ [][Next]_vars /\ Fairness

--------------------------------------------------------------------------------
\* What each request's fate says agrees with where the request is: nothing that
\* was accepted is lost between the heap, the two indexes, the hand-over through
\* wait_for, the retry loop and shutdown; and a request is abandoned only by the
\* cancellation that stop sends.
NothingLost ==
    /\ \A i \in Ids :
         /\ fate[i] = "none" <=> i >= nextId
         /\ fate[i] = "accepted" <=> (\E r \in heap : r.id = i)
                                      \/ (task = "handed" /\ current.id = i)
         /\ fate[i] = "started" <=> /\ task \in {"executing", "backoff", "emergency"}
                                     /\ current.id = i
         /\ fate[i] = "abandoned" => stopper \in {"cancelling", "stopped"}
    /\ task \in {"none", "waiting", "ended"} <=> current = NoRequest

\* MAX_RETRIES bounds the close orders one request may send, and only a stop
\* loss is granted the emergency close on top; a request that ends as failed has
\* used them all, so it is never dropped early.
RetryBound ==
    \A i \in Ids :
        /\ calls[i] <= MaxRetries + 1
        /\ calls[i] > MaxRetries /\ task # "emergency" => fate[i] # "started"
        /\ fate[i] = "failed" => calls[i] >= MaxRetries

\* When draining did not time out, stop returns only after every accepted
\* request has at least been begun: none is left in the queue or lost in the
\* hand-over between the queue and the worker.
DrainedOnStop ==
    stopper = "stopped" /\ ~timedOut =>
        /\ heap = {}
        /\ \A i \in Ids : fate[i] # "none" => calls[i] >= 1

\* A request accepted by a queue that is not being shut down is eventually
\* resolved, whatever else is queued before or after it.
AcceptedIsResolved ==
    \A i \in Ids :
        fate[i] = "accepted" ~> fate[i] \in {"done", "failed"} \/ stopper # "idle"

\* stop always returns.
StopReturns == stopper = "draining" ~> stopper = "stopped"

\* The worker keeps the promise of the abstract exit service.
Service == INSTANCE ExitService WITH
    waiting <- heap,
    active <- current,
    open <- accepting,
    result <- [i \in Ids |-> IF fate[i] \in {"done", "failed", "abandoned"}
                             THEN fate[i] ELSE "open"]

ServiceSpec == Service!Spec
================================================================================
