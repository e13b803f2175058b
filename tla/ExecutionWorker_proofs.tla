------------------------- MODULE ExecutionWorker_proofs -------------------------
(***************************************************************************)
(* Proofs about ExecutionWorker, for every set of symbols and every value  *)
(* of MaxRequests, MaxSize and MaxRetries.                                 *)
(***************************************************************************)
EXTENDS ExecutionWorker, TLAPS

\* Requests are numbered by acceptance, so no two that are known share a number.
Numbered ==
    /\ nextId >= 1
    /\ \A r \in heap : r.id < nextId /\ r.id # current.id
    /\ \A r, q \in heap : r.id = q.id => r = q
    /\ current.id < nextId

\* How the calls made for a request follow from where it stands.
Counted ==
    /\ task \in {"executing", "backoff"} =>
         attempt >= 1 /\ calls[current.id] = attempt
    /\ task = "emergency" =>
         /\ attempt = MaxRetries
         /\ calls[current.id] = MaxRetries + 1
    /\ task \notin {"executing", "backoff", "emergency"} => attempt = 0
    /\ \A i \in Ids :
         /\ fate[i] \in {"none", "accepted"} => calls[i] = 0
         /\ fate[i] \in {"started", "done", "failed", "abandoned"} => calls[i] >= 1
         /\ fate[i] = "failed" => calls[i] >= MaxRetries

\* What stop has reached.
Stopping ==
    /\ stopper # "idle" => ~accepting
    /\ stopper = "stopped" => task = "ended"
    /\ stopper \in {"cancelling", "stopped"} /\ ~timedOut => heap = {}

IInv ==
    /\ TypeOK
    /\ TrackingExact
    /\ NothingLost
    /\ Numbered
    /\ Counted
    /\ Stopping

LEMMA InitInv == Init => IInv
<1> SUFFICES ASSUME Init PROVE IInv
  OBVIOUS
<1> USE DEF Init, QueueInit
<1>1. TypeOK
  <2>1. QueueTypeOK
    BY DEF QueueTypeOK
  <2>2. calls \in [Ids -> 0 .. MaxRetries + 1] /\ attempt \in 0 .. MaxRetries
    BY MaxRetriesAssumption
  <2> QED
    BY <2>1, <2>2 DEF TypeOK, TaskState, Fate, StopperState
<1>2. TrackingExact
  BY DEF TrackingExact
<1>3. NothingLost
  BY DEF NothingLost, Ids
<1>4. Numbered /\ Counted /\ Stopping
  BY DEF Numbered, Counted, Stopping, NoRequest, Ids
<1> QED
  BY <1>1, <1>2, <1>3, <1>4 DEF IInv

LEMMA SubmitInv ==
  ASSUME IInv, NEW s \in Symbols, NEW t \in Types, Submit(s, t)
  PROVE  IInv'
<1> DEFINE r == [id |-> nextId, symbol |-> s, type |-> t]
<1> USE DEF IInv, Submit, QueueExecution, workerVars, stopVars
<1>1. r \in Request /\ heap' = heap \union {r}
  BY MaxRequestsAssumption DEF TypeOK, QueueTypeOK, Numbered, Request, Ids
<1>2. TypeOK'
  <2>1. QueueTypeOK'
    <3>1. pendingByType' \subseteq Symbols \X Types
      BY <1>1 DEF TypeOK, QueueTypeOK, Key
    <3>2. /\ heap' \subseteq Request
          /\ pendingSymbols' \subseteq Symbols
          /\ accepting' \in BOOLEAN
          /\ nextId' \in Nat
      BY <1>1 DEF TypeOK, QueueTypeOK
    <3> QED
      BY <3>1, <3>2 DEF QueueTypeOK
  <2>2. fate' \in [Ids -> Fate]
    BY DEF TypeOK, Fate
  <2> QED
    BY <2>1, <2>2 DEF TypeOK
<1>3. TrackingExact'
  BY <1>1 DEF TrackingExact, IsSymbolPending, Key
<1>4. NothingLost'
  BY <1>1 DEF NothingLost, Numbered, TypeOK, QueueTypeOK, Request, Ids
<1>5. Numbered'
  BY <1>1 DEF Numbered, TypeOK, QueueTypeOK, Request, Ids, NoRequest
<1>6. Counted'
  BY <1>1 DEF Counted, NothingLost, Numbered, TypeOK, QueueTypeOK, Request, Ids
<1>7. Stopping'
  BY DEF Stopping
<1> QED
  BY <1>2, <1>3, <1>4, <1>5, <1>6, <1>7

LEMMA TakeInv ==
  ASSUME IInv, Take
  PROVE  IInv'
<1> USE DEF IInv, Take, Dequeue, stopVars
<1>1. PICK r \in heap : Dequeue(r) /\ current' = r
  OBVIOUS
<1>2. TypeOK'
  BY <1>1 DEF TypeOK, QueueTypeOK, TaskState
<1>3. TrackingExact'
  BY <1>1 DEF TrackingExact, Key
<1>4. NothingLost'
  BY <1>1 DEF NothingLost, Numbered, TypeOK, QueueTypeOK, Request, Ids, NoRequest
<1>5. Numbered'
  BY <1>1 DEF Numbered, TypeOK, QueueTypeOK, Request, Ids
<1>6. Counted' /\ Stopping'
  BY <1>1 DEF Counted, Stopping
<1> QED
  BY <1>2, <1>3, <1>4, <1>5, <1>6

LEMMA BeginInv ==
  ASSUME IInv, Begin
  PROVE  IInv'
<1> USE DEF IInv, Begin, Call, queueVars, stopVars
<1>1. current \in Request /\ current.id \in Ids /\ fate[current.id] = "accepted"
  BY DEF NothingLost, TypeOK, Request, NoRequest
<1>2. TypeOK'
  BY <1>1, MaxRetriesAssumption
  DEF TypeOK, QueueTypeOK, Counted, TaskState, Fate
<1>3. TrackingExact' /\ Numbered' /\ Stopping'
  BY DEF TrackingExact, Numbered, Stopping
<1>4. NothingLost'
  BY <1>1 DEF NothingLost, Numbered, TypeOK, Ids
<1>5. Counted'
  BY <1>1 DEF Counted, TypeOK, Ids
<1> QED
  BY <1>2, <1>3, <1>4, <1>5

\* The request under way while the worker is inside _process_request.
LEMMA UnderWay ==
  ASSUME IInv, task \in {"executing", "backoff", "emergency"}
  PROVE  /\ current \in Request
         /\ current.id \in Ids
         /\ fate[current.id] = "started"
         /\ attempt \in 1 .. MaxRetries
         /\ calls[current.id] >= attempt
BY MaxRetriesAssumption DEF IInv, NothingLost, TypeOK, Request, NoRequest, Counted

LEMMA TryAgainInv ==
  ASSUME IInv, task \in {"executing", "backoff"}, TryAgain
  PROVE  IInv'
<1> USE DEF IInv, TryAgain, Call, queueVars, stopVars
<1>1. /\ current \in Request /\ current.id \in Ids
      /\ fate[current.id] = "started" /\ calls[current.id] = attempt
      /\ attempt \in 1 .. MaxRetries
  BY UnderWay DEF Counted
<1>2. TypeOK'
  BY <1>1, MaxRetriesAssumption DEF TypeOK, QueueTypeOK, TaskState
<1>3. TrackingExact' /\ Numbered' /\ Stopping'
  BY DEF TrackingExact, Numbered, Stopping
<1>4. NothingLost'
  BY <1>1 DEF NothingLost
<1>5. Counted'
  BY <1>1 DEF Counted, TypeOK
<1> QED
  BY <1>2, <1>3, <1>4, <1>5

LEMMA FinishInv ==
  ASSUME IInv, task \in {"executing", "backoff", "emergency"},
         NEW f \in {"done", "failed"},
         f = "failed" => calls[current.id] >= MaxRetries,
         Finish(f)
  PROVE  IInv'
<1> USE DEF IInv, Finish, LoopTop, queueVars, stopVars
<1>1. /\ current \in Request /\ current.id \in Ids
      /\ fate[current.id] = "started" /\ attempt \in 1 .. MaxRetries
      /\ calls[current.id] >= attempt
  BY UnderWay
<1>2. TypeOK'
  <2>1. task' \in TaskState
    BY DEF TaskState
  <2>2. fate' \in [Ids -> Fate]
    BY DEF TypeOK, Fate
  <2>3. attempt' \in 0 .. MaxRetries /\ current' = NoRequest
    BY MaxRetriesAssumption
  <2> QED
    BY <2>1, <2>2, <2>3 DEF TypeOK, QueueTypeOK
<1>3. TrackingExact'
  BY DEF TrackingExact
<1>4. Numbered'
  BY DEF Numbered, NoRequest, TypeOK, QueueTypeOK, Request, Ids
<1>5. NothingLost'
  BY <1>1 DEF NothingLost, Numbered, TypeOK, NoRequest
<1>6. Counted'
  BY <1>1 DEF Counted, TypeOK, Ids
<1>7. Stopping'
  BY DEF Stopping
<1> QED
  BY <1>2, <1>3, <1>4, <1>5, <1>6, <1>7

LEMMA GiveUpInv ==
  ASSUME IInv, task \in {"executing", "backoff"}, GiveUp
  PROVE  IInv'
<1>1. /\ current \in Request /\ current.id \in Ids
      /\ fate[current.id] = "started" /\ calls[current.id] = MaxRetries
      /\ attempt = MaxRetries
  BY UnderWay DEF GiveUp, Counted, IInv
<1>2. CASE Finish("failed")
  BY <1>1, <1>2, FinishInv, MaxRetriesAssumption
<1>3. CASE task' = "emergency" /\ Call(current.id)
            /\ UNCHANGED <<queueVars, running, current, attempt, fate, stopVars>>
  <2> USE <1>3 DEF IInv, Call, queueVars, stopVars
  <2>1. TypeOK'
    BY <1>1, MaxRetriesAssumption DEF TypeOK, QueueTypeOK, TaskState
  <2>2. TrackingExact' /\ Numbered' /\ Stopping'
    BY DEF TrackingExact, Numbered, Stopping
  <2>3. NothingLost'
    BY <1>1 DEF NothingLost
  <2>4. Counted'
    BY <1>1, MaxRetriesAssumption DEF Counted, TypeOK
  <2> QED
    BY <2>1, <2>2, <2>3, <2>4
<1> QED
  BY <1>2, <1>3 DEF GiveUp

LEMMA DrainOverInv ==
  ASSUME IInv, DrainOver
  PROVE  IInv'
<1> USE DEF IInv, DrainOver, queueVars
<1>1. TypeOK'
  <2>1. task' \in TaskState
    BY DEF Cancel, TypeOK, TaskState
  <2>2. fate' \in [Ids -> Fate]
    BY DEF Cancel, TypeOK, Fate
  <2>3. current' \in Request \union {NoRequest} /\ attempt' \in 0 .. MaxRetries
    BY MaxRetriesAssumption DEF Cancel, TypeOK
  <2>4. stopper' \in StopperState /\ timedOut' \in BOOLEAN
    BY DEF StopperState
  <2> QED
    BY <2>1, <2>2, <2>3, <2>4 DEF TypeOK, QueueTypeOK
<1>2. TrackingExact'
  BY DEF TrackingExact
<1>3. Numbered'
  BY DEF Cancel, Numbered, NoRequest, TypeOK, QueueTypeOK, Request, Ids
<1>4. Stopping'
  BY DEF Stopping
<1>5. NothingLost' /\ Counted'
  <2>1. CASE task \in {"waiting", "none", "handed", "ended"}
    BY <2>1 DEF Cancel, NothingLost, Counted
  <2>2. CASE task \in {"executing", "backoff", "emergency"}
    <3>1. /\ current \in Request /\ current.id \in Ids
          /\ fate[current.id] = "started" /\ attempt \in 1 .. MaxRetries
      BY <2>2, UnderWay
    <3> QED
      BY <2>2, <3>1 DEF Cancel, NothingLost, Counted, Numbered, TypeOK, NoRequest
  <2> QED
    BY <2>1, <2>2 DEF TypeOK, TaskState
<1> QED
  BY <1>1, <1>2, <1>3, <1>4, <1>5

LEMMA WorkerInv ==
  ASSUME IInv, Worker
  PROVE  IInv'
<1>1. CASE DequeueTimeout
  <2> USE <1>1 DEF DequeueTimeout, LoopTop, IInv, queueVars, stopVars
  <2>1. TypeOK'
    BY DEF TypeOK, QueueTypeOK, TaskState
  <2>2. TrackingExact' /\ Numbered' /\ Stopping'
    BY DEF TrackingExact, Numbered, Stopping
  <2>3. NothingLost' /\ Counted'
    BY DEF NothingLost, Counted
  <2> QED
    BY <2>1, <2>2, <2>3
<1>2. CASE Take
  BY <1>2, TakeInv
<1>3. CASE Begin
  BY <1>3, BeginInv
<1>4. CASE Succeed
  BY <1>4, FinishInv DEF Succeed
<1>5. CASE ReportFailure
  BY <1>5, TryAgainInv, GiveUpInv DEF ReportFailure
<1>6. CASE Raise
  <2>1. CASE TryAgain \/ GiveUp
    BY <1>6, <2>1, TryAgainInv, GiveUpInv DEF Raise
  <2>2. CASE task' = "backoff" /\ UNCHANGED <<queueVars, running, current, attempt, calls, fate, stopVars>>
    <3> USE <1>6, <2>2 DEF Raise, IInv, queueVars, stopVars
    <3>1. TypeOK'
      BY DEF TypeOK, QueueTypeOK, TaskState
    <3>2. TrackingExact' /\ Numbered' /\ Stopping'
      BY DEF TrackingExact, Numbered, Stopping
    <3>3. NothingLost' /\ Counted'
      BY DEF NothingLost, Counted
    <3> QED
      BY <3>1, <3>2, <3>3
  <2> QED
    BY <1>6, <2>1, <2>2 DEF Raise
<1>7. CASE BackoffOver
  BY <1>7, TryAgainInv, GiveUpInv DEF BackoffOver
<1>8. CASE EmergencyOver
  <2>1. calls[current.id] >= MaxRetries
    BY <1>8, MaxRetriesAssumption DEF EmergencyOver, IInv, Counted
  <2> QED
    BY <1>8, <2>1, FinishInv DEF EmergencyOver
<1> QED
  BY <1>1, <1>2, <1>3, <1>4, <1>5, <1>6, <1>7, <1>8 DEF Worker

LEMMA ControlInv ==
  ASSUME IInv, Start \/ Stop \/ Stopped \/ UNCHANGED vars
  PROVE  IInv'
<1> USE DEF IInv, Start, Stop, StopAccepting, Stopped,
            vars, queueVars, workerVars, stopVars
<1>1. TypeOK'
  BY DEF TypeOK, QueueTypeOK, TaskState, StopperState
<1>2. TrackingExact' /\ Numbered'
  BY DEF TrackingExact, Numbered
<1>3. Stopping'
  BY DEF Stopping
<1>4. NothingLost' /\ Counted'
  BY DEF NothingLost, Counted
<1> QED
  BY <1>1, <1>2, <1>3, <1>4

LEMMA StepInv == IInv /\ [Next]_vars => IInv'
BY SubmitInv, WorkerInv, DrainOverInv, ControlInv DEF Next

--------------------------------------------------------------------------------
\* IInv holds in every reachable state: the state has its type, the two indexes
\* agree with the heap, no request is lost, and the calls made for a request
\* follow from where it stands.
THEOREM Inductive == Spec => []IInv
BY InitInv, StepInv, PTL DEF Spec

\* Every variable of the queue and the worker keeps its type.
THEOREM TypeCorrect == Spec => []TypeOK
<1>1. IInv => TypeOK
  BY DEF IInv
<1> QED
  BY Inductive, <1>1, PTL

\* enqueue and dequeue keep _pending_symbols and _pending_by_type equal to what
\* the heap holds, for any number of symbols and requests.
THEOREM IndexesExact == Spec => []TrackingExact
<1>1. IInv => TrackingExact
  BY DEF IInv
<1> QED
  BY Inductive, <1>1, PTL

\* No accepted request disappears, at the hand-over, in the retries or in stop().
THEOREM NoRequestLost == Spec => []NothingLost
<1>1. IInv => NothingLost
  BY DEF IInv
<1> QED
  BY Inductive, <1>1, PTL

\* No request sends more than MAX_RETRIES close orders, one more for a stop
\* loss, and none is given up before it has sent MAX_RETRIES.
THEOREM RetriesBounded == Spec => []RetryBound
<1>1. IInv => RetryBound
  <2> SUFFICES ASSUME IInv, NEW i \in Ids
               PROVE  /\ calls[i] <= MaxRetries + 1
                      /\ calls[i] > MaxRetries /\ task # "emergency" => fate[i] # "started"
                      /\ fate[i] = "failed" => calls[i] >= MaxRetries
    BY DEF RetryBound
  <2>1. calls[i] \in 0 .. MaxRetries + 1
    BY DEF IInv, TypeOK
  <2>2. fate[i] = "started" /\ task # "emergency" => calls[i] <= MaxRetries
    BY MaxRetriesAssumption DEF IInv, NothingLost, Counted, TypeOK
  <2>3. fate[i] = "failed" => calls[i] >= MaxRetries
    BY DEF IInv, Counted
  <2> QED
    BY <2>1, <2>2, <2>3, MaxRetriesAssumption
<1> QED
  BY Inductive, <1>1, PTL

\* stop() that did not time out returns with the queue empty and every accepted
\* request begun.
THEOREM StopDrains == Spec => []DrainedOnStop
<1>1. IInv => DrainedOnStop
  BY MaxRetriesAssumption DEF IInv, DrainedOnStop, Stopping, NothingLost, Counted, TypeOK, Fate
<1> QED
  BY Inductive, <1>1, PTL

--------------------------------------------------------------------------------
\* The outcome of a request as the abstract service sees it.
Outcome == [i \in Ids |-> IF fate[i] \in {"done", "failed", "abandoned"}
                          THEN fate[i] ELSE "open"]

LEMMA ServiceInit == Init => Service!Init
<1> SUFFICES ASSUME Init PROVE Service!Init
  OBVIOUS
<1>1. Outcome = [i \in Ids |-> "open"]
  BY DEF Init, Outcome
<1>2. heap = {} /\ current = Service!NoRequest /\ accepting = TRUE
  BY DEF Init, QueueInit, Service!NoRequest, NoRequest
<1> QED
  BY <1>1, <1>2 DEF Service!Init, Outcome, Service!Ids, Ids

\* A step that moves no request between the queue, the worker and its end.
LEMMA Stutter ==
  ASSUME UNCHANGED <<heap, current, accepting>>, Outcome' = Outcome
  PROVE  UNCHANGED Service!vars
BY DEF Service!vars, Outcome

LEMMA SubmitAccepts ==
  ASSUME IInv, NEW s \in Symbols, NEW t \in Types, Submit(s, t)
  PROVE  Service!Next
<1> DEFINE r == [id |-> nextId, symbol |-> s, type |-> t]
<1> USE DEF IInv, Submit, QueueExecution
<1>1. nextId \in Ids /\ r \in Request
  BY MaxRequestsAssumption DEF TypeOK, QueueTypeOK, Numbered, Request, Ids
<1>2. ~Service!Known(r.id)
  <2>1. fate[nextId] = "none"
    BY <1>1 DEF NothingLost, Ids
  <2>2. current.id # nextId /\ \A q \in heap : q.id # nextId
    BY <1>1 DEF Numbered, TypeOK, QueueTypeOK, Request, Ids, NoRequest
  <2> QED
    BY <1>1, <2>1, <2>2 DEF Service!Known
<1>3. \A q \in heap : q.symbol # r.symbol
  BY DEF TrackingExact, IsSymbolPending
<1>4. Outcome' = Outcome
  BY <1>1 DEF Outcome, TypeOK, NothingLost, Ids
<1>5. Service!Accept(r)
  BY <1>1, <1>2, <1>3, <1>4 DEF Service!Accept, Outcome
<1> QED
  BY <1>1, <1>5 DEF Service!Next, Service!Request, Service!Ids, Request, Ids

LEMMA TakeTakesUp ==
  ASSUME IInv, Take
  PROVE  Service!Next
<1> USE DEF IInv, Take, Dequeue
<1>1. PICK r \in heap : Dequeue(r) /\ current' = r
  OBVIOUS
<1>2. r \in Request /\ heap \subseteq Request
  BY DEF TypeOK, QueueTypeOK
<1>3. \A q \in heap \ {r} : Before(r, q)
  BY <1>1 DEF Heads
<1>4. \A q \in heap \ {r} : Service!Ahead(r, q)
  BY <1>2, <1>3 DEF Before, Priority, Service!Ahead, Request, Ids
<1>5. current = Service!NoRequest
  BY DEF NothingLost, Service!NoRequest, NoRequest
<1>6. Service!TakeUp(r)
  BY <1>1, <1>4, <1>5 DEF Service!TakeUp
<1> QED
  BY <1>1, <1>6 DEF Service!Next

LEMMA FinishResolves ==
  ASSUME IInv, task \in {"executing", "backoff", "emergency"},
         NEW f \in {"done", "failed"}, Finish(f)
  PROVE  Service!Next
<1>1. current \in Request /\ current.id \in Ids
  BY UnderWay
<1>2. current # Service!NoRequest
  BY <1>1 DEF Service!NoRequest, Ids
<1>3. Outcome' = [Outcome EXCEPT ![current.id] = f]
  BY <1>1 DEF Outcome, Finish, IInv, TypeOK
<1>4. Service!Resolve(f)
  BY <1>2, <1>3 DEF Service!Resolve, Finish, queueVars, Outcome,
                    NoRequest, Service!NoRequest
<1> QED
  BY <1>4 DEF Service!Next, Service!Resolution

LEMMA RetryStutters ==
  ASSUME IInv, TryAgain
  PROVE  UNCHANGED Service!vars
BY Stutter DEF TryAgain, queueVars, Outcome

LEMMA GiveUpResolves ==
  ASSUME IInv, task \in {"executing", "backoff"}, GiveUp
  PROVE  Service!Next \/ UNCHANGED Service!vars
<1>1. CASE Finish("failed")
  BY <1>1, FinishResolves
<1>2. CASE UNCHANGED <<queueVars, running, current, attempt, fate, stopVars>>
  BY <1>2, Stutter DEF queueVars, Outcome
<1> QED
  BY <1>1, <1>2 DEF GiveUp

LEMMA WorkerImplements ==
  ASSUME IInv, Worker
  PROVE  Service!Next \/ UNCHANGED Service!vars
<1>1. CASE DequeueTimeout
  BY <1>1, Stutter DEF DequeueTimeout, queueVars, Outcome
<1>2. CASE Take
  BY <1>2, TakeTakesUp
<1>3. CASE Begin
  <2>1. fate[current.id] = "accepted" /\ current.id \in Ids
    BY <1>3 DEF Begin, IInv, NothingLost, TypeOK, Request, NoRequest
  <2>2. Outcome' = Outcome
    BY <1>3, <2>1 DEF Begin, Outcome, IInv, TypeOK
  <2> QED
    BY <1>3, <2>2, Stutter DEF Begin, queueVars
<1>4. CASE Succeed
  BY <1>4, FinishResolves DEF Succeed
<1>5. CASE ReportFailure
  BY <1>5, RetryStutters, GiveUpResolves DEF ReportFailure
<1>6. CASE Raise
  <2>1. CASE TryAgain \/ GiveUp
    BY <1>6, <2>1, RetryStutters, GiveUpResolves DEF Raise
  <2>2. CASE UNCHANGED <<queueVars, running, current, attempt, calls, fate, stopVars>>
    BY <2>2, Stutter DEF queueVars, Outcome
  <2> QED
    BY <1>6, <2>1, <2>2 DEF Raise
<1>7. CASE BackoffOver
  BY <1>7, RetryStutters, GiveUpResolves DEF BackoffOver
<1>8. CASE EmergencyOver
  BY <1>8, FinishResolves DEF EmergencyOver
<1> QED
  BY <1>1, <1>2, <1>3, <1>4, <1>5, <1>6, <1>7, <1>8 DEF Worker

LEMMA DrainOverAbandons ==
  ASSUME IInv, DrainOver
  PROVE  Service!Next \/ UNCHANGED Service!vars
<1>1. CASE task \in {"executing", "backoff", "emergency"}
  <2>1. current \in Request /\ current.id \in Ids /\ current # Service!NoRequest
    BY <1>1, UnderWay DEF Service!NoRequest, Ids
  <2>2. Outcome' = [Outcome EXCEPT ![current.id] = "abandoned"]
    BY <1>1, <2>1 DEF Outcome, DrainOver, Cancel, IInv, TypeOK
  <2>3. ~accepting
    BY DEF IInv, Stopping, DrainOver
  <2>4. Service!Resolve("abandoned")
    BY <1>1, <2>1, <2>2, <2>3
    DEF Service!Resolve, DrainOver, Cancel, queueVars, Outcome,
        NoRequest, Service!NoRequest
  <2> QED
    BY <2>4 DEF Service!Next, Service!Resolution
<1>2. CASE task \notin {"executing", "backoff", "emergency"}
  BY <1>2, Stutter DEF DrainOver, Cancel, queueVars, Outcome
<1> QED
  BY <1>1, <1>2

LEMMA StepImplements ==
  IInv /\ [Next]_vars => [Service!Next]_(Service!vars)
<1> SUFFICES ASSUME IInv, [Next]_vars
             PROVE  Service!Next \/ UNCHANGED Service!vars
  OBVIOUS
<1>1. CASE \E s \in Symbols, t \in Types : Submit(s, t)
  BY <1>1, SubmitAccepts
<1>2. CASE Worker
  BY <1>2, WorkerImplements
<1>3. CASE Start \/ Stopped \/ UNCHANGED vars
  BY <1>3, Stutter
  DEF Start, Stopped, vars, queueVars, workerVars, stopVars, Outcome
<1>4. CASE Stop
  <2>1. Outcome' = Outcome
    BY <1>4 DEF Stop, Outcome
  <2>2. Service!Close
    BY <1>4, <2>1 DEF Stop, StopAccepting, Service!Close, Outcome
  <2> QED
    BY <2>2 DEF Service!Next
<1>5. CASE DrainOver
  BY <1>5, DrainOverAbandons
<1> QED
  BY <1>1, <1>2, <1>3, <1>4, <1>5 DEF Next

\* The queue and its worker implement the abstract exit service: one request at
\* a time, most urgent and oldest first, each resolved at most once, and given
\* up unresolved only after the service has closed.
THEOREM Implements == Spec => ServiceSpec
BY Inductive, ServiceInit, StepImplements, PTL DEF Spec, ServiceSpec, Service!Spec
================================================================================
