------------------------------ MODULE ExitService ------------------------------
(***************************************************************************)
(* What the execution queue and its worker promise the position monitor:   *)
(* exit requests are carried out one at a time, the most urgent first and  *)
(* among equals the oldest; each is resolved at most once; and a request   *)
(* is given up unresolved only after the service has closed.               *)
(***************************************************************************)
EXTENDS ExecutionRequests

VARIABLES waiting,      \* accepted requests not yet taken up
          active,       \* the request being carried out
          open,         \* whether the service accepts requests
          result        \* how each request ended

vars == <<waiting, active, open, result>>

NoRequest == [id |-> 0]
Resolution == {"done", "failed", "abandoned"}

Known(i) == active.id = i \/ result[i] # "open" \/ \E r \in waiting : r.id = i

Init ==
    /\ waiting = {}
    /\ active = NoRequest
    /\ open = TRUE
    /\ result = [i \in Ids |-> "open"]

Accept(r) ==
    /\ open
    /\ ~Known(r.id)
    /\ \A q \in waiting : q.symbol # r.symbol
    /\ waiting' = waiting \union {r}
    /\ UNCHANGED <<active, open, result>>

\* r goes before q.
Ahead(r, q) ==
    IF r.type = "stop_loss" THEN q.type # "stop_loss" \/ r.id < q.id
    ELSE q.type # "stop_loss" /\ r.id < q.id

TakeUp(r) ==
    /\ active = NoRequest
    /\ \A q \in waiting \ {r} : Ahead(r, q)
    /\ active' = r
    /\ waiting' = waiting \ {r}
    /\ UNCHANGED <<open, result>>

Resolve(f) ==
    /\ active # NoRequest
    /\ f = "abandoned" => ~open
    /\ result' = [result EXCEPT ![active.id] = f]
    /\ active' = NoRequest
    /\ UNCHANGED <<waiting, open>>

Close ==
    /\ open' = FALSE
    /\ UNCHANGED <<waiting, active, result>>

Next ==
    \/ \E r \in Request : Accept(r)
    \/ \E r \in waiting : TakeUp(r)
    \/ \E f \in Resolution : Resolve(f)
    \/ Close

Spec == Init /\ [][Next]_vars
================================================================================
