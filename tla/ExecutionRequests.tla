--------------------------- MODULE ExecutionRequests ---------------------------
(***************************************************************************)
(* The data the execution queue orders: exit requests, their type, their   *)
(* priority and the order in which a PriorityQueue hands them out.  From   *)
(* src/backend/src/domain/entities/execution_request.py.                   *)
(*                                                                         *)
(* A request is identified by a number.  Requests are numbered in the      *)
(* order of their created_at, which PositionMonitorService._queue_execution *)
(* stamps in the same event-loop step in which it enqueues.                *)
(***************************************************************************)
EXTENDS Naturals

CONSTANTS Symbols,      \* trading pairs, e.g. BTCUSDT
          Types,        \* the execution types the callers use
          MaxRequests   \* bound: how many requests are ever accepted

\* ENTRY and CLOSE_POSITION exist in the enumeration; no caller enqueues them.
ExecutionType == {"stop_loss", "take_profit_partial", "take_profit_full"}

ASSUME TypesAssumption == Types \subseteq ExecutionType
ASSUME MaxRequestsAssumption == MaxRequests \in Nat

Ids == 1 .. MaxRequests

Request == [id : Ids, symbol : Symbols, type : Types]

\* Lower is more urgent.
Priority(r) == IF r.type = "stop_loss" THEN 0 ELSE 1

IsStopLoss(r) == Priority(r) = 0

\* Mutant: among equals the younger one comes first.
BeforeYoungest(r, q) ==
    \/ Priority(r) < Priority(q)
    \/ Priority(r) = Priority(q) /\ r.id > q.id

\* ExecutionRequest.__lt__: urgency first, then age.
Before(r, q) ==
    \/ Priority(r) < Priority(q)
    \/ Priority(r) = Priority(q) /\ r.id < q.id

\* The root of the heap: the requests that PriorityQueue.get may return.
Heads(Q) == {r \in Q : \A q \in Q \ {r} : Before(r, q)}

Key(r) == <<r.symbol, r.type>>
================================================================================
