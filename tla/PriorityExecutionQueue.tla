------------------------ MODULE PriorityExecutionQueue ------------------------
(***************************************************************************)
(* PriorityExecutionQueue: the asyncio priority queue between the position *)
(* monitor (producer) and the execution worker (the only consumer), with   *)
(* the two indexes kept beside the heap to refuse duplicates.              *)
(*                                                                         *)
(* Every operation is one action.  The asyncio.Lock of enqueue and dequeue *)
(* is never held across a suspension (put is called only on a queue found  *)
(* not full, and get returns an item without suspending once there is      *)
(* one), so on the event loop neither operation can be interleaved with    *)
(* another.                                                                *)
(***************************************************************************)
EXTENDS ExecutionRequests, FiniteSets

CONSTANT MaxSize        \* asyncio.PriorityQueue(maxsize=max_size)

ASSUME MaxSizeAssumption == MaxSize \in Nat \ {0}

VARIABLES
    heap,               \* _queue: the requests waiting
    pendingSymbols,     \* _pending_symbols
    pendingByType,      \* _pending_by_type: the keys "SYMBOL:type"
    accepting,          \* _accepting_requests
    nextId              \* the next request to be created

queueVars == <<heap, pendingSymbols, pendingByType, accepting, nextId>>

QueueTypeOK ==
    /\ heap \subseteq Request
    /\ pendingSymbols \subseteq Symbols
    /\ pendingByType \subseteq Symbols \X Types
    /\ accepting \in BOOLEAN
    /\ nextId \in Nat

QueueInit ==
    /\ heap = {}
    /\ pendingSymbols = {}
    /\ pendingByType = {}
    /\ accepting = TRUE
    /\ nextId = 1

IsSymbolPending(s) == s \in pendingSymbols
IsFull == Cardinality(heap) >= MaxSize

--------------------------------------------------------------------------------
\* Mutant: a request is refused by its key only, as if the caller did not ask
\* is_symbol_pending first.
QueueExecutionByKey(s, t) ==
    LET r == [id |-> nextId, symbol |-> s, type |-> t] IN
    /\ nextId <= MaxRequests
    /\ accepting
    /\ Key(r) \notin pendingByType
    /\ ~IsFull
    /\ heap' = heap \union {r}
    /\ pendingSymbols' = pendingSymbols \union {s}
    /\ pendingByType' = pendingByType \union {Key(r)}
    /\ nextId' = nextId + 1
    /\ UNCHANGED accepting

\* _queue_execution creates a request and enqueue files it.  What is refused
\* (symbol already pending, shutting down, duplicate key, full) leaves no trace.
QueueExecution(s, t) ==
    LET r == [id |-> nextId, symbol |-> s, type |-> t] IN
    /\ nextId <= MaxRequests
    /\ ~IsSymbolPending(s)
    /\ accepting
    /\ Key(r) \notin pendingByType
    /\ ~IsFull
    /\ heap' = heap \union {r}
    /\ pendingSymbols' = pendingSymbols \union {s}
    /\ pendingByType' = pendingByType \union {Key(r)}
    /\ nextId' = nextId + 1
    /\ UNCHANGED accepting

\* dequeue: the most urgent request leaves the heap and both indexes.
Dequeue(r) ==
    /\ r \in Heads(heap)
    /\ heap' = heap \ {r}
    /\ pendingSymbols' = pendingSymbols \ {r.symbol}
    /\ pendingByType' = pendingByType \ {Key(r)}
    /\ UNCHANGED <<accepting, nextId>>

StopAccepting ==
    /\ accepting' = FALSE
    /\ UNCHANGED <<heap, pendingSymbols, pendingByType, nextId>>

--------------------------------------------------------------------------------
\* The indexes say exactly what waits in the heap, so a symbol is refused while
\* one of its requests waits and accepted again as soon as that one is taken.
\* It holds only because no symbol has two requests waiting: dequeue drops the
\* symbol from a set, whatever else of that symbol is still queued.
TrackingExact ==
    /\ pendingSymbols = {r.symbol : r \in heap}
    /\ pendingByType = {Key(r) : r \in heap}
    /\ \A r, q \in heap : r.symbol = q.symbol => r = q
================================================================================
