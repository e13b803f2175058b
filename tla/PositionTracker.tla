---------------------------- MODULE PositionTracker ----------------------------
(***************************************************************************)
(* LocalPosition: the record of one position's fills, kept so that profit  *)
(* and loss never depend on the exchange's numbers.  Its net quantity      *)
(* decides when a position counts as fully closed.                         *)
(*                                                                         *)
(* A fill is a quantity; fees and prices are left out.  Every fill of one  *)
(* entry order carries the same order id, so the pair (order_id, quantity) *)
(* that the entry side uses to recognise a duplicate is the quantity.      *)
(***************************************************************************)
EXTENDS Naturals

NoTracker == [life |-> 0]

Side == {"LONG", "SHORT"}

\* life: the position the tracker was made for.
NewTracker(n, side) == [life |-> n, side |-> side, entered |-> 0, sizes |-> {}, exited |-> 0]

Tracker(Lives, Qty) ==
    [life : Lives, side : Side, entered : Nat, sizes : SUBSET Qty, exited : Nat]

\* Mutant: any exit fill counts for the whole position.
QuantityByCount(t) == IF t.exited > 0 THEN 0 ELSE t.entered

\* The net quantity; _recalculate_net cuts it off at zero.
Quantity(t) == IF t.entered > t.exited THEN t.entered - t.exited ELSE 0

\* Mutant: any further fill of the entry order is a duplicate, its size aside.
AddEntryFillById(t, qty) ==
    IF t.sizes # {} THEN t
    ELSE [t EXCEPT !.entered = @ + qty, !.sizes = {qty}]

\* add_entry_fill: a fill of a size already recorded for the order is a duplicate.
AddEntryFill(t, qty) ==
    IF qty \in t.sizes THEN t
    ELSE [t EXCEPT !.entered = @ + qty, !.sizes = @ \union {qty}]

\* add_exit_fill: refused only once the position has been exited in full.
FullyExited(t) == t.entered > 0 /\ t.exited >= t.entered

AddExitFill(t, qty) ==
    IF FullyExited(t) THEN t ELSE [t EXCEPT !.exited = @ + qty]
================================================================================
