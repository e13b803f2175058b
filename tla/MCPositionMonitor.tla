--------------------------- MODULE MCPositionMonitor ---------------------------
(* A small instance of PositionMonitor for TLC. *)
EXTENDS PositionMonitor
================================================================================
