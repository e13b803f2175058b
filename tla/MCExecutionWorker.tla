--------------------------- MODULE MCExecutionWorker ---------------------------
(* Small instances of ExecutionWorker for TLC. *)
EXTENDS ExecutionWorker
================================================================================
