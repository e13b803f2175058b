---------------------------- MODULE MCExitPipeline ----------------------------
(* Small instances of ExitPipeline for TLC. *)
EXTENDS ExitPipeline

OneLot == <<1>>
UnequalFills == <<1, 2>>
================================================================================
