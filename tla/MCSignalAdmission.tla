--------------------------- MODULE MCSignalAdmission ---------------------------
(* A small instance of SignalAdmission for TLC. *)
EXTENDS SignalAdmission, TLC

CONSTANTS a, b, c

Three == {a, b, c}
Alike == Permutations(Symbols)
================================================================================
