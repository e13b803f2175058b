---------------------------- MODULE MCCircuitBreaker ----------------------------
(* The circuit breaker on two symbols and a day of four hours. *)
EXTENDS CircuitBreaker, TLC

CONSTANTS s1, s2
TwoSymbols == {s1, s2}
TwoSides == {"LONG", "SHORT"}
Escalating == {<<2, 1>>, <<3, 2>>}
Flat == {}
TwoBalances == {10, 7}
TwoWindows == {<<1, 2>>, <<3, 1>>}
NoWindows == {}
SymbolSymmetry == Permutations(TwoSymbols)
================================================================================
