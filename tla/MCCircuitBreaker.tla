-------------------------- MODULE MCCircuitBreaker --------------------------
(* Finite instance of CircuitBreaker for TLC.                               *)
EXTENDS CircuitBreaker, TLC

CONSTANTS t1, t2, t3, c1, c2, b1

MCTrades == {t1, t2, t3}
MCClosers == {c1, c2}
MCBaskets == {b1}
MCSymmetry == Permutations(MCTrades) \cup Permutations(MCClosers)
=============================================================================
