-------------------------- MODULE MCOrderForwarding --------------------------
(* Instances of OrderForwarding for TLC.                                     *)
EXTENDS OrderForwarding, TLC

CONSTANTS s1, s2

Symmetry == Permutations(Signals)
=============================================================================
