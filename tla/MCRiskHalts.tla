---------------------------- MODULE MCRiskHalts ----------------------------
(* Finite instance of RiskHalts for TLC.                                    *)
EXTENDS RiskHalts, TLC

CONSTANTS t1, t2, c1, c2

MCTrades == {t1, t2}
MCClosers == {c1, c2}
MCPnls == {-2, 2}
MCSymmetry == Permutations(MCTrades) \cup Permutations(MCClosers)

\* Behaviours with two misses between two closes add nothing to those with one.
OneMiss == \A a, b \in missed : a = b
=============================================================================
