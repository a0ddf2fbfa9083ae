-------------------------- MODULE MCControlHandover --------------------------
(* Two dashboards, two engines, a few requests. *)
EXTENDS ControlHandover, TLC

CONSTANTS t1, t2, breakout, reversal

MCTabs     == {t1, t2}
MCEngines  == {breakout, reversal}
MCMaxSends == 6
MCSymmetry == Permutations(MCTabs) \cup Permutations(MCEngines)
=============================================================================
