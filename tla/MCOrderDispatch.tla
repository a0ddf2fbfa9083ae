--------------------------- MODULE MCOrderDispatch ---------------------------
(* Instances of OrderDispatch for TLC: tasks are named by their route.       *)
EXTENDS OrderDispatch, TLC

CONSTANTS watcher, direct1, scan1, grid1, ime1, manual1, bot1

RouteOf == (watcher :> "watcher") @@ (direct1 :> "direct")
           @@ (scan1 :> "scan") @@ (grid1 :> "grid") @@ (ime1 :> "ime")
           @@ (manual1 :> "manual") @@ (bot1 :> "bot")

MCKindOf == [p \in Tasks |-> RouteOf[p]]

Symmetry == Permutations(Signals) \cup Permutations(Trades)
=============================================================================
