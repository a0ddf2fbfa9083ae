--------------------------- MODULE MCTradeLedger ---------------------------
(* Instances of TradeLedger for TLC: tasks are named by what they do.        *)
EXTENDS TradeLedger, TLC

CONSTANTS ladder, finisher, monitor, reader, user, sync1, sync2, native, scripted

WorkOf == (ladder :> "ladder") @@ (finisher :> "finisher")
          @@ (monitor :> "monitor") @@ (reader :> "ea")
          @@ (user :> "user") @@ (sync1 :> "sync") @@ (sync2 :> "sync")

MCKindOf == [p \in Tasks |-> WorkOf[p]]

\* native: handed to the EA; scripted: managed by the Python ladder.
MCManaged == [t \in Trades |-> IF t = native THEN "ea" ELSE "python"]

\* A loss per lot, written as an expression because a configuration file has
\* no negative numbers.
MCLoss == -1
=============================================================================
