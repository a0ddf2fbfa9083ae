---------------------------- MODULE SignalContract ----------------------------
(***************************************************************************)
(* What the rest of the program may rely on when a signal is opened, here  *)
(* or through another node: the life of a signal as the helpers of         *)
(* services/trading/signal_state_repo.py describe it, without links,       *)
(* answers or processes.                                                   *)
(*                                                                         *)
(* A signal is opened by one opener at a time and traded at most once.  It *)
(* goes back into the queue only if nothing was traded; it is confirmed    *)
(* only if something was; if nobody knows, it is parked and stays parked.  *)
(* A signal whose open was disturbed in a way the program cannot see is    *)
(* "broken": nothing is promised for it from then on.                      *)
(***************************************************************************)
EXTENDS Naturals

CONSTANT Signals

VARIABLES
    phase,    \* [Signals -> Phases]
    orders    \* [Signals -> Nat]: positions opened for the signal

vars == <<phase, orders>>

Phases == {"new", "queued", "opening", "confirmed", "parked", "dropped", "broken"}

Init ==
    /\ phase = [s \in Signals |-> "new"]
    /\ orders = [s \in Signals |-> 0]

-----------------------------------------------------------------------------
Moves(s, from, to) == phase[s] \in from /\ phase'[s] = to /\ orders'[s] = orders[s]

Queue(s)    == Moves(s, {"new"}, "queued")
Begin(s)    == Moves(s, {"new", "queued"}, "opening")
Park(s)     == Moves(s, {"new", "queued", "opening"}, "parked")
Drop(s)     == Moves(s, {"queued"}, "dropped")
GiveBack(s) == orders[s] = 0 /\ Moves(s, {"opening"}, "queued")
Confirm(s)  == orders[s] = 1 /\ Moves(s, {"opening"}, "confirmed")

\* The one order of the signal is filled, while its opener waits or after the
\* opener has given up waiting.
Fill(s) ==
    /\ phase[s] \in {"opening", "parked"} /\ phase'[s] = phase[s]
    /\ orders[s] = 0 /\ orders'[s] = 1

Break(s) == phase'[s] = "broken"

\* Signals are independent; one event of the system may move several.
Stay(s) == phase'[s] = phase[s] /\ orders'[s] = orders[s]

Step(s) ==
    \/ Queue(s) \/ Begin(s) \/ Park(s) \/ Drop(s) \/ GiveBack(s) \/ Confirm(s)
    \/ Fill(s) \/ Break(s) \/ Stay(s)

Next ==
    /\ phase' \in [Signals -> Phases]
    /\ orders' \in [Signals -> Nat]
    /\ \A s \in Signals : (phase[s] = "broken" => Break(s)) /\ Step(s)

Spec == Init /\ [][Next]_vars
=============================================================================
