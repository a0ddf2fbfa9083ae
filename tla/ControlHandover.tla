--------------------------- MODULE ControlHandover ---------------------------
(***************************************************************************)
(* Which of the two paired nodes opens trades.                             *)
(*                                                                         *)
(* Each node keeps its own "active_trader" in its own database.  The mode  *)
(* button on the Mac's dashboard moves control with STAND_DOWN and RESUME  *)
(* over the sync link.  Every open browser tab has a button and a guard of *)
(* its own; the node's record and the two answer events are shared by all. *)
(* Nothing reconciles the two records when the link comes back: the welcome*)
(* message carries the VPS's record and the Mac does not read it.          *)
(*                                                                         *)
(* Source: frontend/app/_header.py (_toggle_mode), services/cluster/sync/  *)
(* {client,server}.py, services/cluster/sync_repo.py, and, for the gates,  *)
(* services/trading/open_trade.py.                                         *)
(***************************************************************************)
EXTENDS Naturals, Sequences

CONSTANTS
    Tabs,      \* dashboards open on the Mac
    Engines,   \* the signal engines of one node
    MaxSends   \* bound on the requests of one run

ASSUME HandoverAssumption == MaxSends \in Nat

VARIABLES
    mac, vps,   \* active_trader as each node has it: "local" or "remote_vps"
    tab,        \* [Tabs -> ...]: the request this tab's button is waiting for
    link,       \* is the sync link up?
    wire,       \* requests the VPS has not read, in order
    acks,       \* answers the Mac has not read, in order
    desk,       \* engines running on the Mac
    running,    \* engines running on the VPS
    listed,     \* sync_stood_down_engines on the VPS
    sent,       \* requests sent so far (bound only)
    raced,      \* history: SUBSET Races
    failed      \* history: a request was lost or given up

\* "crossed": a tab took over on the answer to an earlier stand-down, which a
\* hand-back has followed; "died": the Mac's process ended while a hand-back
\* awaited its answer.
Races == {"crossed", "died"}

linkVars == <<link, wire, acks>>
vars == <<mac, vps, tab, link, wire, acks, desk, running, listed, sent, raced, failed>>

Traders  == {"local", "remote_vps"}
Requests == {"stand_down", "resume"}

TypeOK ==
    /\ mac \in Traders /\ vps \in Traders
    /\ tab \in [Tabs -> Requests \cup {"idle"}]
    /\ link \in BOOLEAN
    /\ wire \in Seq(Requests) /\ acks \in Seq(Requests)
    /\ ~link => wire = <<>> /\ acks = <<>>
    /\ desk \subseteq Engines /\ running \subseteq Engines /\ listed \subseteq Engines
    /\ sent \in 0..MaxSends
    /\ raced \subseteq Races /\ failed \in BOOLEAN

\* get_active_trader's default on both nodes; the engines start as their
\* operators left them.
Init ==
    /\ mac = "remote_vps" /\ vps = "remote_vps"
    /\ tab = [t \in Tabs |-> "idle"]
    /\ link = FALSE /\ wire = <<>> /\ acks = <<>>
    /\ desk \in SUBSET Engines /\ running \in SUBSET Engines /\ listed = {}
    /\ sent = 0 /\ raced = {} /\ failed = FALSE

\* The gates of open_trade.  The Mac's refuses while its record says
\* "remote_vps", the VPS's (is_standing_down) while its own says "local".
MacOpens == mac = "local"
VpsOpens == vps = "remote_vps"

-----------------------------------------------------------------------------
(* The button                                                               *)

\* What this tab asks for, read from the Mac's record when it is pressed.
Wanted == IF mac = "local" THEN "resume" ELSE "stand_down"

\* stop_running_engines comes before the request, start_stopped_engines after
\* the answer.
StopDesk(kind) == desk' = IF kind = "resume" THEN {} ELSE desk

\* Slip: a hand-back writes the record before it asks.
PressWritesFirst(t) ==
    /\ link /\ tab[t] = "idle" /\ sent < MaxSends
    /\ tab' = [tab EXCEPT ![t] = Wanted]
    /\ wire' = Append(wire, Wanted)
    /\ sent' = sent + 1
    /\ StopDesk(Wanted)
    /\ mac' = "remote_vps"
    /\ UNCHANGED <<vps, link, acks, running, listed, raced, failed>>

\* _toggle_mode up to the wait: connected, this tab is not switching, and
\* request_stand_down or request_resume has cleared its event and sent.
Press(t) ==
    /\ link /\ tab[t] = "idle" /\ sent < MaxSends
    /\ tab' = [tab EXCEPT ![t] = Wanted]
    /\ wire' = Append(wire, Wanted)
    /\ sent' = sent + 1
    /\ StopDesk(Wanted)
    /\ UNCHANGED <<mac, vps, link, acks, running, listed, raced, failed>>

\* Slip: a stand-down that is not answered is taken as given.
GiveUpTakes(t) ==
    /\ mac' = IF tab[t] = "resume" THEN "remote_vps" ELSE "local"
    /\ tab' = [tab EXCEPT ![t] = "idle"]
    /\ failed' = TRUE

\* The request raised: a takeover changes nothing, a hand-back writes the
\* record all the same.
GiveUp(t) ==
    /\ mac' = IF tab[t] = "resume" THEN "remote_vps" ELSE mac
    /\ tab' = [tab EXCEPT ![t] = "idle"]
    /\ failed' = TRUE

\* ws.send raises: the link was gone when the button was pressed.
PressTorn(t) ==
    /\ link /\ tab[t] = "idle"
    /\ link' = FALSE /\ wire' = <<>> /\ acks' = <<>>
    /\ mac' = "remote_vps"
    /\ failed' = TRUE
    /\ StopDesk(Wanted)
    /\ UNCHANGED <<vps, tab, running, listed, sent, raced>>

\* wait_for gives up after 15 s.
Timeout(t) ==
    /\ tab[t] # "idle"
    /\ GiveUp(t)
    /\ UNCHANGED <<vps, linkVars, desk, running, listed, sent, raced>>

Waiting(kind) == {t \in Tabs : tab[t] = kind}

Outstanding(kind) == \/ \E i \in 1..Len(wire) : wire[i] = kind
                     \/ \E i \in 1..Len(acks) : acks[i] = kind

\* _dispatch sets the event of this kind of answer, which wakes every tab that
\* waits for one, whichever request it answers.  The woken tabs write the
\* record; a takeover starts the Mac's engines.
ReadAck ==
    /\ acks # <<>>
    /\ acks' = Tail(acks)
    /\ LET kind == Head(acks) IN
       /\ tab' = [t \in Tabs |-> IF tab[t] = kind THEN "idle" ELSE tab[t]]
       /\ IF Waiting(kind) = {}
          THEN UNCHANGED <<mac, desk, raced>>
          ELSE /\ mac' = IF kind = "stand_down" THEN "local" ELSE "remote_vps"
               /\ desk' = IF kind = "stand_down" THEN Engines ELSE desk
               /\ raced' = IF kind = "stand_down" /\ Outstanding("resume")
                           THEN raced \cup {"crossed"} ELSE raced
    /\ UNCHANGED <<vps, link, wire, running, listed, sent, failed>>

-----------------------------------------------------------------------------
(* The VPS                                                                  *)

\* The handler of a request runs to the end before the next one is read.
Serve(kind) ==
    /\ wire # <<>> /\ Head(wire) = kind
    /\ wire' = Tail(wire)
    /\ acks' = Append(acks, Head(wire))
    /\ UNCHANGED <<mac, tab, link, desk, sent, raced, failed>>

\* Slip: a VPS with nothing to stop does not answer.
StandDownSilent ==
    /\ wire # <<>> /\ Head(wire) = "stand_down"
    /\ wire' = Tail(wire)
    /\ acks' = IF running = {} THEN acks ELSE Append(acks, Head(wire))
    /\ listed' = running /\ running' = {} /\ vps' = "local"
    /\ UNCHANGED <<mac, tab, link, desk, sent, raced, failed>>

\* _handle_stand_down: what runs is stopped and listed, over whatever an
\* earlier stand-down had listed.
StandDown ==
    /\ Serve("stand_down")
    /\ listed' = running
    /\ running' = {}
    /\ vps' = "local"

\* _handle_resume
Resume ==
    /\ Serve("resume")
    /\ running' = running \cup listed
    /\ listed' = {}
    /\ vps' = "remote_vps"

\* An operator starts or stops one engine of the VPS, there or over the link
\* (_handle_engine_control); being stood down does not prevent it.
EngineControl(e) ==
    /\ running' = IF e \in running THEN running \ {e} ELSE running \cup {e}
    /\ UNCHANGED <<mac, vps, tab, linkVars, desk, listed, sent, raced, failed>>

-----------------------------------------------------------------------------
(* The link and the processes                                               *)

Connect ==
    /\ ~link /\ link' = TRUE
    /\ UNCHANGED <<mac, vps, tab, wire, acks, desk, running, listed, sent, raced, failed>>

Unanswered == wire # <<>> \/ acks # <<>>

\* The link drops and takes what it carried with it; the tabs go on waiting.
Disconnect ==
    /\ link
    /\ link' = FALSE /\ wire' = <<>> /\ acks' = <<>>
    /\ failed' = (failed \/ Unanswered)
    /\ UNCHANGED <<mac, vps, tab, desk, running, listed, sent, raced>>

\* The Mac restarts: its record is in the database, its tabs are gone.
MacRestart ==
    /\ link' = FALSE /\ wire' = <<>> /\ acks' = <<>>
    /\ tab' = [t \in Tabs |-> "idle"]
    /\ desk' \in SUBSET Engines
    /\ failed' = (failed \/ \E t \in Tabs : tab[t] # "idle")
    /\ raced' = IF Waiting("resume") = {} THEN raced ELSE raced \cup {"died"}
    /\ UNCHANGED <<mac, vps, running, listed, sent>>

\* The VPS restarts: its record and its list are in the database.
VpsRestart ==
    /\ link' = FALSE /\ wire' = <<>> /\ acks' = <<>>
    /\ running' \in SUBSET Engines
    /\ failed' = (failed \/ Unanswered)
    /\ UNCHANGED <<mac, vps, tab, desk, listed, sent, raced>>

-----------------------------------------------------------------------------
Next ==
    \/ \E t \in Tabs : Press(t) \/ PressTorn(t) \/ Timeout(t)
    \/ ReadAck \/ StandDown \/ Resume
    \/ \E e \in Engines : EngineControl(e)
    \/ Connect \/ Disconnect \/ MacRestart \/ VpsRestart

Spec == Init /\ [][Next]_vars

\* Both ends read what has arrived.
FairSpec == Spec /\ WF_vars(ReadAck) /\ WF_vars(StandDown) /\ WF_vars(Resume)

-----------------------------------------------------------------------------
(* Correctness                                                              *)

HandingBack == Waiting("resume") # {}

\* request_stand_down: the Mac "must NOT flip to Local mode without this ack, or
\* the mutual-exclusion guarantee is void".  Whatever is lost, given up, pressed
\* twice or restarted, both nodes open trades only while a hand-back awaits its
\* answer, unless a tab took over on the answer to an earlier stand-down, or
\* the Mac died while it was handing back.
TwoTradersOnlyHandingBack ==
    MacOpens /\ VpsOpens => HandingBack \/ raced # {}

\* If no request is lost or given up, there is no moment without a trader but
\* the one between the two halves of a takeover.
NoTraderOnlyInTakeover ==
    ~MacOpens /\ ~VpsOpens /\ ~failed => \E t \in Tabs : tab[t] = "stand_down"

\* And that moment ends: some node opens trades again.
SomeoneTakesOver ==
    ~MacOpens /\ ~VpsOpens /\ ~failed ~> MacOpens \/ VpsOpens \/ failed
=============================================================================
