--------------------------- MODULE OrderForwarding ---------------------------
(***************************************************************************)
(* Orders this node resolves and the VPS executes.                         *)
(*                                                                         *)
(* Under centralized signal generation the Mac runs every gate and, where  *)
(* it would have placed the order, sends it over the sync link and waits   *)
(* for the answer.  The answer carries no request id: one event and one    *)
(* box serve every caller that is waiting.  The VPS handles the messages   *)
(* of one connection in turn; a connection the Mac has given up may still  *)
(* deliver what it carries.                                                *)
(*                                                                         *)
(* Source: services/trading/open_trade.py (forwarding branch),             *)
(* services/cluster/sync/{client,server}.py, services/cluster/sync_repo.py,*)
(* services/trading/{send_dedup,signal_state_repo,open_from_signal}.py.    *)
(***************************************************************************)
EXTENDS Naturals, Sequences, FiniteSets

CONSTANTS
    Signals,     \* rows of the Mac's vantage_signals
    MaxSends,    \* bound on the forwards of one signal
    MaxConns,    \* bound on the connections of one run
    MaxCrashes,  \* bound on deaths of the Mac's process
    NoSignal

ASSUME ForwardingAssumption ==
    /\ MaxSends \in Nat /\ MaxConns \in Nat /\ MaxCrashes \in Nat
    /\ NoSignal \notin Signals

Conns == 1..MaxConns

VARIABLES
    status,    \* [Signals -> Statuses]: vantage_signals.status on the Mac
    waiting,   \* signals whose send_signal_order awaits the ack event
    sends,     \* [Signals -> Nat]: forwards so far (bound only)
    live,      \* the connection the Mac reads and writes, 0 while there is none
    conns,     \* connections made so far
    wire,      \* [Conns -> Seq(Signals)]: orders the VPS has not read yet
    serving,   \* [Conns -> ...]: the order this connection's handler works on
    back,      \* Seq of acks the Mac has not read, of the live connection
    opened,    \* [Signals -> Nat]: positions the VPS opened for the signal
    raced,     \* history: [Signals -> SUBSET Races]
    crashes

linkVars == <<live, conns, wire, serving, back>>
vars == <<status, waiting, sends, live, conns, wire, serving, back, opened,
          raced, crashes>>

Statuses == {"none", "pending", "activating", "active", "unknown", "expired"}
Acks     == [sig : Signals, ok : BOOLEAN]

\* "mixed": took the answer to another order; "blurred": the VPS got no answer
\* from its broker and reported that as an error; "torn": the send raised after
\* the frame was written; "swept": the claim outlived its open and was released;
\* "crashed": the process died while the answer was awaited.
Races == {"mixed", "blurred", "torn", "swept", "crashed"}

TypeOK ==
    /\ status \in [Signals -> Statuses]
    /\ waiting \subseteq Signals
    /\ sends \in [Signals -> 0..MaxSends]
    /\ live \in 0..MaxConns /\ conns \in 0..MaxConns /\ live <= conns
    /\ wire \in [Conns -> Seq(Signals)]
    /\ serving \in [Conns -> Signals \cup {NoSignal}]
    /\ back \in Seq(Acks) /\ (live = 0 => back = <<>>)
    /\ opened \in [Signals -> Nat]
    /\ raced \in [Signals -> SUBSET Races]
    /\ crashes \in 0..MaxCrashes

Init ==
    /\ status = [s \in Signals |-> "none"]
    /\ waiting = {}
    /\ sends = [s \in Signals |-> 0]
    /\ live = 0 /\ conns = 0
    /\ wire = [c \in Conns |-> <<>>]
    /\ serving = [c \in Conns |-> NoSignal]
    /\ back = <<>>
    /\ opened = [s \in Signals |-> 0]
    /\ raced = [s \in Signals |-> {}]
    /\ crashes = 0

-----------------------------------------------------------------------------
(* The link                                                                 *)

Mark(S, tag) == raced' = [s \in Signals |-> IF s \in S THEN raced[s] \cup {tag} ELSE raced[s]]

\* Slip: what is unanswered is sent again, as the settings proposals are.
ConnectResends ==
    /\ live = 0 /\ conns < MaxConns
    /\ live' = conns + 1 /\ conns' = conns + 1
    /\ \E q \in {<<>>} \cup {<<s>> : s \in waiting} :
           wire' = [wire EXCEPT ![conns + 1] = q]
    /\ UNCHANGED <<status, waiting, sends, serving, back, opened, raced, crashes>>

\* _connect_once: a fresh connection; orders are not repeated on it.
Connect ==
    /\ live = 0 /\ conns < MaxConns
    /\ live' = conns + 1 /\ conns' = conns + 1
    /\ UNCHANGED <<status, waiting, sends, wire, serving, back, opened, raced, crashes>>

\* The Mac gives the connection up; nobody will read the acks on it.
Disconnect ==
    /\ live # 0
    /\ live' = 0 /\ back' = <<>>
    /\ UNCHANGED <<status, waiting, sends, conns, wire, serving, opened, raced, crashes>>

\* What an abandoned connection still carried is lost.
Lose(c) ==
    /\ c # live /\ wire[c] # <<>>
    /\ wire' = [wire EXCEPT ![c] = <<>>]
    /\ UNCHANGED <<status, waiting, sends, live, conns, serving, back, opened, raced, crashes>>

-----------------------------------------------------------------------------
(* The Mac                                                                  *)

\* A signal is stored for the watcher (create_signal).
CreateSignal(s) ==
    /\ status[s] = "none"
    /\ status' = [status EXCEPT ![s] = "pending"]
    /\ UNCHANGED <<waiting, sends, linkVars, opened, raced, crashes>>

\* The watcher gives up on a queued signal: too old, or failed too often.
Expire(s) ==
    /\ status[s] = "pending"
    /\ status' = [status EXCEPT ![s] = "expired"]
    /\ UNCHANGED <<waiting, sends, linkVars, opened, raced, crashes>>

\* Who calls open_trade: the watcher with a claim on a queued signal, or the
\* Telegram scan with a row it has just inserted.
Taken(s) == \/ status[s] = "pending" /\ status' = [status EXCEPT ![s] = "activating"]
            \/ status[s] = "none" /\ status' = [status EXCEPT ![s] = "active"]

\* open_trade's forwarding branch and send_signal_order, up to the wait.
Forward(s) ==
    /\ live # 0 /\ sends[s] < MaxSends
    /\ Taken(s)
    /\ sends' = [sends EXCEPT ![s] = @ + 1]
    /\ wire' = [wire EXCEPT ![live] = Append(@, s)]
    /\ waiting' = waiting \cup {s}
    /\ UNCHANGED <<live, conns, serving, back, opened, raced, crashes>>

\* Not connected: ConnectionError, which send_outcome_is_unknown reads as "no
\* answer", so that the signal is parked although nothing was sent.
ForwardOffline(s) ==
    /\ live = 0 /\ status[s] \in {"none", "pending"}
    /\ status' = [status EXCEPT ![s] = "unknown"]
    /\ UNCHANGED <<waiting, sends, linkVars, opened, raced, crashes>>

\* ws.send raises ConnectionClosed, which is no OSError: a rejection, and the
\* signal is queued again.  The frame may have been written before.
ForwardTorn(s) ==
    /\ live # 0 /\ sends[s] < MaxSends /\ status[s] \in {"none", "pending"}
    /\ status' = [status EXCEPT ![s] = "pending"]
    /\ sends' = [sends EXCEPT ![s] = @ + 1]
    /\ \/ UNCHANGED <<wire, raced>>
       \/ wire' = [wire EXCEPT ![live] = Append(@, s)] /\ Mark({s}, "torn")
    /\ live' = 0 /\ back' = <<>>
    /\ UNCHANGED <<waiting, conns, serving, opened, crashes>>

\* Slip: the error field of the answer is not looked at.
ReadAckEnvelope ==
    /\ back # <<>>
    /\ back' = Tail(back)
    /\ waiting' = {}
    /\ Mark({s \in waiting : s # Head(back).sig}, "mixed")
    /\ UNCHANGED <<status, sends, live, conns, wire, serving, opened, crashes>>

\* _dispatch: the box is overwritten and the event set, which wakes every
\* waiting caller with this answer.  An error is a rejection: the signal is
\* queued again.  A success changes nothing: the row it belongs to is on the
\* VPS, so a claim stays "activating".
ReadAck ==
    /\ back # <<>>
    /\ back' = Tail(back)
    /\ waiting' = {}
    /\ status' = IF Head(back).ok THEN status
                 ELSE [s \in Signals |-> IF s \in waiting THEN "pending" ELSE status[s]]
    /\ Mark({s \in waiting : s # Head(back).sig}, "mixed")
    /\ UNCHANGED <<sends, live, conns, wire, serving, opened, crashes>>

\* Slip: a timeout is taken for a rejection.
AckTimeoutRequeues(s) ==
    /\ s \in waiting
    /\ waiting' = waiting \ {s}
    /\ status' = [status EXCEPT ![s] = "pending"]
    /\ UNCHANGED <<sends, linkVars, opened, raced, crashes>>

\* wait_for gives up after 15 s: TimeoutError, and the signal is parked.
AckTimeout(s) ==
    /\ s \in waiting
    /\ waiting' = waiting \ {s}
    /\ status' = [status EXCEPT ![s] = "unknown"]
    /\ UNCHANGED <<sends, linkVars, opened, raced, crashes>>

\* release_stranded_activations: the claim of a forward that ended, well or by
\* the death of the process, goes back into the queue.
Release(s) ==
    /\ status[s] = "activating" /\ s \notin waiting
    /\ status' = [status EXCEPT ![s] = "pending"]
    /\ Mark({s}, "swept")
    /\ UNCHANGED <<waiting, sends, linkVars, opened, crashes>>

\* The Mac's process dies and starts again.
Crash ==
    /\ crashes < MaxCrashes
    /\ crashes' = crashes + 1
    /\ waiting' = {} /\ live' = 0 /\ back' = <<>>
    /\ Mark(waiting, "crashed")
    /\ UNCHANGED <<status, sends, conns, wire, serving, opened>>

-----------------------------------------------------------------------------
(* The VPS                                                                  *)

\* _handle_connection reads the next message when the last one is done.
\* mirror_insert_signal_if_absent does not look for an earlier trade.
Serve(c) ==
    /\ serving[c] = NoSignal /\ wire[c] # <<>>
    /\ serving' = [serving EXCEPT ![c] = Head(wire[c])]
    /\ wire' = [wire EXCEPT ![c] = Tail(@)]
    /\ UNCHANGED <<status, waiting, sends, live, conns, back, opened, raced, crashes>>

\* The answer of _handle_signal_order goes to the connection it came from.
Answer(c, ok) ==
    /\ serving' = [serving EXCEPT ![c] = NoSignal]
    /\ back' = IF c = live THEN Append(back, [sig |-> serving[c], ok |-> ok]) ELSE back
    /\ UNCHANGED <<status, waiting, sends, live, conns, wire, crashes>>

Execute(c) ==
    /\ serving[c] # NoSignal
    /\ opened' = [opened EXCEPT ![serving[c]] = @ + 1]
    /\ Answer(c, TRUE)
    /\ UNCHANGED raced

\* A gate or the broker says no: stood down, paused, slots, a retcode.
Refuse(c) ==
    /\ serving[c] # NoSignal
    /\ Answer(c, FALSE)
    /\ UNCHANGED <<opened, raced>>

\* open_trade on the VPS got no answer from its own broker.  The ack carries
\* str(e) only, so the Mac cannot tell this from a refusal.
Blur(c) ==
    /\ serving[c] # NoSignal
    /\ opened' = [opened EXCEPT ![serving[c]] = @ + 1]
    /\ Mark({serving[c]}, "blurred")
    /\ Answer(c, FALSE)

\* The VPS restarts: what it had read and not finished is gone.
VpsRestart ==
    /\ \E c \in Conns : wire[c] # <<>> \/ serving[c] # NoSignal
    /\ live' = 0 /\ back' = <<>>
    /\ wire' = [c \in Conns |-> <<>>]
    /\ serving' = [c \in Conns |-> NoSignal]
    /\ UNCHANGED <<status, waiting, sends, conns, opened, raced, crashes>>

-----------------------------------------------------------------------------
Next ==
    \/ Connect \/ Disconnect \/ ReadAck \/ Crash \/ VpsRestart
    \/ \E c \in Conns : Lose(c) \/ Serve(c) \/ Execute(c) \/ Refuse(c) \/ Blur(c)
    \/ \E s \in Signals : CreateSignal(s) \/ Expire(s) \/ Forward(s) \/ ForwardOffline(s)
                          \/ ForwardTorn(s) \/ AckTimeout(s) \/ Release(s)

Spec == Init /\ [][Next]_vars

-----------------------------------------------------------------------------
(* Properties                                                               *)

OnTheWay(s) == \E c \in Conns : \/ serving[c] = s
                                \/ \E i \in 1..Len(wire[c]) : wire[c][i] = s

\* A signal back in the Mac's queue has no position at the VPS, and no order
\* that could still become one, unless it went through one of the five races
\* (restore_signal_after_failed_open after an answer, park after none).
QueuedIsUntraded ==
    \A s \in Signals :
        status[s] = "pending" /\ raced[s] = {} => opened[s] = 0 /\ ~OnTheWay(s)

\* The VPS opens one position per signal: mirror_insert_signal_if_absent and
\* open_trade would open another for the same id, so only the Mac's care not to
\* forward twice prevents it.
ForwardedOnce ==
    \A s \in Signals : raced[s] = {} => opened[s] <= 1

\* A signal the Mac treats as executed remotely (its caller has returned and it
\* is neither queued nor parked) has its position on the VPS.
SuccessIsReal ==
    \A s \in Signals :
        status[s] \in {"activating", "active"} /\ s \notin waiting /\ raced[s] = {}
            => opened[s] = 1

\* How far a signal has come, in the terms of SignalContract.
PhaseOf(s) ==
    IF raced[s] # {} THEN "broken" ELSE IF s \in waiting THEN "opening" ELSE
    CASE status[s] = "none"    -> "new"
      [] status[s] = "pending" -> "queued"
      [] status[s] = "unknown" -> "parked"
      [] status[s] = "expired" -> "dropped"
      [] status[s] \in {"activating", "active"} -> "confirmed"

Contract == INSTANCE SignalContract
            WITH phase <- [s \in Signals |-> PhaseOf(s)], orders <- opened

\* Forwarding implements the contract of a signal: every step of the Mac, the
\* link or the VPS is a step of each signal's life that the contract allows.
ForwardingKeepsContract == Contract!Spec
=============================================================================
