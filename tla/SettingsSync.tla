---------------------------- MODULE SettingsSync ----------------------------
(***************************************************************************)
(* How the two paired nodes keep one set of settings.                      *)
(*                                                                         *)
(* Each node has its own table.  A setting edited on the Mac is proposed   *)
(* to the VPS, which applies it and broadcasts its whole table; the Mac    *)
(* copies that table, except the keys whose proposals it still considers   *)
(* unconfirmed, and considers one confirmed when a broadcast shows its     *)
(* value.  An edit on the VPS goes with the next such table, or with the   *)
(* welcome of the next connection: the function that should broadcast it   *)
(* finds a client object on either node and proposes to that, which on the *)
(* VPS is never connected.  Nothing carries a time or a version.           *)
(*                                                                         *)
(* A save may run on the event loop (the settings page) or on the database *)
(* worker thread (the circuit breaker writes its tally as settings); what  *)
(* it has to tell the other node is scheduled on the loop, and a flag of   *)
(* the process keeps two saves from telling at once.                       *)
(*                                                                         *)
(* Channel strategies, the trading schedule and strategy parameters are    *)
(* proposed, mirrored and confirmed in the same way; what is modelled here *)
(* is the risk settings.                                                   *)
(*                                                                         *)
(* Source: services/cluster/sync/{client,server,_pending_store}.py,        *)
(* services/risk/risk_settings_repo.py.                                    *)
(***************************************************************************)
EXTENDS Naturals, Sequences

CONSTANTS
    Keys,         \* settings
    Values,       \* what a setting may be
    None,         \* no value
    Default,      \* the table both nodes start from
    MaxEvents,    \* bound on saves and process deaths together
    MaxConns      \* bound on connections; the last one stays up

ASSUME SyncAssumption ==
    /\ None \notin Values
    /\ Default \in [Keys -> Values]
    /\ MaxEvents \in Nat /\ MaxConns \in Nat

VARIABLES
    value,      \* [Nodes -> table]: vantage_risk_settings of each node
    edits,      \* [Nodes -> SUBSET Edit]: saves under way, one per thread
    pend,       \* _pending_settings, kept in app_config
    todo,       \* the Mac's scheduled propose_settings calls
    link,       \* the connection in use, 0 when there is none
    greeted,    \* has the Mac read the welcome (conn_state "connected")?
    made,       \* connections made so far
    wire,       \* [1..MaxConns -> Seq(Updates)]: proposals the VPS has not read
    back,       \* what the VPS sent on the connection in use, not read yet
    owed,       \* the proposal just applied, not yet answered by a broadcast
    events,     \* saves and process deaths so far (bound only)
    untold,     \* history: keys saved on the VPS since it last sent its table
    want,       \* history: the newest value saved on the Mac
    mine,       \* history: is that edit open, held by the VPS, or ceded?
    raced       \* history: [Keys -> SUBSET Races]

tables   == <<value, edits>>
linkVars == <<link, greeted, made>>
history  == <<want, mine, raced>>
vars     == <<value, edits, pend, todo, link, greeted, made, wire, back,
              owed, events, untold, want, mine, raced>>

Nodes   == {"mac", "vps"}
Threads == {"loop", "worker"}
Tables  == [Keys -> Values]
Updates == [Keys -> Values \cup {None}]
NoUpdates == [k \in Keys |-> None]
Frame   == [welcome : BOOLEAN, table : Tables]

\* A save between its UPDATE and the task that tells the other node: past the
\* flag ("forwarding"), or posted to the loop by the worker, which goes on.
Stages == {"saved", "forwarding", "posted"}
Edit == [by : Threads, key : Keys, val : Values, at : Stages]

\* What happened to a key:
\*   crossed    it was saved while an earlier save had no task yet
\*   dropped    a save found the flag raised and told nobody
\*   mirrored   the VPS's value was copied over a save not yet proposed
\*   unsaved    the Mac died before a save was proposed
\*   reused     a save gave it a value that was under way already
\*   straggler  a proposal of an abandoned connection was applied
\*   refused    the VPS failed to apply a proposal
\*   hidden     the VPS's own save came between a proposal and its broadcast
Races == {"crossed", "dropped", "mirrored", "unsaved", "reused", "straggler",
          "refused", "hidden"}

TypeOK ==
    /\ value \in [Nodes -> Tables]
    /\ edits \in [Nodes -> SUBSET Edit]
    /\ pend \in Updates /\ owed \in Updates
    /\ todo \in Seq(Updates) /\ untold \subseteq Keys
    /\ made \in 0..MaxConns /\ link \in {0, made} /\ greeted \in BOOLEAN
    /\ wire \in [1..MaxConns -> Seq(Updates)]
    /\ back \in Seq(Frame)
    /\ events \in 0..MaxEvents
    /\ want \in Updates
    /\ mine \in [Keys -> {"open", "held", "ceded"}]
    /\ raced \in [Keys -> SUBSET Races]

Init ==
    /\ value = [n \in Nodes |-> Default]
    /\ edits = [n \in Nodes |-> {}]
    /\ pend = NoUpdates /\ owed = NoUpdates
    /\ todo = <<>> /\ untold = {}
    /\ link = 0 /\ greeted = FALSE /\ made = 0
    /\ wire = [c \in 1..MaxConns |-> <<>>] /\ back = <<>>
    /\ events = 0
    /\ want = NoUpdates
    /\ mine = [k \in Keys |-> "ceded"]
    /\ raced = [k \in Keys |-> {}]

-----------------------------------------------------------------------------
(* Helpers                                                                 *)

\* dict.update.
Merge(table, u) == [k \in Keys |-> IF u[k] = None THEN table[k] ELSE u[k]]

One(k, v) == [NoUpdates EXCEPT ![k] = v]

\* A coroutine of node n can run: no save occupies the loop, and the VPS is
\* not between applying a proposal and reading its table for the broadcast.
LoopFree(n) ==
    /\ \A e \in edits[n] : e.by # "loop"
    /\ n = "vps" => owed = NoUpdates

\* Marks the keys in ks.
Mark(race, ks) ==
    raced' = [k \in Keys |-> IF k \in ks THEN raced[k] \cup {race} ELSE raced[k]]

\* Saves of k on the Mac that have not been proposed: not scheduled, or
\* scheduled.
Saving(k) == \E e \in edits["mac"] : e.key = k
Queued(k) == \E i \in 1..Len(todo) : todo[i][k] # None
Unproposed(k) == Saving(k) \/ Queued(k)

\* Values of k that the VPS, a message or a scheduled call carries.
UnderWay(k) ==
    {value["vps"][k], pend[k], owed[k]}
    \cup {back[i].table[k] : i \in 1..Len(back)}
    \cup {todo[i][k] : i \in 1..Len(todo)}
    \cup {e.val : e \in {f \in edits["mac"] : f.key = k}}
    \cup UNION {{wire[c][i][k] : i \in 1..Len(wire[c])} : c \in 1..MaxConns}

\* _broadcast: what is written to a connection the Mac has left is lost.
Broadcast ==
    IF link = 0 THEN UNCHANGED <<back, untold>>
    ELSE /\ back' = Append(back, [welcome |-> FALSE, table |-> value["vps"]])
         /\ untold' = {}

-----------------------------------------------------------------------------
(* update_risk_settings on either node                                     *)

\* The UPDATE.
Save(n, t, k, v) ==
    /\ events < MaxEvents
    /\ \A e \in edits[n] : e.by = t => e.at = "posted"
    /\ t = "loop" => LoopFree(n)
    /\ value' = [value EXCEPT ![n][k] = v]
    /\ edits' = [edits EXCEPT ![n] =
                    @ \cup {[by |-> t, key |-> k, val |-> v, at |-> "saved"]}]
    /\ events' = events + 1
    /\ IF n = "mac"
       THEN /\ want' = [want EXCEPT ![k] = v]
            /\ mine' = [mine EXCEPT ![k] = "open"]
            /\ raced' = [raced EXCEPT ![k] = @
                   \cup (IF v \in UnderWay(k) THEN {"reused"} ELSE {})
                   \cup (IF \E e \in edits[n] : e.key = k THEN {"crossed"} ELSE {})]
       ELSE /\ mine' = [mine EXCEPT ![k] = IF @ = "held" THEN "ceded" ELSE @]
            /\ IF v = want[k] THEN Mark("reused", {k}) ELSE UNCHANGED raced
            /\ UNCHANGED want
    /\ untold' = IF n = "vps" THEN untold \cup {k} ELSE untold
    /\ UNCHANGED <<pend, todo, linkVars, wire, back, owed>>

\* The other thread is forwarding: this save returns without telling.
Skip(n, e) ==
    /\ e \in edits[n] /\ e.at = "saved"
    /\ \E f \in edits[n] : f.at = "forwarding"
    /\ edits' = [edits EXCEPT ![n] = @ \ {e}]
    /\ Mark("dropped", IF n = "mac" THEN {e.key} ELSE {})
    /\ UNCHANGED <<value, pend, todo, linkVars, wire, back, owed, events, untold, want, mine>>

MoveOn(n, e, stage) ==
    /\ edits' = [edits EXCEPT ![n] = (@ \ {e}) \cup {[e EXCEPT !.at = stage]}]
    /\ UNCHANGED <<value, pend, todo, linkVars, wire, back, owed, events, untold, history>>

\* The flag is down: raise it and forward.
Enter(n, e) ==
    /\ e \in edits[n] /\ e.at = "saved"
    /\ \A f \in edits[n] : f.at # "forwarding"
    /\ MoveOn(n, e, "forwarding")

\* _schedule_coro on the worker: run_coroutine_threadsafe leaves a callback for
\* the loop, and a task the loop starts meanwhile comes first.
Post(n, e) ==
    /\ e \in edits[n] /\ e.at = "forwarding" /\ e.by = "worker"
    /\ MoveOn(n, e, "posted")

\* Where a save becomes a task: in the loop's own turn or in the callback.
Ready(n, e) ==
    /\ e \in edits[n]
    /\ \/ e.at = "forwarding" /\ e.by = "loop"
       \/ e.at = "posted" /\ LoopFree(n)

\* The task: propose_settings(updates) of the node's client.  The one on the VPS
\* has no connection and keeps them to itself.
Schedule(n, e) ==
    /\ Ready(n, e)
    /\ edits' = [edits EXCEPT ![n] = @ \ {e}]
    /\ todo' = IF n = "mac" THEN Append(todo, One(e.key, e.val)) ELSE todo
    /\ UNCHANGED <<value, pend, linkVars, wire, back, owed, events, untold, history>>

-----------------------------------------------------------------------------
(* The Mac's SyncClient                                                    *)

\* propose_settings, or with no updates the flush after a reconnect: what is
\* unconfirmed is kept and all of it is sent if the link is up.
Propose ==
    /\ LoopFree("mac") /\ todo # <<>>
    /\ todo' = Tail(todo)
    /\ pend' = Merge(pend, Head(todo))
    /\ wire' = IF link # 0 /\ greeted /\ pend' # NoUpdates
               THEN [wire EXCEPT ![link] = Append(@, pend')] ELSE wire
    /\ UNCHANGED <<tables, linkVars, back, owed, events, untold, history>>

\* _mirror_settings_locally: all keys but the unconfirmed ones.
Mirror(table) ==
    LET copied == {k \in Keys : pend[k] = None} IN
    /\ value' = [value EXCEPT !["mac"] =
                    [k \in Keys |-> IF k \in copied THEN table[k] ELSE @[k]]]
    /\ Mark("mirrored", {k \in copied : Unproposed(k)})

\* Slip: nothing is sent again after a reconnect.
ReadWelcomeOnly ==
    /\ LoopFree("mac") /\ back # <<>> /\ Head(back).welcome
    /\ back' = Tail(back)
    /\ greeted' = TRUE
    /\ Mirror(Head(back).table)
    /\ UNCHANGED <<edits, pend, todo, link, made, wire, owed, events, untold, want, mine>>

\* Slip: only live broadcasts are mirrored.
ReadWelcomeUnmirrored ==
    /\ LoopFree("mac") /\ back # <<>> /\ Head(back).welcome
    /\ back' = Tail(back)
    /\ greeted' = TRUE
    /\ todo' = IF pend = NoUpdates THEN todo ELSE Append(todo, NoUpdates)
    /\ UNCHANGED <<tables, pend, link, made, wire, owed, events, untold, history>>

\* The welcome of _connect_once.
ReadWelcome ==
    /\ LoopFree("mac") /\ back # <<>> /\ Head(back).welcome
    /\ back' = Tail(back)
    /\ greeted' = TRUE
    /\ Mirror(Head(back).table)
    /\ todo' = IF pend = NoUpdates THEN todo ELSE Append(todo, NoUpdates)
    /\ UNCHANGED <<edits, pend, link, made, wire, owed, events, untold, want, mine>>

\* Slip: any broadcast confirms everything that was proposed.
ReadStateConfirmsAll ==
    /\ LoopFree("mac") /\ back # <<>> /\ ~Head(back).welcome
    /\ back' = Tail(back)
    /\ Mirror(Head(back).table)
    /\ pend' = NoUpdates
    /\ UNCHANGED <<edits, todo, linkVars, wire, owed, events, untold, want, mine>>

\* _dispatch of settings_state: copy, then drop what it confirms.
ReadState ==
    /\ LoopFree("mac") /\ back # <<>> /\ ~Head(back).welcome
    /\ back' = Tail(back)
    /\ Mirror(Head(back).table)
    /\ pend' = [k \in Keys |-> IF pend[k] = Head(back).table[k] THEN None ELSE pend[k]]
    /\ UNCHANGED <<edits, todo, linkVars, wire, owed, events, untold, want, mine>>

-----------------------------------------------------------------------------
(* The VPS's SyncServer                                                    *)

\* _handle_settings_propose, on whichever connection has a frame left.
Serve(c) ==
    /\ LoopFree("vps") /\ wire[c] # <<>>
    /\ wire' = [wire EXCEPT ![c] = Tail(@)]
    /\ LET u == Head(wire[c]) IN
       /\ value' = [value EXCEPT !["vps"] = Merge(@, u)]
       /\ owed' = u
       /\ mine' = [k \in Keys |-> IF u[k] # None /\ u[k] = want[k] /\ mine[k] = "open"
                                  THEN "held" ELSE mine[k]]
       /\ IF c < made
          THEN Mark("straggler", {k \in Keys : u[k] # None /\ u[k] # want[k]})
          ELSE UNCHANGED raced
    /\ UNCHANGED <<edits, pend, todo, linkVars, back, events, untold, want>>

\* The broadcast that ends it.
Answer ==
    /\ \A e \in edits["vps"] : e.by # "loop"
    /\ owed # NoUpdates
    /\ owed' = NoUpdates
    /\ Broadcast
    /\ Mark("hidden", {k \in Keys : owed[k] # None /\ owed[k] # value["vps"][k]})
    /\ UNCHANGED <<tables, pend, todo, linkVars, wire, events, want, mine>>

\* settings_rejected: the Mac logs it.
Refuse(c) ==
    /\ LoopFree("vps") /\ wire[c] # <<>>
    /\ wire' = [wire EXCEPT ![c] = Tail(@)]
    /\ Mark("refused", {k \in Keys : Head(wire[c])[k] # None})
    /\ UNCHANGED <<tables, pend, todo, linkVars, back, owed, events, untold, want, mine>>

-----------------------------------------------------------------------------
(* Link and processes                                                      *)

\* hello, answered with a welcome that carries the VPS's table.
Connect ==
    /\ LoopFree("vps") /\ link = 0 /\ made < MaxConns
    /\ made' = made + 1 /\ link' = made + 1 /\ greeted' = FALSE
    /\ back' = <<[welcome |-> TRUE, table |-> value["vps"]]>>
    /\ untold' = {}
    /\ UNCHANGED <<tables, pend, todo, wire, owed, events, history>>

\* What was sent to the Mac is lost; the VPS may still read what it received.
Disconnect ==
    /\ link # 0 /\ made < MaxConns
    /\ link' = 0 /\ greeted' = FALSE /\ back' = <<>>
    /\ UNCHANGED <<tables, pend, todo, made, wire, owed, events, untold, history>>

Lose(c) ==
    /\ c # link /\ wire[c] # <<>>
    /\ wire' = [wire EXCEPT ![c] = <<>>]
    /\ UNCHANGED <<tables, pend, todo, linkVars, back, owed, events, untold, history>>

MacRestart ==
    /\ events < MaxEvents /\ made < MaxConns
    /\ events' = events + 1
    /\ edits' = [edits EXCEPT !["mac"] = {}]
    /\ todo' = <<>>
    /\ link' = 0 /\ greeted' = FALSE /\ back' = <<>>
    /\ Mark("unsaved", {k \in Keys : Unproposed(k)})
    /\ UNCHANGED <<value, pend, made, wire, owed, untold, want, mine>>

VpsRestart ==
    /\ events < MaxEvents /\ made < MaxConns
    /\ events' = events + 1
    /\ edits' = [edits EXCEPT !["vps"] = {}]
    /\ owed' = NoUpdates
    /\ wire' = [c \in 1..MaxConns |-> <<>>]
    /\ link' = 0 /\ greeted' = FALSE /\ back' = <<>>
    /\ UNCHANGED <<value, pend, todo, made, untold, history>>

-----------------------------------------------------------------------------
Forward(n) ==
    \E e \in edits[n] : Skip(n, e) \/ Enter(n, e) \/ Post(n, e) \/ Schedule(n, e)

Next ==
    \/ \E n \in Nodes, t \in Threads, k \in Keys, v \in Values : Save(n, t, k, v)
    \/ \E n \in Nodes : Forward(n)
    \/ Propose \/ ReadWelcome \/ ReadState
    \/ \E c \in 1..MaxConns : Serve(c) \/ Refuse(c) \/ Lose(c)
    \/ Answer
    \/ Connect \/ Disconnect \/ MacRestart \/ VpsRestart

Spec == Init /\ [][Next]_vars

\* Threads and coroutines that were started go on, both ends read what has
\* arrived, and the client reconnects for as long as it runs.
FairSpec ==
    /\ Spec
    /\ \A n \in Nodes : WF_vars(Forward(n))
    /\ WF_vars(Propose) /\ WF_vars(ReadWelcome) /\ WF_vars(ReadState)
    /\ \A c \in 1..MaxConns : WF_vars(Serve(c) \/ Refuse(c))
    /\ WF_vars(Answer)
    /\ WF_vars(Connect)

-----------------------------------------------------------------------------
Quiet ==
    /\ link # 0 /\ greeted /\ back = <<>>
    /\ \A c \in 1..MaxConns : wire[c] = <<>>
    /\ todo = <<>> /\ owed = NoUpdates
    /\ \A n \in Nodes : edits[n] = {}

\* Nothing came between the Mac's saves and its proposals.
Sound(k) == raced[k] \cap {"crossed", "dropped", "mirrored", "unsaved"} = {}

\* Its newest save was proposed, and told from others by its value and its
\* connection.
Kept(k) == raced[k] \cap {"crossed", "dropped", "unsaved", "reused", "straggler"} = {}

\* When nothing is under way, both nodes have the same value for every key the
\* Mac does not hold as unconfirmed and the VPS has not saved since it last sent
\* its table.
NodesAgree ==
    Quiet => \A k \in Keys :
        \/ pend[k] # None \/ k \in untold
        \/ ~Sound(k)
        \/ value["mac"][k] = value["vps"][k]

\* The newest edit made on the Mac is not forgotten before the VPS has applied
\* it, and afterwards stays in force until the VPS is edited.
LastEditStands ==
    \A k \in Keys :
        Kept(k) =>
            /\ mine[k] = "open" => Unproposed(k) \/ pend[k] = want[k]
            /\ mine[k] = "held" => value["vps"][k] = want[k]

\* An unconfirmed edit is confirmed in the end, unless the VPS refused it or
\* hid it behind a save of its own.
EditsSettle ==
    \A k \in Keys :
        pend[k] # None ~> (pend[k] = None \/ raced[k] \cap {"refused", "hidden"} # {})
=============================================================================
