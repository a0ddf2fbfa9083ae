---------------------------- MODULE OrderDispatch ----------------------------
(***************************************************************************)
(* How one trading signal becomes at most one position at the broker.      *)
(*                                                                         *)
(* Every route that opens a trade is an asyncio task.  A task resolves a   *)
(* signal, (on some routes) claims it, runs the gates of open_trade, hands *)
(* the order to the EA, falls back to the Python bridge, and writes the    *)
(* trade row.  Tasks interleave at their awaits: one action below is the   *)
(* code between two awaits.                                                *)
(*                                                                         *)
(* Source: services/trading/{signal_state_repo,open_from_signal,open_trade,*)
(* send_dedup,scan_auto_execute,instant_entry,manual_market_order}.py,     *)
(* services/signals/{pending_activation,repo,cancellation}.py,             *)
(* services/broker/{dedup.py,ea_bridge}.                                   *)
(***************************************************************************)
EXTENDS Integers, FiniteSets

CONSTANTS
    Signals,      \* rows of vantage_signals
    Trades,       \* pool of trade ids (uuid4 prefixes) one run may draw
    Tasks,        \* the asyncio tasks that open trades
    KindOf,       \* which route each task is: [Tasks -> Kinds]
    Cap,          \* vantage_risk_settings.max_open_trades
    MaxAttempts,  \* _MAX_ACTIVATION_ATTEMPTS
    MaxCrashes,   \* bound on process deaths
    NoSignal,     \* "no signal" / "no trade id" markers
    NoTrade

(***************************************************************************)
(* The routes.  "watcher": try_activate_pending_signals, once per monitor  *)
(* cycle.  "direct": a caller of open_trade_from_signal (Reversal Engine,  *)
(* Breakout Engine, the dashboard's Open button).  The others call         *)
(* open_trade without claiming: "scan" a fresh Telegram signal inside its  *)
(* zone, "grid" the same for a grid template, "ime" immediate market       *)
(* entry, "manual" a dashboard market order, "bot" the bot's /activate.    *)
(***************************************************************************)
Kinds     == {"watcher", "direct", "scan", "grid", "ime", "manual", "bot"}
Claimers  == {"watcher", "direct"}
Unclaimed == Kinds \ Claimers

ASSUME ConstantsAssumption ==
    /\ KindOf \in [Tasks -> Kinds]
    /\ \A p, q \in Tasks : KindOf[p] = "watcher" /\ KindOf[q] = "watcher" => p = q
    /\ Cap \in Nat \ {0}
    /\ MaxAttempts \in Nat \ {0}
    /\ MaxCrashes \in Nat
    /\ NoSignal \notin Signals
    /\ NoTrade \notin Trades

VARIABLES
    status,   \* [Signals -> Statuses]: vantage_signals.status
    fails,    \* [Signals -> Nat]: _ACTIVATION_FAILURES, watcher memory
    queue,    \* the watcher's `pending` list, read once per cycle
    pc, job, tid, why,   \* per task: where it is, its signal, its trade id,
                         \* and the class of the exception in flight
    ea,       \* [Trades -> ...]: the open_trade command sent to the EA
    placed,   \* [Trades -> Nat]: orders the broker accepted under this id
    owner,    \* [Trades -> Signals]: the signal an id was sent for
    row,      \* [Trades -> ...]: vantage_simulated_trades.status
    late,     \* history: ids the EA acted on after the task had gone on
    orphan,   \* history: ids in flight when the process died
    uncharged,\* history: ids whose open held no slot of its own: a route that
              \* takes no claim, or a claim overwritten while in flight
    crashes

sigVars  == <<status, fails, queue>>
taskVars == <<pc, job, tid, why>>
bookVars == <<ea, placed, owner, row>>
histVars == <<late, orphan, uncharged, crashes>>
vars     == <<status, fails, queue, pc, job, tid, why, ea, placed, owner, row,
              late, orphan, uncharged, crashes>>

Statuses == {"none", "pending", "activating", "active", "unknown", "activated",
             "expired", "cancelled", "closed", "deleted"}

\* A task between its claim (or its signal insert) and its outcome.
InFlightPcs == {"gates", "handoff", "eaWait", "tplWait", "ask", "place",
                "record", "failed"}
Pcs    == {"idle", "resolve"} \cup InFlightPcs
Errors == {"none", "expected", "rejected", "unknown"}

TypeOK ==
    /\ status \in [Signals -> Statuses]
    /\ fails \in [Signals -> 0..(MaxAttempts - 1)]
    /\ queue \subseteq Signals
    /\ pc \in [Tasks -> Pcs]
    /\ job \in [Tasks -> Signals \cup {NoSignal}]
    /\ tid \in [Tasks -> Trades \cup {NoTrade}]
    /\ why \in [Tasks -> Errors]
    /\ ea \in [Trades -> {"none", "queued", "opened", "refused"}]
    /\ placed \in [Trades -> 0..2]
    /\ owner \in [Trades -> Signals \cup {NoSignal}]
    /\ row \in [Trades -> {"none", "open", "closed"}]
    /\ late \subseteq Trades
    /\ orphan \subseteq Trades
    /\ uncharged \subseteq Trades
    /\ crashes \in 0..MaxCrashes

Init ==
    /\ status = [s \in Signals |-> "none"]
    /\ fails = [s \in Signals |-> 0]
    /\ queue = {}
    /\ pc = [p \in Tasks |-> "idle"]
    /\ job = [p \in Tasks |-> NoSignal]
    /\ tid = [p \in Tasks |-> NoTrade]
    /\ why = [p \in Tasks |-> "none"]
    /\ ea = [t \in Trades |-> "none"]
    /\ placed = [t \in Trades |-> 0]
    /\ owner = [t \in Trades |-> NoSignal]
    /\ row = [t \in Trades |-> "none"]
    /\ late = {}
    /\ orphan = {}
    /\ uncharged = {}
    /\ crashes = 0

-----------------------------------------------------------------------------
(* Slots.  A slot is an open row or a signal whose open is in flight; the   *)
(* resting-order term of _SLOTS_IN_USE_SQL is the RestingOrders module's.   *)

OpenRows == {t \in Trades : row[t] = "open"}
Claims   == {s \in Signals : status[s] = "activating"}

\* Slip: in-flight opens are not counted (the gate before stage1 phase2/030).
SlotsUsedOpenRowsOnly(exclude) == Cardinality(OpenRows)

SlotsUsed(exclude) == Cardinality(OpenRows) + Cardinality(Claims \ {exclude})

Held(t)  == \E p \in Tasks : tid[p] = t
FreshIds == {t \in Trades : owner[t] = NoSignal /\ ~Held(t)}

\* The task p stops working on its signal.
Finish(p) ==
    /\ pc' = [pc EXCEPT ![p] = "idle"]
    /\ job' = [job EXCEPT ![p] = NoSignal]
    /\ tid' = [tid EXCEPT ![p] = NoTrade]
    /\ why' = [why EXCEPT ![p] = "none"]

Goto(p, loc) ==
    /\ pc' = [pc EXCEPT ![p] = loc]
    /\ UNCHANGED <<job, tid, why>>

Raise(p, e) ==
    /\ pc' = [pc EXCEPT ![p] = "failed"]
    /\ why' = [why EXCEPT ![p] = e]
    /\ UNCHANGED <<job, tid>>

Take(p, s, t, loc) ==
    /\ pc' = [pc EXCEPT ![p] = loc]
    /\ job' = [job EXCEPT ![p] = s]
    /\ tid' = [tid EXCEPT ![p] = t]
    /\ UNCHANGED why

\* Tasks that may still turn signal s into a trade row.
Opening(s) == {p \in Tasks : job[p] = s /\ pc[p] \in InFlightPcs \ {"failed"}}

\* A write that overrules the claim of whoever is opening s right now.
Overrule(s) ==
    /\ uncharged' = uncharged \cup {tid[p] : p \in Opening(s)}
    /\ UNCHANGED <<late, orphan, crashes>>

\* One event loop: while the watcher walks its list without awaiting, no other
\* coroutine runs.
Yielded == queue = {} \/ \E p \in Tasks : KindOf[p] = "watcher" /\ pc[p] # "idle"

-----------------------------------------------------------------------------
(* Signals arriving and leaving                                             *)

\* A signal is stored for later: create_signal, or insert_scan_signal(...,
\* "pending") when price is outside the zone.
CreateSignal(s) ==
    /\ status[s] = "none"
    /\ status' = [status EXCEPT ![s] = "pending"]
    /\ UNCHANGED <<fails, queue, taskVars, bookVars, histVars>>

\* The Cancel button of the pending-signals page.  The page may be stale, so
\* the signal can already be in flight; the UPDATE has no status guard.
Cancel(s) ==
    /\ status[s] \in {"pending", "activating"}
    /\ status' = [status EXCEPT ![s] = "cancelled"]
    /\ Overrule(s)
    /\ UNCHANGED <<fails, queue, taskVars, bookVars>>

\* Slip: no age bound, a claim still in flight is released.
ReleaseInFlight(s) ==
    /\ status[s] = "activating"
    /\ status' = [status EXCEPT ![s] = "pending"]
    /\ UNCHANGED <<fails, queue, taskVars, bookVars, histVars>>

\* Slip: the sweep also takes parked signals.
ReleaseUnknown(s) ==
    /\ status[s] \in {"activating", "unknown"}
    /\ \A p \in Tasks : job[p] # s
    /\ status' = [status EXCEPT ![s] = "pending"]
    /\ UNCHANGED <<fails, queue, taskVars, bookVars, histVars>>

\* release_stranded_activations.  A claim older than fifteen minutes belongs
\* to no live task: every await of an open is bounded by seconds.
Release(s) ==
    /\ status[s] = "activating"
    /\ \A p \in Tasks : job[p] # s
    /\ status' = [status EXCEPT ![s] = "pending"]
    /\ UNCHANGED <<fails, queue, taskVars, bookVars, histVars>>

\* record_close: the position ends and so does its signal.
Close(t) ==
    /\ row[t] = "open"
    /\ row' = [row EXCEPT ![t] = "closed"]
    /\ status' = [status EXCEPT ![owner[t]] = "closed"]
    /\ Overrule(owner[t])
    /\ UNCHANGED <<fails, queue, taskVars, ea, placed, owner>>

-----------------------------------------------------------------------------
(* The watcher: one sequential pass over a list read at the start           *)

WatcherScan(p) ==
    /\ KindOf[p] = "watcher" /\ pc[p] = "idle" /\ queue = {}
    /\ queue' = {s \in Signals : status[s] = "pending"}
    /\ queue' # {}
    /\ UNCHANGED <<status, fails, taskVars, bookVars, histVars>>

\* Older than its window when the pass began: expire_signal, unguarded.
WatcherExpire(p, s) ==
    /\ KindOf[p] = "watcher" /\ pc[p] = "idle" /\ s \in queue
    /\ status' = [status EXCEPT ![s] = "expired"]
    /\ fails' = [fails EXCEPT ![s] = 0]
    /\ queue' = queue \ {s}
    /\ Overrule(s)
    /\ UNCHANGED <<taskVars, bookVars>>

\* Every `continue`/`break` that leaves the signal alone: back-off, price
\* outside the zone, cap, schedule, news, filters, momentum.
WatcherSkip(p, s) ==
    /\ KindOf[p] = "watcher" /\ pc[p] = "idle" /\ s \in queue
    /\ queue' = queue \ {s}
    /\ UNCHANGED <<status, fails, taskVars, bookVars, histVars>>

OpenTradeFor(s) == \E t \in OpenRows : owner[t] = s

\* The duplicate-activation guard found a trade: mark_signal_activated.
WatcherMarkActivated(p, s) ==
    /\ KindOf[p] = "watcher" /\ pc[p] = "idle" /\ s \in queue
    /\ OpenTradeFor(s)
    /\ status' = [status EXCEPT ![s] = "activated"]
    /\ queue' = queue \ {s}
    /\ Overrule(s)
    /\ UNCHANGED <<fails, taskVars, bookVars>>

\* Slip: the attempt is compared before it is counted.
CountFailureOffByOne(s, st) ==
    IF fails[s] < MaxAttempts
    THEN fails' = [fails EXCEPT ![s] = @ + 1] /\ status' = st /\ UNCHANGED histVars
    ELSE /\ fails' = [fails EXCEPT ![s] = 0]
         /\ status' = [st EXCEPT ![s] = "expired"]
         /\ Overrule(s)

\* The third genuine failure abandons the signal: expire_signal, unguarded.
\* st is the status map as the failure handlers before this one left it.
CountFailure(s, st) ==
    IF fails[s] + 1 < MaxAttempts
    THEN /\ fails' = [fails EXCEPT ![s] = @ + 1]
         /\ status' = st
         /\ UNCHANGED histVars
    ELSE /\ fails' = [fails EXCEPT ![s] = 0]
         /\ status' = [st EXCEPT ![s] = "expired"]
         /\ Overrule(s)

-----------------------------------------------------------------------------
(* open_trade_from_signal: resolve, then claim                              *)

Resolvable(s) == status[s] \in {"pending", "active"}

\* The watcher calls open_trade_from_signal and its pass suspends.  The other
\* branch is resolve_open_trade_params refusing, before any claim ("expected"
\* refusals count nothing: WatcherSkip).
WatcherOpen(p, s) ==
    /\ KindOf[p] = "watcher" /\ pc[p] = "idle" /\ s \in queue
    /\ ~OpenTradeFor(s)
    /\ queue' = queue \ {s}
    /\ \/ /\ CountFailure(s, status)
          /\ UNCHANGED taskVars
       \/ /\ Resolvable(s)
          /\ \E t \in FreshIds : Take(p, s, t, "resolve")
          /\ UNCHANGED <<status, fails, histVars>>
    /\ UNCHANGED bookVars

\* The engines open the signal they have just created; the dashboard's page
\* lists pending ones and may be stale: a signal opened since is 'active', which
\* resolves and can be claimed as well.
DirectOpen(p, s) ==
    /\ KindOf[p] = "direct" /\ pc[p] = "idle"
    /\ \/ status[s] = "pending"
       \/ status[s] = "active" /\ \E t \in Trades : owner[t] = s /\ row[t] # "none"
    /\ \E t \in FreshIds : Take(p, s, t, "resolve")
    /\ UNCHANGED <<sigVars, bookVars, histVars>>

\* claim_signal_activation: one UPDATE tests the status and the cap.
CanClaim(s) == status[s] \in {"pending", "active"} /\ SlotsUsed(NoSignal) < Cap

ClaimWon(p) ==
    /\ pc[p] = "resolve" /\ CanClaim(job[p])
    /\ status' = [status EXCEPT ![job[p]] = "activating"]
    /\ Goto(p, "gates")
    /\ UNCHANGED <<fails, queue, bookVars, histVars>>

\* The ValueError leaves before the try, so nothing is routed; the watcher's
\* own handler still counts it, and abandons a signal others may be opening.
ClaimLost(p) ==
    LET s == job[p] IN
    /\ pc[p] = "resolve" /\ ~CanClaim(s)
    /\ IF KindOf[p] = "watcher"
       THEN CountFailure(s, status)
       ELSE UNCHANGED <<status, fails, histVars>>
    /\ Finish(p)
    /\ UNCHANGED <<queue, bookVars>>

\* insert_scan_signal and its siblings: the row is born 'active', unclaimed.
\* The early looks some routes take at the slot count are left to the gate.
InsertActive(p, s) ==
    /\ KindOf[p] \in Unclaimed /\ pc[p] = "idle"
    /\ status[s] = "none"
    /\ status' = [status EXCEPT ![s] = "active"]
    /\ \E t \in FreshIds : Take(p, s, t, "gates") /\ uncharged' = uncharged \cup {t}
    /\ UNCHANGED <<fails, queue, bookVars, late, orphan, crashes>>

ScanOpen(p, s)          == KindOf[p] = "scan" /\ InsertActive(p, s)
GridOpen(p, s)          == KindOf[p] = "grid" /\ InsertActive(p, s)
ImmediateEntry(p, s)    == KindOf[p] = "ime" /\ InsertActive(p, s)
ManualMarketOrder(p, s) == KindOf[p] = "manual" /\ InsertActive(p, s)
BotActivate(p, s)       == KindOf[p] = "bot" /\ InsertActive(p, s)

\* The bot reads the price after its insert: with none it gives up and leaves
\* the row 'active'; outside the zone it hands the row to the watcher.
BotWaits(p) ==
    /\ pc[p] = "gates" /\ KindOf[p] = "bot"
    /\ \/ UNCHANGED status
       \/ status' = [status EXCEPT ![job[p]] = "pending"]
    /\ Finish(p)
    /\ UNCHANGED <<fails, queue, bookVars, histVars>>

-----------------------------------------------------------------------------
(* open_trade: gates, EA handoff, fallback, row                             *)

\* Stand-down, pause, circuit breaker ("expected"); slots, price ("rejected").
Gates(p) ==
    /\ pc[p] = "gates"
    /\ \/ Raise(p, "expected")
       \/ Raise(p, "rejected")
       \/ SlotsUsed(job[p]) < Cap /\ Goto(p, "handoff")
    /\ UNCHANGED <<sigVars, bookVars, histVars>>

\* No EA for this order: a template refuses, anything else goes to the bridge.
HandoffWithoutEa(p) ==
    /\ pc[p] = "handoff"
    /\ \/ /\ KindOf[p] # "grid" /\ Goto(p, "place")
          /\ owner' = [owner EXCEPT ![tid[p]] = job[p]]
       \/ Raise(p, "rejected") /\ UNCHANGED owner
    /\ UNCHANGED <<sigVars, ea, placed, row, histVars>>

\* EABridge.open_trade: the command is written to the EA's socket.
HandoffSend(p) ==
    /\ pc[p] = "handoff"
    /\ \/ KindOf[p] # "grid" /\ Goto(p, "eaWait")
       \/ Goto(p, "tplWait")
    /\ ea' = [ea EXCEPT ![tid[p]] = "queued"]
    /\ owner' = [owner EXCEPT ![tid[p]] = job[p]]
    /\ UNCHANGED <<sigVars, placed, row, histVars>>

\* _send returned False.  A drain that timed out has still buffered the line.
HandoffSendFails(p) ==
    /\ pc[p] = "handoff"
    /\ \/ KindOf[p] # "grid" /\ Goto(p, "ask")
       \/ Raise(p, "unknown")
    /\ \E e \in {"none", "queued"} : ea' = [ea EXCEPT ![tid[p]] = e]
    /\ owner' = [owner EXCEPT ![tid[p]] = job[p]]
    /\ UNCHANGED <<sigVars, placed, row, histVars>>

\* The EA reads the command from its socket, before or after the deadline of its
\* ack: HandleOpenTrade sends the order first and the ack second.
EaExecute(t) ==
    /\ ea[t] = "queued"
    /\ \/ /\ ea' = [ea EXCEPT ![t] = "opened"]
          /\ placed' = [placed EXCEPT ![t] = @ + 1]
          /\ late' = IF \E p \in Tasks : tid[p] = t /\ pc[p] \in {"eaWait", "tplWait", "ask"}
                     THEN late ELSE late \cup {t}
       \/ /\ ea' = [ea EXCEPT ![t] = "refused"]
          /\ UNCHANGED <<placed, late>>
    /\ UNCHANGED <<sigVars, taskVars, owner, row, orphan, uncharged, crashes>>

EaAck(p) ==
    /\ \/ pc[p] \in {"eaWait", "tplWait"} /\ ea[tid[p]] = "opened" /\ Goto(p, "record")
       \/ pc[p] = "eaWait" /\ ea[tid[p]] = "refused" /\ Goto(p, "ask")
       \/ pc[p] = "tplWait" /\ ea[tid[p]] = "refused" /\ Raise(p, "rejected")
    /\ UNCHANGED <<sigVars, bookVars, histVars>>

\* Slip: only a template's wait is bounded.
EaTimeoutTemplatesOnly(p) ==
    /\ pc[p] = "tplWait" /\ Goto(p, "record")
    /\ UNCHANGED <<sigVars, bookVars, histVars>>

\* The ack did not come in time: a template records a placeholder row, any
\* other order asks the broker before falling back.
EaTimeout(p) ==
    /\ \/ pc[p] = "eaWait" /\ Goto(p, "ask")
       \/ pc[p] = "tplWait" /\ Goto(p, "record")
    /\ UNCHANGED <<sigVars, bookVars, histVars>>

\* Slip: the fallback sends without asking (before stage3/010).
AskBlind(p) ==
    /\ pc[p] = "ask" /\ Goto(p, "place")
    /\ UNCHANGED <<sigVars, bookVars, histVars>>

\* dedup.find_trade, when the broker answers: an open position or an opening
\* deal carries this id in its comment, whichever path placed it.
BrokerHas(t) == placed[t] > 0

\* _resolve_fallback_send: found -> adopt, could not look -> unknown,
\* a reachable broker without it -> send.
Ask(p) ==
    /\ pc[p] = "ask"
    /\ \/ BrokerHas(tid[p]) /\ Goto(p, "record")
       \/ ~BrokerHas(tid[p]) /\ Goto(p, "place")
       \/ Raise(p, "unknown")
    /\ UNCHANGED <<sigVars, bookVars, histVars>>

Place(p) ==
    /\ pc[p] = "place"
    /\ \/ \* filled
          /\ placed' = [placed EXCEPT ![tid[p]] = @ + 1]
          /\ Goto(p, "record")
       \/ \* the broker said no
          /\ Raise(p, "rejected") /\ UNCHANGED placed
       \/ \* no usable answer: it may or may not be on the book
          /\ Raise(p, "unknown")
          /\ \/ placed' = [placed EXCEPT ![tid[p]] = @ + 1]
             \/ UNCHANGED placed
    /\ UNCHANGED <<sigVars, ea, owner, row, histVars>>

\* insert_trade_and_activate_signal: the status write has no guard.
Record(p) ==
    /\ pc[p] = "record"
    /\ row' = [row EXCEPT ![tid[p]] = "open"]
    /\ status' = [status EXCEPT ![job[p]] = "active"]
    /\ fails' = IF KindOf[p] = "watcher" THEN [fails EXCEPT ![job[p]] = 0] ELSE fails
    /\ Finish(p)
    /\ UNCHANGED <<queue, ea, placed, owner, histVars>>

\* The row is written, and setting its exact levels then raises inside the same
\* try: the route's handler runs although the position is open and on record.
RecordThenFails(p) ==
    LET s == job[p] IN
    /\ pc[p] = "record"
    /\ row' = [row EXCEPT ![tid[p]] = "open"]
    /\ \/ /\ KindOf[p] = "watcher"
          /\ CountFailure(s, [status EXCEPT ![s] = "active"])
       \/ /\ KindOf[p] = "scan"
          /\ status' = [status EXCEPT ![s] = "pending"]
          /\ UNCHANGED <<fails, histVars>>
       \/ /\ KindOf[p] = "ime"
          /\ status' = [status EXCEPT ![s] = "deleted"]
          /\ UNCHANGED <<fails, histVars>>
    /\ Finish(p)
    /\ UNCHANGED <<queue, ea, placed, owner>>

-----------------------------------------------------------------------------
(* What each route does with a failed open                                  *)

Park(s)    == IF status[s] \in {"activating", "active"} THEN "unknown" ELSE status[s]
Restore(s) == IF status[s] = "activating" THEN "pending" ELSE status[s]
Reset(s)   == IF status[s] # "unknown" THEN "pending" ELSE status[s]

\* _route_failed_open
Routed(p) ==
    LET s == job[p] IN
    [status EXCEPT ![s] = IF why[p] = "unknown" THEN Park(s) ELSE Restore(s)]

FailDirect(p) ==
    /\ pc[p] = "failed" /\ KindOf[p] = "direct"
    /\ status' = Routed(p)
    /\ Finish(p)
    /\ UNCHANGED <<fails, queue, bookVars, histVars>>

\* The watcher counts every failure that is not an expected refusal.
FailWatcher(p) ==
    /\ pc[p] = "failed" /\ KindOf[p] = "watcher"
    /\ IF why[p] = "expected"
       THEN status' = Routed(p) /\ UNCHANGED <<fails, histVars>>
       ELSE CountFailure(job[p], Routed(p))
    /\ Finish(p)
    /\ UNCHANGED <<queue, bookVars>>

\* Slip: the scan path resets on every exception (before 2026-08-31).
FailScanResets(p) ==
    LET s == job[p] IN
    /\ pc[p] = "failed" /\ KindOf[p] = "scan"
    /\ status' = [status EXCEPT ![s] = Reset(s)]
    /\ Finish(p)
    /\ UNCHANGED <<fails, queue, bookVars, histVars>>

\* The scan path parks or resets.
FailScan(p) ==
    LET s == job[p] IN
    /\ pc[p] = "failed" /\ KindOf[p] = "scan"
    /\ status' = [status EXCEPT ![s] = IF why[p] = "unknown" THEN Park(s) ELSE Reset(s)]
    /\ Finish(p)
    /\ UNCHANGED <<fails, queue, bookVars, histVars>>

\* delete_failed_instant_signal, whatever the exception.
FailImmediate(p) ==
    /\ pc[p] = "failed" /\ KindOf[p] = "ime"
    /\ status' = [status EXCEPT ![job[p]] = "deleted"]
    /\ Finish(p)
    /\ UNCHANGED <<fails, queue, bookVars, histVars>>

\* A grid template reports the failure, a manual order and the bot pass it on;
\* the row stays 'active'.
FailLeft(p) ==
    /\ pc[p] = "failed" /\ KindOf[p] \in {"grid", "manual", "bot"}
    /\ Finish(p)
    /\ UNCHANGED <<status, fails, queue, bookVars, histVars>>

\* The process dies: every coroutine and every module-level dict is gone; the
\* database, the broker and the EA are not.
Crash ==
    /\ crashes < MaxCrashes
    /\ crashes' = crashes + 1
    /\ orphan' = orphan \cup {t \in Trades : Held(t)}
    /\ fails' = [s \in Signals |-> 0]
    /\ queue' = {}
    /\ pc' = [p \in Tasks |-> "idle"]
    /\ job' = [p \in Tasks |-> NoSignal]
    /\ tid' = [p \in Tasks |-> NoTrade]
    /\ why' = [p \in Tasks |-> "none"]
    /\ UNCHANGED <<status, bookVars, late, uncharged>>

-----------------------------------------------------------------------------
WatcherPass(p) ==
    \E s \in Signals : \/ WatcherExpire(p, s)        \/ WatcherSkip(p, s)
                       \/ WatcherMarkActivated(p, s) \/ WatcherOpen(p, s)

Start(p) ==
    \E s \in Signals : \/ DirectOpen(p, s)     \/ ScanOpen(p, s)
                       \/ GridOpen(p, s)       \/ ImmediateEntry(p, s)
                       \/ BotActivate(p, s)    \/ ManualMarketOrder(p, s)

\* A task that has begun; it runs when the event loop is free.
Continue(p) ==
    /\ Yielded
    /\ \/ ClaimWon(p) \/ ClaimLost(p) \/ Gates(p)
       \/ HandoffWithoutEa(p) \/ HandoffSend(p) \/ HandoffSendFails(p)
       \/ EaAck(p) \/ EaTimeout(p) \/ Ask(p) \/ Place(p) \/ Record(p)
       \/ RecordThenFails(p)
       \/ FailDirect(p) \/ FailWatcher(p)
       \/ FailScan(p) \/ FailImmediate(p) \/ FailLeft(p) \/ BotWaits(p)

Next ==
    \/ \E s \in Signals : CreateSignal(s) \/ Cancel(s) \/ Release(s)
    \/ \E t \in Trades : Close(t) \/ EaExecute(t)
    \/ \E p \in Tasks : WatcherScan(p) \/ WatcherPass(p) \/ Continue(p)
                        \/ (Yielded /\ Start(p))
    \/ Crash

Spec == Init /\ [][Next]_vars

\* The watcher's pass runs to its end; asyncio's ready queue is first in, first
\* out, so a task that is ready again and again is run; reconciliation sweeps
\* stranded claims on every cycle.
Fairness ==
    /\ \A p \in Tasks : WF_vars(WatcherPass(p)) /\ SF_vars(Continue(p))
    /\ \A s \in Signals : WF_vars(Release(s))

FairSpec == Spec /\ Fairness

-----------------------------------------------------------------------------
(* Correctness                                                              *)

\* The single conditional UPDATE of claim_signal_activation: at no moment do
\* two coroutines hold an open of the same signal in flight.
ClaimExclusive ==
    \A p, q \in Tasks :
        /\ pc[p] \in InFlightPcs /\ pc[q] \in InFlightPcs /\ job[p] = job[q]
        => p = q

\* _resolve_fallback_send asks the broker before it re-sends: one trade id is
\* never on the book twice, unless the EA acted on the command only after the
\* broker had been asked.
OneOrderPerTrade == \A t \in Trades : placed[t] > 1 => t \in late

\* _route_failed_open and its siblings: a signal handed back to the scheduler
\* left no order at the broker that nobody has a row for, unless the EA acted
\* late or the process died in mid-open.
RequeuedIsClean ==
    \A t \in Trades :
        /\ placed[t] > 0 /\ row[t] = "none" /\ ~Held(t)
        /\ status[owner[t]] = "pending"
        => t \in late \cup orphan

\* The cap lives in the claim's WHERE clause: opens that kept their claim, in
\* flight or on the book, never exceed max_open_trades.
ChargedRows  == OpenRows \ uncharged
ChargedOpens == {p \in Tasks : /\ pc[p] \in InFlightPcs \ {"failed"}
                               /\ tid[p] \notin uncharged}
SlotsWithinCap == Cardinality(ChargedRows) + Cardinality(ChargedOpens) <= Cap

\* park_signal_unknown / reset_signal_to_pending / release_stranded_activations:
\* no step of any actor puts a signal whose send got no answer back in play.
UnknownNeverRequeued ==
    [][\A s \in Signals : status[s] = "unknown"
            => status'[s] \notin {"pending", "activating", "active"}]_vars

\* Every exit of an open moves its claim on, and the sweep releases the claim
\* of a task that died: a claim never holds its slot for ever.
ClaimsSettle ==
    \A s \in Signals : status[s] = "activating" ~> status[s] # "activating"
=============================================================================
