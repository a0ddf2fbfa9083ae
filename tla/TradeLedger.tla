----------------------------- MODULE TradeLedger -----------------------------
(***************************************************************************)
(* How a position ends, and what the books say about it afterwards.        *)
(*                                                                         *)
(* The broker holds the lots; the trade row and the account balance are    *)
(* the application's copy.  Four kinds of task bring the copy up to date:  *)
(* the TP ladder's fast loop (partial closes), the monitor loop (stop      *)
(* reconciliation, profit target, position sync), the reader of the EA's   *)
(* events, and a close asked for by the user.  A detached task looks for   *)
(* what the last TP level left behind, and the profit sync later replaces  *)
(* the estimate with the broker's own figure.                              *)
(*                                                                         *)
(* The EA runs in the broker's terminal.  What it remembers of a ticket is *)
(* gone when it is reloaded, and what it reports while the socket is down  *)
(* is gone for good; the application restores both when the EA says hello. *)
(*                                                                         *)
(* Every database call is one step of the single DB worker; the tasks      *)
(* interleave between the read of a row and the write computed from it.    *)
(*                                                                         *)
(* Source: services/trading/{close_trade,partial_close,profit_sync,        *)
(* trade_repo}.py, services/positions/{monitor_loop,tp_ladder}.py,         *)
(* services/broker/{position_sync.py,ea_bridge/}, runtime.py,              *)
(* mql5/ForexTraderBridge.mq5.                                             *)
(***************************************************************************)
EXTENDS Integers, Sequences, FiniteSets

CONSTANTS
    Trades,      \* rows of vantage_simulated_trades, all with a broker ticket
    Tasks,
    KindOf,      \* [Tasks -> Kinds]
    Managed,     \* managed_by: [Trades -> {"ea", "python"}]
    Lots,        \* lot_size in tranches
    Levels,      \* number of TP levels; the last one closes what remains
    Win, Loss,   \* profit of one lot closed at a target, at the stop
    Fee,         \* what the broker takes per deal and the estimate leaves out
    Lag,         \* may the deal history lag behind the position list?
    Blind,       \* may the position read of the stop check fail?
    MaxFaults,   \* process deaths and lost EA connections
    NoTrade, NoStamp

Kinds == {"ladder", "finisher", "monitor", "ea", "user", "sync"}

ASSUME LedgerAssumption ==
    /\ KindOf \in [Tasks -> Kinds]
    /\ \A p, q \in Tasks : KindOf[p] = "ladder" /\ KindOf[q] = "ladder" => p = q
    /\ Managed \in [Trades -> {"ea", "python"}]
    /\ Lots \in Nat \ {0} /\ Levels \in Nat \ {0}
    /\ Win \in Int /\ Loss \in Int /\ Fee \in Int
    /\ Lag \in BOOLEAN /\ Blind \in BOOLEAN
    /\ MaxFaults \in Nat
    /\ NoTrade \notin Trades
    /\ NoStamp \notin Int

VARIABLES
    held, deals,   \* broker: lots still open, and realised profit, per trade
    fills,         \* broker: [Trades -> [level -> closes sent for that level]]
    seen,          \* what the deal history shows: [lots closed, sum of profit]
    watched,       \* EA: the tickets in g_trades
    armed,         \* EA: [Trades -> levels not in triggered[] of its entry]
    hello,         \* trades a new EA connection has still to be asked about
    inbox,         \* events the EA has written and the reader has not read
    st, rem, net,  \* the row: status, remaining_lots, net_pnl
    stamp,         \* the row: mt5_profit, NoStamp while NULL
    taken,         \* vantage_partial_closes of the TP levels: <<n, lots, gain>>
    credit,        \* what vantage_simulation_account.balance owes to this trade
    pc, job,       \* per task
    due,           \* trades whose last level is booked and whose rest is unchecked
    told, scored,  \* close announcements sent, outcomes fed to the breaker
    raced,         \* history: which races a trade has been through
    faults

eaVars     == <<watched, armed, hello>>
brokerVars == <<held, deals, fills, seen, eaVars>>
rowVars    == <<st, rem, net, stamp, taken, credit>>
taskVars   == <<pc, job, due>>
tallyVars  == <<told, scored, raced>>
vars == <<held, deals, fills, seen, watched, armed, hello, inbox, st, rem, net,
          stamp, taken, credit, pc, job, due, told, scored, raced, faults>>

Gains == {Win, Loss}
NoJob == [trade |-> NoTrade, level |-> 0, lots |-> 0, gain |-> 0, rem |-> 0,
          net |-> 0]
Jobs  == [trade : Trades \cup {NoTrade}, level : 0..Levels, lots : Int,
          gain : Int, rem : Int, net : Int]
Pcs   == {"idle", "tpSend", "slCheck", "posSync", "closeSend", "partRead",
          "partApply", "fullRead", "fullApply", "residualSend", "syncApply"}
Events == [type : {"tp_hit", "trade_closed", "gone"}, trade : Trades,
           level : 0..Levels, gain : Int, lots : 0..Lots]
\* "overwrite": a full close wrote over what was booked after it had read the
\* row; "late": something was booked on a row already closed; "reopened";
\* "restamp": a second stamp replaced the first; "blind": the stop check closed
\* the row without having read the positions; "torn": the process died with
\* the trade in a task's or an event's hands; "unanswered": the answer to a
\* partial close was lost; "guess": lots were booked as closed because the
\* broker held fewer than the row, not because their close was reported;
\* "byhand": lots were closed in MT5 by hand; "lost": a report of the EA was;
\* "rearmed": a reloaded EA was told to take a level it had taken; "overlap":
\* the readers of an old and a new EA connection booked at the same time;
\* "unverified": the EA said the ticket is gone and the history had no deal;
\* "lagged": a profit was read off a history that lagged.
Races == {"overwrite", "late", "reopened", "restamp", "blind", "torn",
          "unanswered", "guess", "byhand", "lost", "rearmed", "overlap",
          "unverified", "lagged"}

ByEa == {t \in Trades : Managed[t] = "ea"}

TypeOK ==
    /\ held \in [Trades -> 0..Lots]
    /\ deals \in [Trades -> Int]
    /\ fills \in [Trades -> [1..Levels -> Nat]]
    /\ seen \in [Trades -> [lots : 0..Lots, sum : Int]]
    /\ watched \in SUBSET ByEa /\ hello \in SUBSET ByEa
    /\ armed \in [Trades -> SUBSET (1..Levels)]
    /\ inbox \in Seq(Events)
    /\ st \in [Trades -> {"open", "closed"}]
    /\ rem \in [Trades -> 0..Lots]
    /\ net \in [Trades -> Int]
    /\ stamp \in [Trades -> Int \cup {NoStamp}]
    /\ taken \in [Trades -> SUBSET ((1..Levels) \X Int \X Int)]
    /\ credit \in [Trades -> Int]
    /\ pc \in [Tasks -> Pcs]
    /\ job \in [Tasks -> Jobs]
    /\ due \in SUBSET Trades
    /\ told \in [Trades -> Nat] /\ scored \in [Trades -> Nat]
    /\ raced \in [Trades -> SUBSET Races]
    /\ faults \in 0..MaxFaults

Init ==
    /\ held = [t \in Trades |-> Lots]
    /\ deals = [t \in Trades |-> 0]
    /\ fills = [t \in Trades |-> [n \in 1..Levels |-> 0]]
    /\ seen = [t \in Trades |-> [lots |-> 0, sum |-> 0]]
    /\ watched = ByEa
    /\ armed = [t \in Trades |-> 1..Levels]
    /\ hello = {}
    /\ inbox = <<>>
    /\ st = [t \in Trades |-> "open"]
    /\ rem = [t \in Trades |-> Lots]
    /\ net = [t \in Trades |-> 0]
    /\ stamp = [t \in Trades |-> NoStamp]
    /\ taken = [t \in Trades |-> {}]
    /\ credit = [t \in Trades |-> 0]
    /\ pc = [p \in Tasks |-> "idle"]
    /\ job = [p \in Tasks |-> NoJob]
    /\ due = {}
    /\ told = [t \in Trades |-> 0]
    /\ scored = [t \in Trades |-> 0]
    /\ raced = [t \in Trades |-> {}]
    /\ faults = 0

-----------------------------------------------------------------------------
(* Helpers                                                                  *)

Lesser(a, b) == IF a < b THEN a ELSE b

Goto(p, loc) == pc' = [pc EXCEPT ![p] = loc] /\ UNCHANGED <<job, due>>

Begin(p, loc, j) ==
    /\ pc' = [pc EXCEPT ![p] = loc]
    /\ job' = [job EXCEPT ![p] = j]
    /\ UNCHANGED due

Finish(p) == Begin(p, "idle", NoJob)

\* The broker closes q lots of t, g profit each.  Without lag the deal is in
\* the history at once.
BrokerClose(t, q, g) ==
    /\ held' = [held EXCEPT ![t] = @ - q]
    /\ deals' = [deals EXCEPT ![t] = @ + q * g - Fee]
    /\ IF Lag THEN UNCHANGED seen
       ELSE seen' = [seen EXCEPT ![t] = [lots |-> Lots - held'[t], sum |-> deals'[t]]]

Mark(t, tags) == raced' = [raced EXCEPT ![t] = @ \cup tags]

-----------------------------------------------------------------------------
(* The broker, and the EA in its terminal                                   *)

Current(t) == [lots |-> Lots - held[t], sum |-> deals[t]]

TpHit(t, n, q) ==
    [type |-> "tp_hit", trade |-> t, level |-> n, gain |-> Win, lots |-> q]

\* DoPartialClose takes one tranche, DoCloseAll the rest, at a level not yet
\* triggered.  SendJson drops the report when the socket is down.
EaTakeProfit(t, n, q) ==
    /\ t \in watched /\ n \in armed[t] /\ held[t] > 0 /\ q \in {1, held[t]}
    /\ BrokerClose(t, q, Win)
    /\ fills' = [fills EXCEPT ![t][n] = @ + 1]
    /\ armed' = [armed EXCEPT ![t] = @ \ {n}]
    /\ \/ inbox' = Append(inbox, TpHit(t, n, q)) /\ UNCHANGED raced
       \/ t \in hello /\ UNCHANGED inbox /\ Mark(t, {"lost"})
    /\ UNCHANGED <<watched, hello, rowVars, taskVars, told, scored, faults>>

\* One close is reported again: the reader sees the same level, lots and price.
EaRepeat(t, n) ==
    /\ t \in watched /\ held[t] > 0 /\ fills[t][n] > 0
    /\ \A i \in 1..Len(inbox) : inbox[i].trade = t => inbox[i].level # n
    /\ inbox' = Append(inbox, TpHit(t, n, 1))
    /\ UNCHANGED <<brokerVars, rowVars, taskVars, tallyVars, faults>>

\* The position ends at the broker: its stop or target, or a hand in MT5.
BrokerExit(t, g) ==
    /\ held[t] > 0
    /\ BrokerClose(t, held[t], g)
    /\ UNCHANGED <<fills, eaVars, inbox, rowVars, taskVars, tallyVars, faults>>

\* A hand in MT5 closes a part of it; nobody reports that.
ByHand(t, g) ==
    /\ held[t] > 1
    /\ BrokerClose(t, 1, g)
    /\ Mark(t, {"byhand"})
    /\ UNCHANGED <<fills, eaVars, inbox, rowVars, taskVars, told, scored, faults>>

\* CheckForClosures: a ticket the EA watches is gone.  It says so once, to
\* whoever is connected, and forgets the ticket (RemoveManaged).  The report has
\* no price ("gone") when the terminal shows no deal.
EaReportClosed(t, g, type) ==
    /\ t \in watched /\ held[t] = 0
    /\ watched' = watched \ {t}
    /\ \/ inbox' = Append(inbox, [type |-> type, trade |-> t, level |-> 0,
                                  gain |-> g, lots |-> 0])
       \/ t \in hello /\ UNCHANGED inbox
    /\ UNCHANGED <<held, deals, fills, seen, armed, hello, rowVars, taskVars,
                   tallyVars, faults>>

\* The EA's socket breaks, or the EA is reloaded and g_trades with it.  Of what
\* it has written some first part arrives.  It reconnects and says hello.
LinkLost ==
    /\ faults < MaxFaults
    /\ faults' = faults + 1
    /\ hello' = ByEa
    /\ watched' \in {watched, {}}
    /\ \E k \in 0..Len(inbox) :
          /\ inbox' = SubSeq(inbox, 1, k)
          /\ raced' = [t \in Trades |->
                IF \E i \in (k + 1)..Len(inbox) : inbox[i].trade = t
                THEN raced[t] \cup {"lost"} ELSE raced[t]]
    /\ UNCHANGED <<held, deals, fills, seen, armed, rowVars, taskVars, told, scored>>

\* The levels HandleRestoreTrade leaves armed: those not covered by the lots
\* the row says are gone.
Uncovered(t) == {n \in 1..Levels : n > Lots - rem[t]}

\* On hello, _restore_open_trades sends every open row the EA manages, and
\* HandleRestoreTrade answers: gone, known already, or taken on again.
Restore(t) ==
    /\ t \in hello
    /\ hello' = hello \ {t}
    /\ \/ /\ st[t] = "closed" \/ (held[t] > 0 /\ t \in watched)
          /\ UNCHANGED <<watched, armed, inbox, raced>>
       \/ /\ st[t] = "open" /\ held[t] = 0
          /\ inbox' = Append(inbox, [type |-> "gone", trade |-> t, level |-> 0,
                                     gain |-> Loss, lots |-> 0])
          /\ UNCHANGED <<watched, armed, raced>>
       \/ /\ st[t] = "open" /\ held[t] > 0 /\ t \notin watched
          /\ watched' = watched \cup {t}
          /\ armed' = [armed EXCEPT ![t] = Uncovered(t)]
          /\ IF \E n \in Uncovered(t) : fills[t][n] > 0
             THEN Mark(t, {"rearmed"}) ELSE UNCHANGED raced
          /\ UNCHANGED inbox
    /\ UNCHANGED <<held, deals, fills, seen, rowVars, taskVars, told, scored, faults>>

HistoryArrives(t) ==
    /\ Lag
    /\ seen[t] # Current(t)
    /\ seen' = [seen EXCEPT ![t] = Current(t)]
    /\ UNCHANGED <<held, deals, fills, eaVars, inbox, rowVars, taskVars, tallyVars, faults>>

-----------------------------------------------------------------------------
(* Who decides to close, and what                                           *)

\* The other readers of EA events: a new connection replaces the writer of the
\* old one, whose reader may still be applying what it has read.
Others(p) == {q \in Tasks \ {p} : KindOf[q] = "ea" /\ pc[q] # "idle"}

WorkOn(m) ==
    [NoJob EXCEPT !.trade = m.trade, !.level = m.level, !.lots = m.lots, !.gain = m.gain]

\* Slip: a close the EA reports without a price is dropped, not verified.
EaEventDropsClose(p) ==
    /\ KindOf[p] = "ea" /\ pc[p] = "idle" /\ inbox # <<>>
    /\ LET m == Head(inbox) IN
       \/ m.type = "tp_hit" /\ Begin(p, "partRead", WorkOn(m))
       \/ m.type = "trade_closed" /\ Begin(p, "fullRead", WorkOn(m))
       \/ m.type = "gone" /\ UNCHANGED taskVars
    /\ inbox' = Tail(inbox)
    /\ UNCHANGED <<brokerVars, rowVars, tallyVars, faults>>

\* The reader of the EA's socket handles one event at a time.  A close without
\* a price counts only if the history shows a closing deal (_broker_exit_price).
EaEvent(p) ==
    /\ KindOf[p] = "ea" /\ pc[p] = "idle" /\ inbox # <<>>
    /\ Others(p) # {} => faults > 0
    /\ LET m == Head(inbox) IN
       \/ /\ m.type = "tp_hit"
          /\ Begin(p, "partRead", WorkOn(m))
          /\ IF \E q \in Others(p) : job[q].trade = m.trade
             THEN Mark(m.trade, {"overlap"}) ELSE UNCHANGED raced
       \/ /\ m.type = "trade_closed" \/ (m.type = "gone" /\ seen[m.trade].lots > 0)
          /\ Begin(p, "fullRead", WorkOn(m))
          /\ UNCHANGED raced
       \/ /\ m.type = "gone" /\ seen[m.trade].lots = 0
          /\ UNCHANGED taskVars
          /\ Mark(m.trade, {"unverified"})
    /\ inbox' = Tail(inbox)
    /\ UNCHANGED <<brokerVars, rowVars, told, scored, faults>>

\* Slip: the markers are kept in memory only and the cache has been dropped.
NothingTriggered(t) == {}

\* get_triggered_tps: the levels with a TP<n> marker.
Triggered(t) == {x[1] : x \in taken[t]}

\* run_tp_ladder reaches level n: the lower ones are booked, or were refused on
\* this very pass, which leaves nothing behind.
LadderHit(p, t, n) ==
    /\ KindOf[p] = "ladder" /\ pc[p] = "idle" /\ Managed[t] = "python"
    /\ st[t] = "open" /\ rem[t] > 0 /\ n \notin Triggered(t)
    /\ Begin(p, "tpSend",
             [NoJob EXCEPT !.trade = t, !.level = n, !.gain = Win,
                           !.lots = IF n = Levels THEN rem[t] ELSE 1])
    /\ UNCHANGED <<brokerVars, inbox, rowVars, tallyVars, faults>>

\* bridge.partial_close: done, refused (the next poll tries again), or done
\* with the answer lost, which the handler cannot tell from a refusal.
LadderSend(p) ==
    LET t == job[p].trade
        n == job[p].level
        q == Lesser(job[p].lots, held[t]) IN
    /\ pc[p] = "tpSend"
    /\ \/ /\ held[t] > 0
          /\ BrokerClose(t, q, job[p].gain)
          /\ fills' = [fills EXCEPT ![t][n] = @ + 1]
          /\ \/ /\ Begin(p, "partRead", [job[p] EXCEPT !.lots = q])
                /\ UNCHANGED raced
             \/ Finish(p) /\ Mark(t, {"unanswered"})
       \/ Finish(p) /\ UNCHANGED <<held, deals, fills, seen, raced>>
    /\ UNCHANGED <<eaVars, inbox, rowVars, told, scored, faults>>

\* A cycle of the monitor takes up one of the open trades it read at its start:
\* the stop is crossed, the profit target is met, or the positions are synced.
MonitorPick(p, t, loc) ==
    /\ KindOf[p] = "monitor" /\ pc[p] = "idle" /\ st[t] = "open"
    /\ loc = "posSync" => Managed[t] = "python"
    /\ Begin(p, loc, [NoJob EXCEPT !.trade = t, !.rem = rem[t],
                                   !.gain = IF loc = "closeSend" THEN Win ELSE Loss])
    /\ UNCHANGED <<brokerVars, inbox, rowVars, tallyVars, faults>>

\* Slip: the remaining volume is not compared, a crossed stop is a close.
StopCheckTrusting(p) ==
    /\ pc[p] = "slCheck"
    /\ Goto(p, "fullRead")
    /\ UNCHANGED <<brokerVars, inbox, rowVars, tallyVars, faults>>

\* reconcile_sl_hit: compare the broker's volume with the row as the cycle read
\* it.  A failed read falls through to a full close.
StopCheck(p) ==
    LET t == job[p].trade IN
    /\ pc[p] = "slCheck"
    /\ \/ /\ held[t] >= job[p].rem /\ held[t] > 0
          /\ Finish(p) /\ UNCHANGED raced
       \/ /\ held[t] \in 1..(job[p].rem - 1)
          /\ Begin(p, "partRead", [job[p] EXCEPT !.lots = job[p].rem - held[t]])
          /\ Mark(t, {"guess"})
       \/ /\ held[t] = 0
          /\ Goto(p, "fullRead") /\ UNCHANGED raced
       \/ /\ Blind /\ held[t] > 0
          /\ Goto(p, "fullRead") /\ Mark(t, {"blind"})
    /\ UNCHANGED <<brokerVars, inbox, rowVars, told, scored, faults>>

\* Slip: the volume closed in all is compared with the volume left.
PositionSyncExact(p) ==
    LET t == job[p].trade IN
    /\ pc[p] = "posSync"
    /\ \/ ~(held[t] = 0 /\ seen[t].lots = job[p].rem) /\ Finish(p)
       \/ held[t] = 0 /\ seen[t].lots = job[p].rem /\ Goto(p, "fullRead")
    /\ UNCHANGED <<brokerVars, inbox, rowVars, tallyVars, faults>>

\* sync_closed_mt5_positions: the ticket has been missing often enough.  Fewer
\* lots in the history than in the row is taken for a partial close.
PositionSync(p) ==
    LET t == job[p].trade IN
    /\ pc[p] = "posSync"
    /\ \/ held[t] > 0 /\ Finish(p) /\ UNCHANGED raced
       \/ /\ held[t] = 0 /\ seen[t].lots \in 1..(job[p].rem - 1)
          /\ Begin(p, "partRead", [job[p] EXCEPT !.lots = seen[t].lots])
          /\ Mark(t, {"guess"})
       \/ /\ held[t] = 0 /\ seen[t].lots \notin 1..(job[p].rem - 1)
          /\ Goto(p, "fullRead") /\ UNCHANGED raced
    /\ UNCHANGED <<brokerVars, inbox, rowVars, told, scored, faults>>

\* close_trade: the row is open when the request arrives.
UserClose(p, t, g) ==
    /\ KindOf[p] = "user" /\ pc[p] = "idle" /\ st[t] = "open"
    /\ Begin(p, "closeSend", [NoJob EXCEPT !.trade = t, !.gain = g])
    /\ UNCHANGED <<brokerVars, inbox, rowVars, tallyVars, faults>>

\* bridge.close_position: done and recorded, done with the answer lost, or
\* refused.  Only a confirmed close goes on to record_close.
CloseSend(p) ==
    LET t == job[p].trade IN
    /\ pc[p] \in {"closeSend", "residualSend"}
    /\ \/ /\ held[t] > 0
          /\ BrokerClose(t, held[t], job[p].gain)
          /\ Goto(p, "fullRead") \/ Finish(p)
       \/ Finish(p) /\ UNCHANGED <<held, deals, seen>>
    /\ UNCHANGED <<fills, eaVars, inbox, rowVars, tallyVars, faults>>

-----------------------------------------------------------------------------
(* partial_close_trade                                                      *)

PartialRead(p) ==
    LET t == job[p].trade IN
    /\ pc[p] = "partRead"
    /\ IF st[t] = "open"
       THEN Begin(p, "partApply",
                  [job[p] EXCEPT !.lots = Lesser(@, rem[t]), !.rem = rem[t]])
       ELSE Finish(p)
    /\ UNCHANGED <<brokerVars, inbox, rowVars, tallyVars, faults>>

\* Slip: the duplicate report is not recognised (before migration 30).
NeverBooked(t, j) == FALSE

\* The unique index of migration 32: one close reported twice is one close.
AlreadyBooked(t, j) == j.level > 0 /\ <<j.level, j.lots, j.gain>> \in taken[t]

\* Slip: remaining_lots is lowered in the UPDATE, below zero when another task
\* has booked the same lots since the read.
PartialApplyFresh(p) ==
    LET t == job[p].trade
        j == job[p] IN
    /\ pc[p] = "partApply"
    /\ rem' = [rem EXCEPT ![t] = @ - j.lots]
    /\ net' = [net EXCEPT ![t] = @ + j.lots * j.gain]
    /\ credit' = [credit EXCEPT ![t] = @ + j.lots * j.gain]
    /\ Finish(p)
    /\ UNCHANGED <<brokerVars, inbox, taken, st, stamp, due, told, scored, raced, faults>>

\* apply_partial_close_with_reason: remaining_lots is written as computed from
\* the read, the money is added; nothing looks at the status again.
PartialApply(p) ==
    LET t == job[p].trade
        j == job[p]
        left == j.rem - j.lots
        money == j.lots * j.gain
        shut == left <= 0 IN
    /\ pc[p] = "partApply"
    /\ IF AlreadyBooked(t, j)
       THEN UNCHANGED <<rowVars, tallyVars>>
       ELSE /\ rem' = [rem EXCEPT ![t] = left]
            /\ net' = [net EXCEPT ![t] = @ + money]
            /\ credit' = [credit EXCEPT ![t] = @ + money]
            /\ taken' = IF j.level = 0 THEN taken
                        ELSE [taken EXCEPT ![t] = @ \cup {<<j.level, j.lots, j.gain>>}]
            /\ st' = IF shut THEN [st EXCEPT ![t] = "closed"] ELSE st
            /\ IF st[t] = "closed" \/ stamp[t] # NoStamp
               THEN Mark(t, {"late"}) ELSE UNCHANGED raced
            /\ UNCHANGED <<stamp, told, scored>>
    /\ pc' = [pc EXCEPT ![p] = "idle"]
    /\ job' = [job EXCEPT ![p] = NoJob]
    /\ due' = IF shut /\ KindOf[p] = "ladder" THEN due \cup {t} ELSE due
    /\ UNCHANGED <<brokerVars, inbox, faults>>

\* _close_full_after_tps, a task of its own: if the broker still holds lots the
\* row is reopened and the rest is closed; otherwise the close is announced.
Residual(p, t) ==
    /\ KindOf[p] = "finisher" /\ pc[p] = "idle" /\ t \in due
    /\ due' = due \ {t}
    /\ \/ /\ held[t] > 0
          /\ st' = [st EXCEPT ![t] = "open"]
          /\ rem' = [rem EXCEPT ![t] = held[t]]
          /\ Mark(t, {"reopened"})
          /\ pc' = [pc EXCEPT ![p] = "residualSend"]
          /\ job' = [job EXCEPT ![p] = [NoJob EXCEPT !.trade = t, !.gain = Win]]
          /\ UNCHANGED <<net, stamp, taken, credit, told, scored>>
       \/ /\ held[t] = 0 \/ Blind
          /\ told' = [told EXCEPT ![t] = @ + 1]
          /\ IF held[t] > 0 THEN Mark(t, {"blind"}) ELSE UNCHANGED raced
          /\ UNCHANGED <<pc, job, rowVars, scored>>
    /\ UNCHANGED <<brokerVars, inbox, faults>>

-----------------------------------------------------------------------------
(* record_close                                                             *)

FullRead(p) ==
    LET t == job[p].trade IN
    /\ pc[p] = "fullRead"
    /\ Begin(p, "fullApply", [job[p] EXCEPT !.rem = rem[t], !.net = net[t]])
    /\ UNCHANGED <<brokerVars, inbox, rowVars, tallyVars, faults>>

\* Slip: no compare-and-set on the status (before stage1 phase2/040).
FullApplyUnguarded(p) ==
    LET t == job[p].trade
        money == job[p].rem * job[p].gain IN
    /\ pc[p] = "fullApply"
    /\ st' = [st EXCEPT ![t] = "closed"]
    /\ rem' = [rem EXCEPT ![t] = 0]
    /\ net' = [net EXCEPT ![t] = job[p].net + money]
    /\ credit' = [credit EXCEPT ![t] = @ + money]
    /\ told' = [told EXCEPT ![t] = @ + 1]
    /\ scored' = [scored EXCEPT ![t] = @ + 1]
    /\ Finish(p)
    /\ UNCHANGED <<brokerVars, inbox, stamp, taken, raced, faults>>

\* Slip: the loser of the compare-and-set is not told that it lost.
FullApplyLoud(p) ==
    LET t == job[p].trade
        money == job[p].rem * job[p].gain IN
    /\ pc[p] = "fullApply"
    /\ IF st[t] = "open"
       THEN /\ st' = [st EXCEPT ![t] = "closed"]
            /\ rem' = [rem EXCEPT ![t] = 0]
            /\ net' = [net EXCEPT ![t] = job[p].net + money]
            /\ credit' = [credit EXCEPT ![t] = @ + money]
       ELSE UNCHANGED <<st, rem, net, credit>>
    /\ told' = [told EXCEPT ![t] = @ + 1]
    /\ scored' = [scored EXCEPT ![t] = @ + 1]
    /\ Finish(p)
    /\ UNCHANGED <<brokerVars, inbox, stamp, taken, raced, faults>>

\* record_close after the write: the winner feeds the breaker and its caller
\* announces the close, except that of a residual.  The halts that both winner
\* and loser re-evaluate keep no tally.
WinnerTail(p, t) ==
    /\ told' = IF KindOf[p] = "finisher" THEN told ELSE [told EXCEPT ![t] = @ + 1]
    /\ scored' = [scored EXCEPT ![t] = @ + 1]

\* apply_full_close compares and sets on the status alone; net_pnl is written
\* as computed from the read.  The loser is silent.
FullApply(p) ==
    LET t == job[p].trade
        money == job[p].rem * job[p].gain IN
    /\ pc[p] = "fullApply"
    /\ IF st[t] = "open"
       THEN /\ st' = [st EXCEPT ![t] = "closed"]
            /\ rem' = [rem EXCEPT ![t] = 0]
            /\ net' = [net EXCEPT ![t] = job[p].net + money]
            /\ credit' = [credit EXCEPT ![t] = @ + money]
            /\ WinnerTail(p, t)
            /\ Mark(t, (IF net[t] # job[p].net THEN {"overwrite"} ELSE {})
                       \cup (IF stamp[t] # NoStamp THEN {"late"} ELSE {}))
       ELSE UNCHANGED <<st, rem, net, credit, tallyVars>>
    /\ Finish(p)
    /\ UNCHANGED <<brokerVars, inbox, stamp, taken, faults>>

-----------------------------------------------------------------------------
(* sync_profit, from the retry ladder of a recorded close, which looks at   *)
(* the stamp alone, or from the periodic sweep over the closed rows, which  *)
(* also takes up those stamped with a zero.                                 *)

\* Slip: the sweep does not ask whether the trade is closed.
SyncReadAnyStatus(p, t) ==
    /\ KindOf[p] = "sync" /\ pc[p] = "idle"
    /\ stamp[t] \in {NoStamp, 0} /\ seen[t].lots > 0
    /\ Begin(p, "syncApply", [NoJob EXCEPT !.trade = t, !.net = seen[t].sum])
    /\ IF seen[t] # Current(t) THEN Mark(t, {"lagged"}) ELSE UNCHANGED raced
    /\ UNCHANGED <<brokerVars, inbox, rowVars, told, scored, faults>>

SyncRead(p, t) ==
    /\ KindOf[p] = "sync" /\ pc[p] = "idle" /\ seen[t].lots > 0
    /\ \/ st[t] = "closed" /\ stamp[t] \in {NoStamp, 0}
       \/ scored[t] > 0 /\ stamp[t] = NoStamp
    /\ Begin(p, "syncApply", [NoJob EXCEPT !.trade = t, !.net = seen[t].sum])
    /\ IF seen[t] # Current(t) THEN Mark(t, {"lagged"}) ELSE UNCHANGED raced
    /\ UNCHANGED <<brokerVars, inbox, rowVars, told, scored, faults>>

\* Slip: the correction is credited and the row keeps its estimate.
SyncApplyForgetsRow(p) ==
    LET t == job[p].trade IN
    /\ pc[p] = "syncApply"
    /\ credit' = IF stamp[t] = NoStamp
                 THEN [credit EXCEPT ![t] = @ + (job[p].net - net[t])] ELSE credit
    /\ stamp' = [stamp EXCEPT ![t] = job[p].net]
    /\ Finish(p)
    /\ UNCHANGED <<brokerVars, inbox, st, rem, net, taken, tallyVars, faults>>

\* apply_profit_sync: the first stamp corrects the row and the balance by the
\* same difference; a later one only replaces the stamp.
SyncApply(p) ==
    LET t == job[p].trade
        total == job[p].net IN
    /\ pc[p] = "syncApply"
    /\ IF stamp[t] = NoStamp
       THEN /\ credit' = [credit EXCEPT ![t] = @ + (total - net[t])]
            /\ net' = [net EXCEPT ![t] = total]
            /\ UNCHANGED raced
       ELSE /\ IF stamp[t] # total THEN Mark(t, {"restamp"}) ELSE UNCHANGED raced
            /\ UNCHANGED <<credit, net>>
    /\ stamp' = [stamp EXCEPT ![t] = total]
    /\ Finish(p)
    /\ UNCHANGED <<brokerVars, inbox, st, rem, taken, told, scored, faults>>

\* The process dies; the database, the broker and the EA survive.
Crash ==
    /\ faults < MaxFaults
    /\ faults' = faults + 1
    /\ raced' = [t \in Trades |->
          IF \/ t \in due \/ \E p \in Tasks : job[p].trade = t
             \/ \E i \in 1..Len(inbox) : inbox[i].trade = t
          THEN raced[t] \cup {"torn"} ELSE raced[t]]
    /\ inbox' = <<>>
    /\ pc' = [p \in Tasks |-> "idle"]
    /\ job' = [p \in Tasks |-> NoJob]
    /\ due' = {}
    /\ hello' = ByEa
    /\ UNCHANGED <<held, deals, fills, seen, watched, armed, rowVars, told, scored>>

-----------------------------------------------------------------------------
Start(p) ==
    \/ EaEvent(p)
    \/ \E t \in Trades : \/ \E n \in 1..Levels : LadderHit(p, t, n)
                         \/ \E loc \in {"slCheck", "posSync", "closeSend"} :
                               MonitorPick(p, t, loc)
                         \/ \E g \in Gains : UserClose(p, t, g)
                         \/ SyncRead(p, t)
                         \/ Residual(p, t)

Continue(p) ==
    \/ LadderSend(p) \/ StopCheck(p) \/ PositionSync(p) \/ CloseSend(p)
    \/ PartialRead(p) \/ PartialApply(p)
    \/ FullRead(p) \/ FullApply(p) \/ SyncApply(p)

Outside(t) ==
    \/ \E n \in 1..Levels : \/ \E q \in 1..Lots : EaTakeProfit(t, n, q)
                            \/ EaRepeat(t, n)
    \/ \E g \in Gains : \/ BrokerExit(t, g)
                        \/ ByHand(t, g)
                        \/ \E type \in {"trade_closed", "gone"} : EaReportClosed(t, g, type)
    \/ Restore(t)
    \/ HistoryArrives(t)

Next ==
    \/ \E t \in Trades : Outside(t)
    \/ \E p \in Tasks : Start(p) \/ Continue(p)
    \/ LinkLost
    \/ Crash

Spec == Init /\ [][Next]_vars

\* Tasks run to their end; the monitor comes round to the position sync every
\* sixth cycle and to the profit sweep every twenty-fourth, whatever else it
\* does; the EA checks its tickets and reconnects on its timer, which asks for
\* the restore; the broker's history catches up.
Doing(kind) == {p \in Tasks : KindOf[p] = kind}
Fairness ==
    /\ \A p \in Tasks : WF_vars(Continue(p))
    /\ \A p \in Doing("ea") : WF_vars(EaEvent(p))
    /\ \A p \in Doing("finisher"), t \in Trades : WF_vars(Residual(p, t))
    /\ \A p \in Doing("monitor"), t \in Trades : SF_vars(MonitorPick(p, t, "posSync"))
    /\ \A p \in Doing("sync"), t \in Trades : SF_vars(SyncRead(p, t))
    /\ \A t \in Trades :
          /\ WF_vars(HistoryArrives(t))
          /\ WF_vars(Restore(t))
          /\ WF_vars(\E g \in Gains, type \in {"trade_closed", "gone"} :
                        EaReportClosed(t, g, type))

FairSpec == Spec /\ Fairness

-----------------------------------------------------------------------------
(* Correctness                                                              *)

\* apply_full_close, apply_partial_close_with_reason and apply_profit_sync move
\* the row and the balance together: what the account was credited for a trade
\* is what its row says, unless a full close wrote over a booking made between
\* its read and its write.
BooksBalance == \A t \in Trades : credit[t] = net[t] \/ "overwrite" \in raced[t]

\* apply_profit_sync: once the broker's figure is stamped on a row, the row's
\* net_pnl is that figure, unless something was booked on the closed row or
\* the sweep stamped it again.
StampIsBooked ==
    \A t \in Trades : stamp[t] # NoStamp =>
        net[t] = stamp[t] \/ raced[t] \cap {"late", "restamp"} # {}

\* record_close: of all the callers racing to close a trade one announces it
\* and one feeds the breaker, also when the row is reopened for a residual,
\* unless the ladder booked its last level on the closed row.
OneVerdict ==
    \A t \in Trades : told[t] > 1 \/ scored[t] > 1 => "late" \in raced[t]

\* When nobody has a trade in hand, its row and the broker agree: the same
\* lots, or a position already gone and about to be noticed.  The exceptions:
\* lots booked by inference or closed by hand, a close recorded without a
\* position read, a lost answer or report, a process death, a level given back
\* to a reloaded EA, two EA connections booking at once.
Unsure == {"guess", "blind", "torn", "unanswered", "byhand", "lost", "rearmed",
           "overlap"}
Quiet(t) == /\ t \notin due
            /\ \A p \in Tasks : job[p].trade # t
            /\ \A i \in 1..Len(inbox) : inbox[i].trade # t
RowTracksBroker ==
    \A t \in Trades : Quiet(t) =>
        \/ st[t] = "open" /\ held[t] \in {rem[t], 0}
        \/ st[t] = "closed" /\ held[t] = 0
        \/ raced[t] \cap Unsure # {}

\* run_tp_ladder: a level closes its share of a position once, unless the
\* answer to its close was lost or the process died before booking it.
LevelTakenOnce ==
    \A t \in Trades \ ByEa, n \in 1..Levels :
        fills[t][n] > 1 => raced[t] \cap {"unanswered", "torn"} # {}

\* sync_profit: a stamp is the broker's final figure, unless the history it was
\* summed over was behind at that very moment, the row was in doubt, or a
\* partial was booked on the closed row.
StampIsFinal ==
    \A t \in Trades : stamp[t] # NoStamp =>
        stamp[t] = deals[t] \/ raced[t] \cap (Unsure \cup {"lagged", "late"}) # {}

\* Position sync, the EA's one report, the restore after a lost connection and
\* the sweep: a position that is gone at the broker is closed in the books and
\* carries the broker's figure, unless the EA's word was all there was and the
\* history did not bear it out (_on_trade_closed leaves the row open).
ExitsSettle ==
    \A t \in Trades : held[t] = 0 ~>
        \/ st[t] = "closed" /\ stamp[t] # NoStamp
        \/ "unverified" \in raced[t]
=============================================================================
