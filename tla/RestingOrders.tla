---------------------------- MODULE RestingOrders ----------------------------
(***************************************************************************)
(* One setup that waits at the broker as a limit order.                    *)
(*                                                                         *)
(* The order is placed through the EA, watched by the EA, withdrawn and    *)
(* put back by a sweep that asks the entry gates again, cancelled by the   *)
(* operator, and filled by MT5 without anybody being asked.  Commands and  *)
(* reports travel on one socket, in order, and are lost when it drops.     *)
(* The app's tasks read the row, wait, and write it without looking again. *)
(*                                                                         *)
(* Setups share nothing but the socket, and its order, restricted to one   *)
(* setup, is again first in first out: one setup stands for all of them.   *)
(*                                                                         *)
(* Source: services/trading/{limit_order_signal,manual_limit_order,        *)
(* resting_revalidation}.py, services/broker/repo.py, services/broker/     *)
(* ea_bridge/*.py, services/signals/{cancellation,pending_activation}.py,  *)
(* mql5/ForexTraderBridge.mq5.                                             *)
(***************************************************************************)
EXTENDS Naturals, Sequences, FiniteSets

CONSTANTS
    MaxTickets,  \* bound on the orders placed for the setup
    MaxDrops,    \* bound on lost connections, EA reloads and deaths of the app
    MaxQueue     \* bound on the commands the EA has not read

ASSUME RestingAssumption ==
    MaxTickets \in Nat \ {0} /\ MaxDrops \in Nat /\ MaxQueue \in Nat \ {0}

Tickets == 1..MaxTickets
NoTicket == 0

VARIABLES
    sig,       \* vantage_signals.status of the setup's signal
    row,       \* vantage_pending_orders.status ("none": no row yet)
    ticket,    \* vantage_pending_orders.ea_ticket
    filledBy,  \* mt5_ticket of the trade row apply_pending_fill inserted
    market,    \* the watcher opened a market trade for the signal
    called,    \* the operator has cancelled the signal
    lapsed,    \* _minutes_left is used up
    placed,    \* orders placed so far
    book,      \* [Tickets -> ...]: what the broker has
    tracked,   \* [Tickets -> Nat]: entries of the EA's g_pending
    toEA, toApp, link, drops,
    opener, ack, sweep, op, reader, restore,   \* the app's tasks (restore: a hello
                                               \* waits for _restore_pending_orders)
    raced      \* history: the races the setup has been through

rowVars  == <<sig, row, ticket, filledBy>>
eaVars   == <<placed, book, tracked>>
sockVars == <<toEA, toApp, link, drops>>
taskVars == <<opener, ack, sweep, op, reader, restore>>
vars == <<rowVars, market, called, lapsed, eaVars, sockVars, taskVars, raced>>

Idle == [pc |-> "idle", t |-> NoTicket]
At(pc, t) == [pc |-> pc, t |-> t]
Msg(kind, t) == [kind |-> kind, t |-> t]
NoMsg == Msg("none", NoTicket)

Numbers == Tickets \cup {NoTicket}
Signals_ == {"none", "pending", "activating", "active", "cancelled", "expired"}
Rows == {"none", "working", "withdrawn", "filled", "cancelled", "expired"}
Commands == [kind : {"place", "cancel", "restore"}, t : Numbers]
Reports  == [kind : {"placed", "failed", "filled", "cancelled"}, t : Numbers]

\* "unacked": nobody heard the answer to a placement; "crossed": a cancel met an
\* order that had left the book; "undeleted": the broker refused to delete one
\* that rests; "lost": the cancel never arrived; "overtaken": the row was read or
\* written for a report while another task was between its reading and its write;
\* "unwritten": the broker order changed and the row did not; "twice": an order the
\* EA still tracked was restored; "blink": a fill was closed before the EA
\* reported it.
Races == {"unacked", "crossed", "undeleted", "lost", "overtaken", "unwritten",
          "twice", "blink"}

TypeOK ==
    /\ sig \in Signals_ /\ row \in Rows
    /\ ticket \in Numbers /\ filledBy \in Numbers
    /\ market \in BOOLEAN /\ called \in BOOLEAN /\ lapsed \in BOOLEAN
    /\ placed \in 0..MaxTickets
    /\ book \in [Tickets -> {"none", "resting", "position", "closed", "gone"}]
    /\ tracked \in [Tickets -> Nat]
    /\ toEA \in Seq(Commands) /\ toApp \in Seq(Reports)
    /\ link \in BOOLEAN /\ drops \in 0..MaxDrops
    /\ opener \in {"idle", "first", "claimed", "done"}
    /\ ack \in Reports \cup {NoMsg}
    /\ sweep \in [pc : {"idle", "withdraw", "sent", "rearm", "await"}, t : Numbers]
    /\ op \in [pc : {"idle", "asked", "sent"}, t : Numbers]
    /\ reader \in [kind : {"none", "filled", "cancelled"}, t : Numbers, seen : Rows]
    /\ restore \in BOOLEAN
    /\ raced \subseteq Races

NotReading == [kind |-> "none", t |-> NoTicket, seen |-> "none"]

Init ==
    /\ sig = "none" /\ row = "none" /\ ticket = NoTicket /\ filledBy = NoTicket
    /\ market = FALSE /\ called = FALSE /\ lapsed = FALSE
    /\ placed = 0
    /\ book = [t \in Tickets |-> "none"]
    /\ tracked = [t \in Tickets |-> 0]
    /\ toEA = <<>> /\ toApp = <<>> /\ link = TRUE /\ drops = 0
    /\ opener = "idle" /\ ack = NoMsg /\ sweep = Idle /\ op = Idle
    /\ reader = NotReading /\ restore = FALSE
    /\ raced = {}

-----------------------------------------------------------------------------
(* Commands                                                                 *)

Command(m) == link /\ Len(toEA) < MaxQueue /\ toEA' = Append(toEA, m)

\* _send: refused without a writer.  drain() may time out after the bytes have
\* left: the caller is told "not sent" and the EA gets the message all the same.
SendFails(m) ==
    \/ ~link /\ UNCHANGED toEA
    \/ Command(m)

-----------------------------------------------------------------------------
(* Placing                                                                  *)

\* The Reversal Engine stores a signal before it places the order.
StoreSignal ==
    /\ sig = "none" /\ opener = "idle"
    /\ sig' = "pending"
    /\ UNCHANGED <<row, ticket, filledBy, market, called, lapsed, eaVars, sockVars, taskVars, raced>>

\* handle_limit_order_signal and place_manual_limit_order have no row of their
\* own yet; the Reversal Engine claims its signal first.
Place ==
    /\ opener = "idle" /\ row = "none"
    /\ \/ sig = "none" /\ opener' = "first" /\ UNCHANGED sig
       \/ sig = "pending" /\ opener' = "claimed" /\ sig' = "activating"
    /\ Command(Msg("place", NoTicket))
    /\ ack' = NoMsg
    /\ UNCHANGED <<row, ticket, filledBy, market, called, lapsed, eaVars, toApp, link, drops,
                   sweep, op, reader, restore, raced>>

\* The answer is in the box: signal and order row are inserted together.
PlaceAck ==
    /\ opener \in {"first", "claimed"} /\ ack.kind = "placed"
    /\ row' = "working" /\ ticket' = ack.t
    /\ sig' = IF opener = "first" THEN "pending" ELSE sig
    /\ opener' = "done" /\ ack' = NoMsg
    /\ UNCHANGED <<filledBy, market, called, lapsed, eaVars, sockVars, sweep, op, reader,
                   restore, raced>>

\* The EA refused, or the answer did not come in time: no row is written, and
\* a claimed signal is restored to the queue.
PlaceFails ==
    /\ opener \in {"first", "claimed"} /\ ack.kind # "placed"
    /\ sig' = IF opener = "claimed" THEN "pending" ELSE sig
    /\ raced' = IF ack.kind = "failed" THEN raced ELSE raced \cup {"unacked"}
    /\ opener' = "done" /\ ack' = NoMsg
    /\ UNCHANGED <<row, ticket, filledBy, market, called, lapsed, eaVars, sockVars, sweep, op,
                   reader, restore>>

-----------------------------------------------------------------------------
(* The sweep: withdraw what the gates refuse, put back what they allow       *)

\* The rows are read once, then worked through; the gates' verdict is anything.
SweepRead ==
    /\ sweep.pc = "idle"
    /\ \/ row = "working" /\ ticket # NoTicket /\ sweep' = At("withdraw", ticket)
       \/ row = "withdrawn" /\ sweep' = At("rearm", NoTicket)
    /\ UNCHANGED <<rowVars, market, called, lapsed, eaVars, sockVars, opener, ack, op, reader,
                   restore, raced>>

\* Slip: the row is marked withdrawn whether or not the cancel was sent.
SweepWithdrawUnchecked ==
    /\ sweep.pc = "withdraw"
    /\ SendFails(Msg("cancel", sweep.t))
    /\ sweep' = At("sent", sweep.t)
    /\ UNCHANGED <<rowVars, market, called, lapsed, eaVars, toApp, link, drops, opener, ack,
                   op, reader, restore, raced>>

\* _withdraw up to the answer of _send.
SweepWithdraw ==
    /\ sweep.pc = "withdraw"
    /\ LET m == Msg("cancel", sweep.t) IN
           \/ Command(m) /\ sweep' = At("sent", sweep.t)
           \/ SendFails(m) /\ sweep' = Idle
    /\ UNCHANGED <<rowVars, market, called, lapsed, eaVars, toApp, link, drops, opener, ack,
                   op, reader, restore, raced>>

\* mark_pending_order_withdrawn, whatever the row says by now; _mark swallows
\* a failed write.
SweepMark ==
    /\ sweep.pc = "sent"
    /\ \/ row' = "withdrawn" /\ UNCHANGED raced
       \/ UNCHANGED row /\ raced' = raced \cup {"unwritten"}
    /\ sweep' = Idle
    /\ UNCHANGED <<sig, ticket, filledBy, market, called, lapsed, eaVars, sockVars, opener, ack,
                   op, reader, restore>>

\* _rearm: past its life, the row is closed; else the order is placed again.
\* Neither the signal's status nor the slots are looked at.
SweepRearm ==
    /\ sweep.pc = "rearm"
    /\ \/ /\ lapsed
          /\ row' = "expired" /\ sweep' = Idle
          /\ UNCHANGED <<toEA, ack>>
       \/ /\ ~lapsed
          /\ Command(Msg("place", NoTicket))
          /\ sweep' = At("await", NoTicket) /\ ack' = NoMsg
          /\ UNCHANGED row
       \/ /\ ~lapsed /\ ~link
          /\ sweep' = Idle
          /\ UNCHANGED <<row, toEA, ack>>
    /\ UNCHANGED <<sig, ticket, filledBy, market, called, lapsed, eaVars, toApp, link, drops,
                   opener, op, reader, restore, raced>>

\* Slip: the row keeps the ticket of the withdrawn order.
SweepRearmedOldTicket ==
    /\ sweep.pc = "await" /\ ack.kind = "placed"
    /\ row' = "working"
    /\ sweep' = Idle /\ ack' = NoMsg
    /\ UNCHANGED <<sig, ticket, filledBy, market, called, lapsed, eaVars, sockVars, opener, op,
                   reader, restore, raced>>

\* mark_pending_order_rearmed.
SweepRearmed ==
    /\ sweep.pc = "await" /\ ack.kind = "placed"
    /\ \/ row' = "working" /\ ticket' = ack.t /\ UNCHANGED raced
       \/ UNCHANGED <<row, ticket>> /\ raced' = raced \cup {"unwritten"}
    /\ sweep' = Idle /\ ack' = NoMsg
    /\ UNCHANGED <<sig, filledBy, market, called, lapsed, eaVars, sockVars, opener, op,
                   reader, restore>>

\* Refused, or no answer: the row stays withdrawn and is tried again.
SweepRearmFails ==
    /\ sweep.pc = "await" /\ ack.kind # "placed"
    /\ raced' = IF ack.kind = "failed" THEN raced ELSE raced \cup {"unacked"}
    /\ sweep' = Idle /\ ack' = NoMsg
    /\ UNCHANGED <<rowVars, market, called, lapsed, eaVars, sockVars, opener, op, reader, restore>>

-----------------------------------------------------------------------------
(* The operator, the panel and the watcher                                  *)

\* cancel_signal: the signal is cancelled at once; a task withdraws the order
\* if its row says "working".
CancelSignal ==
    /\ ~called /\ sig # "none"
    /\ called' = TRUE /\ sig' = "cancelled"
    /\ op' = IF row = "working" /\ ticket # NoTicket THEN At("asked", ticket) ELSE Idle
    /\ UNCHANGED <<row, ticket, filledBy, market, lapsed, eaVars, sockVars, opener, ack, sweep,
                   reader, restore, raced>>

OperatorSend ==
    /\ op.pc = "asked"
    /\ LET m == Msg("cancel", op.t) IN
           \/ Command(m) /\ op' = At("sent", op.t)
           \/ SendFails(m) /\ op' = Idle
    /\ UNCHANGED <<rowVars, market, called, lapsed, eaVars, toApp, link, drops, opener, ack,
                   sweep, reader, restore, raced>>

\* apply_pending_cancelled.
OperatorMark ==
    /\ op.pc = "sent"
    /\ row' = "cancelled" /\ sig' = "cancelled"
    /\ op' = Idle
    /\ UNCHANGED <<ticket, filledBy, market, called, lapsed, eaVars, sockVars, opener, ack,
                   sweep, reader, restore, raced>>

\* _cancel_all_working_pendings by the row's ticket, _delete_pending by ticket
\* 0: only the command; the EA's report does the rest.  (Bound: the operator
\* clicks again once the EA has read what it was sent.)
PanelCancel ==
    /\ row = "working" /\ toEA = <<>>
    /\ \E t \in {ticket, NoTicket} : Command(Msg("cancel", t))
    /\ UNCHANGED <<rowVars, market, called, lapsed, eaVars, toApp, link, drops, taskVars, raced>>

\* get_pending_signals_awaiting_zone_fill hides signals with a "working" row
\* only; find_open_trade_for_signal stops a second trade row.
Watched == sig = "pending" /\ row # "working"

WatcherExpires ==
    /\ Watched
    /\ sig' = "expired"
    /\ UNCHANGED <<row, ticket, filledBy, market, called, lapsed, eaVars, sockVars, taskVars, raced>>

WatcherOpens ==
    /\ Watched /\ filledBy = NoTicket /\ ~market
    /\ sig' = "active" /\ market' = TRUE
    /\ UNCHANGED <<row, ticket, filledBy, called, lapsed, eaVars, sockVars, taskVars, raced>>

\* release_stranded_activations: the Reversal Engine leaves its claim standing
\* while the order rests.
ReleaseClaim ==
    /\ sig = "activating" /\ opener = "done"
    /\ sig' = "pending"
    /\ UNCHANGED <<row, ticket, filledBy, market, called, lapsed, eaVars, sockVars, taskVars, raced>>

Lapse ==
    /\ ~lapsed /\ row # "none"
    /\ lapsed' = TRUE
    /\ UNCHANGED <<rowVars, market, called, eaVars, sockVars, taskVars, raced>>

-----------------------------------------------------------------------------
(* The reader of the EA's socket                                            *)

\* _dispatch hands an answer to whoever waits under this trade id, if any.
ReadAnswer ==
    /\ reader = NotReading /\ toApp # <<>> /\ Head(toApp).kind \in {"placed", "failed"}
    /\ toApp' = Tail(toApp)
    /\ ack' = IF opener \in {"first", "claimed"} \/ sweep.pc = "await" THEN Head(toApp) ELSE ack
    /\ UNCHANGED <<rowVars, market, called, lapsed, eaVars, toEA, link, drops, opener, sweep, op,
                   reader, restore, raced>>

\* Another task is between its reading of the row and its write.
Overlap == sweep.pc # "idle" \/ op.pc # "idle" \/ opener \in {"first", "claimed"}

\* _on_pending_order_filled/_cancelled: the row is fetched ...
ReadReport ==
    /\ reader = NotReading /\ toApp # <<>> /\ Head(toApp).kind \in {"filled", "cancelled"}
    /\ toApp' = Tail(toApp)
    /\ reader' = [kind |-> Head(toApp).kind, t |-> Head(toApp).t, seen |-> row]
    /\ raced' = IF Overlap THEN raced \cup {"overtaken"} ELSE raced
    /\ UNCHANGED <<rowVars, market, called, lapsed, eaVars, toEA, link, drops, opener, ack,
                   sweep, op, restore>>

\* ... and the report applied, unless it is unknown or our own withdrawal.
ApplyCancelled ==
    /\ reader.kind = "cancelled"
    /\ reader' = NotReading
    /\ IF reader.seen \in {"none", "withdrawn"} THEN UNCHANGED <<row, sig>>
       ELSE row' = "cancelled" /\ sig' = "cancelled"
    /\ raced' = IF Overlap THEN raced \cup {"overtaken"} ELSE raced
    /\ UNCHANGED <<ticket, filledBy, market, called, lapsed, eaVars, sockVars, opener, ack,
                   sweep, op, restore>>

\* apply_pending_fill; the trade row's key makes a second one fail as a whole.
ApplyFilled ==
    /\ reader.kind = "filled"
    /\ reader' = NotReading
    /\ IF reader.seen = "none" \/ filledBy # NoTicket THEN UNCHANGED <<row, sig, filledBy>>
       ELSE row' = "filled" /\ sig' = "active" /\ filledBy' = reader.t
    /\ raced' = IF Overlap THEN raced \cup {"overtaken"} ELSE raced
    /\ UNCHANGED <<ticket, market, called, lapsed, eaVars, sockVars, opener, ack, sweep, op,
                   restore>>

-----------------------------------------------------------------------------
(* The EA and the broker                                                    *)

Report(m) == toApp' = IF link THEN Append(toApp, m) ELSE toApp

EaPlaces ==
    /\ toEA # <<>> /\ Head(toEA).kind = "place"
    /\ toEA' = Tail(toEA)
    /\ \/ /\ placed < MaxTickets
          /\ placed' = placed + 1
          /\ book' = [book EXCEPT ![placed + 1] = "resting"]
          /\ tracked' = [tracked EXCEPT ![placed + 1] = 1]
          /\ Report(Msg("placed", placed + 1))
       \/ Report(Msg("failed", NoTicket)) /\ UNCHANGED eaVars
    /\ UNCHANGED <<rowVars, market, called, lapsed, link, drops, taskVars, raced>>

\* Slip: the entry is removed without looking whether there is one.
EaCancelsUnchecked ==
    /\ toEA # <<>> /\ Head(toEA).kind = "cancel" /\ Head(toEA).t # NoTicket
    /\ toEA' = Tail(toEA)
    /\ LET t == Head(toEA).t IN
           /\ book[t] = "resting"
           /\ book' = [book EXCEPT ![t] = "gone"]
           /\ tracked' = [tracked EXCEPT ![t] = @ - 1]
           /\ Report(Msg("cancelled", t))
    /\ UNCHANGED <<rowVars, market, called, lapsed, placed, link, drops, taskVars, raced>>

\* HandleCancelPendingOrder; ticket 0 means the order tracked for the trade id.
\* An OrderDelete that fails, on an order that has left the book or on one that
\* rests, is not reported.
EaCancels ==
    /\ toEA # <<>> /\ Head(toEA).kind = "cancel"
    /\ toEA' = Tail(toEA)
    /\ LET named == IF Head(toEA).t # NoTicket THEN {Head(toEA).t}
                    ELSE {t \in Tickets : tracked[t] > 0}
       IN  \/ named = {} /\ UNCHANGED <<eaVars, toApp, raced>>
           \/ \E t \in named :
                  \/ /\ book[t] = "resting"
                     /\ book' = [book EXCEPT ![t] = "gone"]
                     /\ tracked' = [tracked EXCEPT ![t] = IF @ > 0 THEN @ - 1 ELSE 0]
                     /\ Report(Msg("cancelled", t))
                     /\ UNCHANGED <<placed, raced>>
                  \/ /\ raced' = raced \cup {IF book[t] = "resting" THEN "undeleted"
                                           ELSE "crossed"}
                     /\ UNCHANGED <<eaVars, toApp>>
    /\ UNCHANGED <<rowVars, market, called, lapsed, link, drops, taskVars>>

\* HandleRestorePendingOrder: tracked again, or its end is reported.
EaRestores ==
    /\ toEA # <<>> /\ Head(toEA).kind = "restore"
    /\ toEA' = Tail(toEA)
    /\ LET t == Head(toEA).t IN
           \/ /\ book[t] = "resting"
              /\ tracked' = [tracked EXCEPT ![t] = @ + 1]
              /\ raced' = IF tracked[t] > 0 THEN raced \cup {"twice"} ELSE raced
              /\ UNCHANGED toApp
           \/ /\ book[t] # "resting"
              /\ Report(Msg(IF book[t] = "position" THEN "filled" ELSE "cancelled", t))
              /\ UNCHANGED <<tracked, raced>>
    /\ UNCHANGED <<rowVars, market, called, lapsed, placed, book, link, drops, taskVars>>

\* CheckPendingOrders, on a tick: an order that left the book is reported, once.
EaChecks(t) ==
    /\ tracked[t] > 0 /\ book[t] # "resting"
    /\ tracked' = [tracked EXCEPT ![t] = @ - 1]
    /\ Report(Msg(IF book[t] = "position" THEN "filled" ELSE "cancelled", t))
    /\ UNCHANGED <<rowVars, market, called, lapsed, placed, book, toEA, link, drops, taskVars, raced>>

\* The broker fills the order, or removes it: expired, or deleted by hand.
Fill(t) ==
    /\ book[t] = "resting"
    /\ book' = [book EXCEPT ![t] = "position"]
    /\ UNCHANGED <<rowVars, market, called, lapsed, placed, tracked, sockVars, taskVars, raced>>

Remove(t) ==
    /\ book[t] = "resting"
    /\ book' = [book EXCEPT ![t] = "gone"]
    /\ UNCHANGED <<rowVars, market, called, lapsed, placed, tracked, sockVars, taskVars, raced>>

\* The position ends before the app has heard of it.
Blink(t) ==
    /\ book[t] = "position" /\ filledBy # t
    /\ book' = [book EXCEPT ![t] = "closed"]
    /\ raced' = raced \cup {"blink"}
    /\ UNCHANGED <<rowVars, market, called, lapsed, placed, tracked, sockVars, taskVars>>

-----------------------------------------------------------------------------
(* The link                                                                 *)

Lost == IF \E i \in 1..Len(toEA) : toEA[i].kind = "cancel" THEN {"lost"} ELSE {}

\* The socket drops; with it the EA may be reloaded and forget g_pending, or
\* the app die and forget its tasks.
LinkDown ==
    /\ link /\ drops < MaxDrops
    /\ link' = FALSE /\ drops' = drops + 1
    /\ toEA' = <<>> /\ toApp' = <<>> /\ restore' = FALSE
    /\ \/ UNCHANGED <<tracked, opener, ack, sweep, op, reader>> /\ raced' = raced \cup Lost
       \/ /\ tracked' = [t \in Tickets |-> 0]
          /\ raced' = raced \cup Lost
          /\ UNCHANGED <<opener, ack, sweep, op, reader>>
       \/ /\ opener' = IF opener \in {"first", "claimed"} THEN "done" ELSE opener
          /\ ack' = NoMsg /\ sweep' = Idle /\ op' = Idle /\ reader' = NotReading
          /\ raced' = IF opener \in {"first", "claimed"} \/ sweep.pc = "await"
                      THEN raced \cup Lost \cup {"unacked"} ELSE raced \cup Lost
          /\ UNCHANGED tracked
    /\ UNCHANGED <<rowVars, market, called, lapsed, placed, book>>

LinkUp ==
    /\ ~link
    /\ link' = TRUE /\ restore' = TRUE
    /\ UNCHANGED <<rowVars, market, called, lapsed, eaVars, toEA, toApp, drops, opener, ack,
                   sweep, op, reader, raced>>

\* Slip: only the orders this process has placed are restored.
RestoreNothing ==
    /\ restore
    /\ restore' = FALSE
    /\ raced' = IF Overlap THEN raced \cup {"overtaken"} ELSE raced
    /\ UNCHANGED <<rowVars, market, called, lapsed, eaVars, sockVars, opener, ack, sweep, op, reader>>

\* _restore_pending_orders, on the EA's hello: the working row is read and sent.
RestoreRow ==
    /\ restore
    /\ restore' = FALSE
    /\ \/ row = "working" /\ ticket # NoTicket /\ Command(Msg("restore", ticket))
       \/ row # "working" /\ UNCHANGED toEA
    /\ raced' = IF Overlap THEN raced \cup {"overtaken"} ELSE raced
    /\ UNCHANGED <<rowVars, market, called, lapsed, eaVars, toApp, link, drops, opener, ack,
                   sweep, op, reader>>

-----------------------------------------------------------------------------
AppStep == \/ PlaceAck \/ PlaceFails \/ SweepWithdraw \/ SweepMark \/ SweepRearmed
           \/ SweepRearmFails \/ OperatorSend \/ OperatorMark
ReaderStep == ReadAnswer \/ ReadReport \/ ApplyCancelled \/ ApplyFilled
EaStep == EaPlaces \/ EaCancels \/ EaRestores
CheckStep == \E t \in Tickets : EaChecks(t)

Next ==
    \/ StoreSignal \/ Place \/ AppStep \/ SweepRead \/ SweepRearm
    \/ CancelSignal \/ PanelCancel \/ WatcherExpires \/ WatcherOpens \/ ReleaseClaim \/ Lapse
    \/ ReaderStep \/ EaStep \/ CheckStep \/ LinkDown \/ LinkUp \/ RestoreRow
    \/ \E t \in Tickets : Fill(t) \/ Remove(t) \/ Blink(t)

\* Tasks that have started go on, both ends read what arrived, ticks keep
\* coming and a lost connection is made again.
Fairness ==
    /\ WF_vars(AppStep) /\ WF_vars(SweepRearm) /\ WF_vars(ReaderStep)
    /\ WF_vars(RestoreRow) /\ WF_vars(EaStep) /\ WF_vars(CheckStep) /\ WF_vars(LinkUp)

Spec == Init /\ [][Next]_vars
FairSpec == Spec /\ Fairness

-----------------------------------------------------------------------------
(* Properties                                                               *)

Live == {t \in Tickets : book[t] \in {"resting", "position", "closed"}}
Resting == {t \in Tickets : book[t] = "resting"}

\* "Exactly one live broker order per setup": however withdrawals, re-arms,
\* fills and lost connections interleave, no second order is placed beside one
\* that rests or has filled, except through the named races.
OneOrder == raced = {} => Cardinality(Live) <= 1

\* Nothing is on its way and no task is at work.
Quiet ==
    /\ toEA = <<>> /\ toApp = <<>> /\ link
    /\ ~Overlap /\ reader = NotReading /\ ~restore
    /\ \A t \in Tickets : tracked[t] > 0 => book[t] = "resting"

\* When nothing is in flight, the row tells what the broker has: an order rests
\* under the row's ticket exactly while the row is "working" (so the slot
\* count, which counts working rows, sees it), the EA watches it, and a fill
\* has its trade row.
RowTellsBook ==
    raced = {} /\ Quiet =>
        /\ Resting = IF row = "working" THEN {ticket} ELSE {}
        /\ \A t \in Resting : tracked[t] = 1
        /\ \A t \in Tickets : book[t] = "position" <=> filledBy = t

\* A fill is recorded as a trade sooner or later, also when the connection was
\* lost or the EA reloaded meanwhile.
FillIsRecorded ==
    \A t \in Tickets : book[t] = "position" ~> filledBy = t \/ raced # {}
=============================================================================
