--------------------------- MODULE MessageScanner ---------------------------
(***************************************************************************)
(* From a channel's buffered messages to trades.                           *)
(*                                                                         *)
(* The scanner goes over the buffer again and again; a row per message     *)
(* tells what has been done.  Messages are edited at any time, wait for a  *)
(* second message with their levels, close trades, complete trades opened  *)
(* at once, and may be activated by the operator while the scanner is      *)
(* working on them.  An order may be filled and the program fail before it *)
(* has recorded that; the operator may execute or delete a row.            *)
(*                                                                         *)
(* One channel.  Automatic execution is on; switched off, it is a gate     *)
(* that always refuses.  A text is what the parsers (learned rules and the *)
(* AI fallback included) make of it.  "[LIMITS]" setups are in             *)
(* RestingOrders, what an open does with claims and slots in OrderDispatch,*)
(* the way into the buffer in MessageReader.                               *)
(*                                                                         *)
(* Source: services/telegram/keyword_triggers.py, services/signals/        *)
(* {scan_messages,scan_edit_reparse,scan_staleness,scan_parse_classify,    *)
(* tg_repo}.py, services/positions/{core_second_message_merge,             *)
(* second_message_repo}.py, services/trading/{instant_entry,               *)
(* instant_followup,scan_auto_execute,bot_trading,trade_repo}.py,          *)
(* services/signals/pending_activation.py, frontend/pages/trading/         *)
(* _tg_signals.py.                                                         *)
(***************************************************************************)
EXTENDS MessageBuffer, Sequences

CONSTANTS
    Scripts,     \* what the channel may say: [Messages -> the texts of each version]
    Settings,    \* immediate market entry, and TP/SL in second message, on or off
    ScanLimit,   \* messages a scan looks at
    MaxMishaps   \* bound on restarts, lost connections, and what `raced` names

\* full: direction, entry and levels; entry: no levels yet; now: a bare
\* direction; levels: SL and TP alone; close: CLOSE ALL.
Dirs == {"BUY", "SELL"}
Texts == [kind : {"full", "entry", "now"}, dir : Dirs]
            \cup [kind : {"levels", "close", "chat"}, dir : {"-"}]
NoText == [kind |-> "-", dir |-> "-"]

ASSUME ScannerAssumption ==
    /\ Scripts \subseteq [Messages -> Seq(Texts) \ {<<>>}]
    /\ Settings \subseteq [ime : BOOLEAN, second : BOOLEAN]
    /\ ScanLimit \in Nat \ {0} /\ MaxMishaps \in Nat

VARIABLES
    ime, second,   \* the settings of this behaviour
    says,          \* the script of this behaviour: says[m][v] is the text of a version
    fresh,         \* [Messages -> BOOLEAN]: younger than four minutes
    row,           \* vantage_tg_signals: [st, dir, x (raw_text)]
    hold, held,    \* vantage_second_message_holds, and their order by first_seen_at
    claimed,       \* trigger claims of CLOSE ALL
    trades,        \* trades in the order they were opened; "young" ones may still be
                   \* completed by a follow-up, "unseen" ones the app knows nothing of
    waiting,       \* pending vantage_signals the watcher will open
    left,          \* the pass has the messages 1..left still before it
    task, bot,     \* what the scanner and /activate are busy with
    mishaps,
    fired, raced   \* history: how often a CLOSE ALL went for the channel's trade;
                   \* messages /activate took out of the scanner's hands, whose order
                   \* was filled by an attempt that then failed, or whose row the
                   \* operator executed or deleted

channelVars == <<bufferVars, says, fresh>>
dbVars      == <<row, hold, held, claimed, trades, waiting>>
vars == <<ime, second, channelVars, dbVars, left, task, bot, mishaps, fired, raced>>

Statuses == {"none", "new", "historical", "pending_followup", "pending", "activated",
             "followup_applied", "instant_pending", "instant_historical",
             "instant_activated", "instant_failed"}
InstantStatuses == {"instant_activated", "instant_pending", "instant_historical"}
NoRow  == [st |-> "none", dir |-> "-", x |-> NoText]
NoHold == [st |-> "none", levels |-> {}, due |-> FALSE]
Idle   == [pc |-> "idle", m |-> 0, x |-> NoText]
NoBot  == [m |-> 0, dir |-> "-"]

TypeOK ==
    /\ ime \in BOOLEAN /\ second \in BOOLEAN
    /\ posted \in 0..MaxPosts /\ online \in BOOLEAN
    /\ version \in [Messages -> 0..(MaxEdits + 1)] /\ buffer \in [Messages -> 0..(MaxEdits + 1)]
    /\ says \in Scripts /\ fresh \in [Messages -> BOOLEAN]
    /\ row \in [Messages -> [st : Statuses, dir : Dirs \cup {"-"}, x : Texts \cup {NoText}]]
    /\ hold \in [Messages -> [st : {"none", "waiting", "resolved"}, levels : SUBSET Messages,
                              due : BOOLEAN]]
    /\ \A m \in Messages : Cardinality(hold[m].levels) <= 1
    /\ held \in Seq(Messages) /\ \A i, j \in DOMAIN held : held[i] = held[j] => i = j
    /\ claimed \subseteq Messages
    /\ trades \in Seq([m : Messages, dir : Dirs, by : {"scan", "ime", "watcher", "bot", "table"},
                       st : {"young", "old", "closed", "unseen"}])
    /\ waiting \subseteq [m : Messages, dir : Dirs, by : {"scan", "bot", "table"}]
    /\ left \in 0..MaxPosts
    /\ task \in [pc : {"idle", "trigger", "resolved", "ready", "open", "instant", "instant_open"},
                 m : Messages \cup {0}, x : Texts \cup {NoText}]
    /\ bot \in [m : Messages, dir : Dirs] \cup {NoBot}
    /\ mishaps \in 0..MaxMishaps
    /\ fired \in [Messages -> Nat] /\ raced \subseteq Messages

Init ==
    /\ \E s \in Settings : ime = s.ime /\ second = s.second
    /\ BufferInit
    /\ says \in Scripts /\ fresh = [m \in Messages |-> FALSE]
    /\ row = [m \in Messages |-> NoRow] /\ hold = [m \in Messages |-> NoHold]
    /\ held = <<>> /\ claimed = {} /\ trades = <<>> /\ waiting = {}
    /\ left = 0 /\ task = Idle /\ bot = NoBot /\ mishaps = 0
    /\ fired = [m \in Messages |-> 0] /\ raced = {}

-----------------------------------------------------------------------------
(* The channel and its buffer                                               *)

Post ==
    /\ PostMessage
    /\ fresh' = [fresh EXCEPT ![posted + 1] = TRUE]
    /\ UNCHANGED <<ime, second, says, buffer, online, dbVars, left, task, bot, mishaps, fired, raced>>

Edit(m) ==
    /\ EditMessage(m) /\ version[m] < Len(says[m])
    /\ UNCHANGED <<ime, second, says, buffer, online, fresh, dbVars, left, task, bot, mishaps, fired, raced>>

Arrive(m, v) ==
    /\ Show(m, v) /\ v # buffer[m]
    /\ UNCHANGED <<ime, second, says, fresh, dbVars, left, task, bot, mishaps, fired, raced>>

LinkChanges ==
    /\ Link(~online)
    /\ mishaps' = IF online THEN mishaps + 1 ELSE mishaps
    /\ mishaps' <= MaxMishaps
    /\ UNCHANGED <<ime, second, says, fresh, dbVars, left, task, bot, fired, raced>>

-----------------------------------------------------------------------------
(* The scanner                                                              *)

\* scan_messages goes over the messages buffered so far, newest first.
ScanStart ==
    /\ left = 0 /\ task = Idle
    /\ left' = posted /\ posted > 0
    /\ UNCHANGED <<ime, second, channelVars, dbVars, task, bot, mishaps, fired, raced>>

\* get_buffer_messages(limit=100)
Scanned ==
    {m \in Messages : /\ buffer[m] # 0
                      /\ Cardinality({k \in Messages : k > m /\ buffer[k] # 0}) < ScanLimit}

\* A message that is not in the pass.
Skip ==
    /\ left # 0 /\ task = Idle /\ left \notin Scanned
    /\ left' = left - 1
    /\ UNCHANGED <<ime, second, channelVars, dbVars, task, bot, mishaps, fired, raced>>

\* The pass comes to message m and reads x.  The snapshot's copy may be older
\* than the buffer's: Arrive shows older versions as well.
Look(m, x) ==
    /\ task = Idle /\ m = left /\ m \in Scanned /\ x = says[m][buffer[m]]
    /\ left' = left - 1
    /\ UNCHANGED <<ime, second, channelVars, bot, mishaps, fired, raced>>

Begin(pc, m, x) == task' = [pc |-> pc, m |-> m, x |-> x]
SetRow(m, st, dir, x) == row' = [row EXCEPT ![m] = [st |-> st, dir |-> dir, x |-> x]]

\* The newest open trade a query finds, 0 if there is none.  Trades of the
\* watcher carry "Telegram Auto (channel)", those of /activate no channel, the
\* others the channel's name.
Direct == {"scan", "ime", "table"}
Latest(S) == IF S = {} THEN 0 ELSE CHOOSE i \in S : \A j \in S : j <= i
ChannelTrade(sources) ==
    Latest({i \in DOMAIN trades : trades[i].st \in {"young", "old"} /\ trades[i].by \in sources})

\* find_and_apply_instant_followup: the newest trade, if young, in this direction.
CompletesTrade(dir) ==
    LET i == Latest({j \in DOMAIN trades : /\ trades[j].st = "young"
                                           /\ trades[j].by \in Direct})
    IN  i # 0 /\ trades[i].dir = dir

\* Slip: the trigger fires without claiming the message.
TriggerUnclaimed(m, x) ==
    /\ Look(m, x) /\ x.kind = "close"
    /\ Begin("trigger", m, x)
    /\ UNCHANGED dbVars

\* try_handle_close_all_trigger, ahead of the row: first the claim ...
Trigger(m, x) ==
    /\ Look(m, x) /\ x.kind = "close"
    /\ \/ m \in claimed /\ UNCHANGED <<claimed, task>>
       \/ m \notin claimed /\ claimed' = claimed \cup {m} /\ Begin("trigger", m, x)
    /\ UNCHANGED <<row, hold, held, trades, waiting>>

\* ... then the channel's newest trade, closed unless its template takes no
\* commands or the close fails.
CloseAll ==
    LET i == ChannelTrade(Direct \cup {"watcher"}) IN
    /\ task.pc = "trigger"
    /\ task' = Idle
    /\ \/ i # 0 /\ trades' = [trades EXCEPT ![i].st = "closed"]
       \/ UNCHANGED trades
    /\ fired' = [fired EXCEPT ![task.m] = @ + 1]
    /\ UNCHANGED <<ime, second, channelVars, row, hold, held, claimed, waiting, left, bot,
                   mishaps, raced>>

Known(m, x) == Look(m, x) /\ x.kind # "close" /\ row[m] # NoRow
Unknown(m, x) == Look(m, x) /\ x.kind # "close" /\ row[m] = NoRow

\* A row with this text, or an edit nothing can be made of: nothing to do.
Dedup(m, x) ==
    /\ Known(m, x)
    /\ \/ x = row[m].x
       \/ x.kind \notin {"full", "now"}
       \/ x.kind = "now" /\ row[m].st \notin InstantStatuses
    /\ UNCHANGED <<dbVars, task>>

\* handle_signal_edit, an instant message still bare: another direction closes
\* the channel's newest trade if that trade has the old direction.
EditInstant(m, x) ==
    LET i == ChannelTrade(Direct) IN
    /\ Known(m, x) /\ x # row[m].x /\ x.kind = "now" /\ row[m].st \in InstantStatuses
    /\ \/ /\ x.dir # row[m].dir /\ i # 0 /\ trades[i].dir = row[m].dir
          /\ trades' = [trades EXCEPT ![i].st = "closed"]
       \/ UNCHANGED trades   \* same direction, no such trade, or the close failed
    /\ SetRow(m, row[m].st, x.dir, x)
    /\ UNCHANGED <<hold, held, claimed, waiting, task>>

\* handle_signal_edit, a full signal in the row's direction: levels are
\* refreshed and handed to the channel's instant trade.
EditLevels(m, x) ==
    LET applies == /\ row[m].st \in {"instant_activated", "instant_pending", "activated", "new"}
                   /\ CompletesTrade(x.dir)
    IN
    /\ Known(m, x) /\ x # row[m].x /\ x.kind = "full" /\ x.dir = row[m].dir
    /\ row[m].st # "pending_followup"
    /\ SetRow(m, IF applies THEN "followup_applied" ELSE row[m].st, row[m].dir, x)
    /\ UNCHANGED <<hold, held, claimed, trades, waiting, task>>

\* The other direction: only a row still 'new' is corrected.
EditFlip(m, x) ==
    /\ Known(m, x) /\ x # row[m].x /\ x.kind = "full" /\ x.dir # row[m].dir
    /\ SetRow(m, row[m].st, IF row[m].st = "new" THEN x.dir ELSE row[m].dir, x)
    /\ UNCHANGED <<hold, held, claimed, trades, waiting, task>>

\* A partial that has its levels now is executed, if it is still fresh; the row
\* is 'new' either way.
Promote(m, x) ==
    /\ Known(m, x) /\ x # row[m].x /\ x.kind = "full" /\ x.dir = row[m].dir
    /\ row[m].st = "pending_followup"
    /\ SetRow(m, "new", x.dir, x)
    /\ IF fresh[m] THEN Begin("ready", m, x) ELSE UNCHANGED task
    /\ UNCHANGED <<hold, held, claimed, trades, waiting>>

\* A bare direction: process_instant_entry starts with a row of its own.
Instant(m, x) ==
    /\ Unknown(m, x) /\ x.kind = "now"
    /\ \/ ~ime /\ UNCHANGED <<row, task>>
       \/ ime /\ fresh[m] /\ SetRow(m, "instant_pending", x.dir, x) /\ Begin("instant", m, x)
       \/ ime /\ ~fresh[m] /\ SetRow(m, "instant_historical", x.dir, x) /\ UNCHANGED task
    /\ UNCHANGED <<hold, held, claimed, trades, waiting>>

\* record_staleness_or_new
Record(m, x) ==
    /\ SetRow(m, IF fresh[m] THEN "new" ELSE "historical", x.dir, x)
    /\ task' = IF fresh[m] THEN [pc |-> "ready", m |-> m, x |-> x] ELSE Idle

Signal(m, x) ==
    /\ Unknown(m, x) /\ x.kind = "full"
    /\ Record(m, x)
    /\ UNCHANGED <<hold, held, claimed, trades, waiting>>

\* Nothing a parser reads.  Levels alone are read only by attach_followup.
Chatter(m, x) ==
    /\ Unknown(m, x)
    /\ x.kind = "chat" \/ (x.kind = "levels" /\ ~second)
    /\ UNCHANGED <<dbVars, task>>

\* Direction and entry, without the second message: a row waits for the edit.
Partial(m, x) ==
    /\ Unknown(m, x) /\ x.kind = "entry" /\ ~second
    /\ SetRow(m, "pending_followup", x.dir, x)
    /\ UNCHANGED <<hold, held, claimed, trades, waiting, task>>

-----------------------------------------------------------------------------
(* TP/SL in second message                                                  *)

\* Slip: a plain INSERT OR REPLACE starts the window again on every pass.
InsertHoldAgain(m, x) ==
    /\ Unknown(m, x) /\ x.kind = "entry" /\ second
    /\ hold[m].levels = {}
    /\ hold' = [hold EXCEPT ![m] = [NoHold EXCEPT !.st = "waiting"]]
    /\ held' = Append(SelectSeq(held, LAMBDA k : k # m), m)
    /\ UNCHANGED <<row, claimed, trades, waiting, task>>

\* Slip: a plain INSERT makes a second hold once the first is resolved.
InsertHoldPlain(m, x) ==
    /\ Unknown(m, x) /\ x.kind = "entry" /\ second
    /\ hold[m].st # "waiting"
    /\ hold' = [hold EXCEPT ![m].st = "waiting"] /\ held' = Append(held, m)
    /\ UNCHANGED <<row, claimed, trades, waiting, task>>

\* hold_or_resolve, no waiting hold: INSERT OR IGNORE keeps a resolved one.
InsertHold(m, x) ==
    /\ Unknown(m, x) /\ x.kind = "entry" /\ second
    /\ \/ /\ hold[m].st = "none"
          /\ hold' = [hold EXCEPT ![m].st = "waiting"] /\ held' = Append(held, m)
       \/ hold[m].st = "resolved" /\ UNCHANGED <<hold, held>>
    /\ UNCHANGED <<row, claimed, trades, waiting, task>>

\* hold_or_resolve: complete, or executed bare once the window is over.
ResolveHold(m, x) ==
    /\ Unknown(m, x) /\ x.kind = "entry" /\ second
    /\ hold[m].st = "waiting"
    /\ \/ hold[m].levels = {} /\ ~hold[m].due /\ UNCHANGED <<hold, task>>
       \/ /\ hold[m].levels # {} \/ hold[m].due
          /\ hold' = [hold EXCEPT ![m].st = "resolved"] /\ Begin("resolved", m, x)
    /\ UNCHANGED <<row, held, claimed, trades, waiting>>

\* attach_followup: the waiting hold without levels that was made last.  The
\* message leaves no trace of its own.
Attach(m, x) ==
    LET S == {i \in DOMAIN held : hold[held[i]].st = "waiting" /\ hold[held[i]].levels = {}} IN
    /\ Unknown(m, x) /\ x.kind = "levels" /\ second
    /\ \/ S = {} /\ UNCHANGED hold
       \/ S # {} /\ hold' = [hold EXCEPT ![held[Latest(S)]].levels = {m}]
    /\ UNCHANGED <<row, held, claimed, trades, waiting, task>>

-----------------------------------------------------------------------------
(* Executing                                                                *)

Trade(m, dir, by, st) ==
    trades' = Append(trades, [m |-> m, dir |-> dir, by |-> by, st |-> st])
\* An UPDATE; the row may have been deleted meanwhile.
SetStatus(m, st) == row' = [row EXCEPT ![m].st = IF @ = "none" THEN @ ELSE st]
Wait(m, dir, by) == waiting' = waiting \cup {[m |-> m, dir |-> dir, by |-> by]}
Busy(pc) ==
    /\ task.pc = pc
    /\ UNCHANGED <<ime, second, channelVars, hold, held, claimed, left, bot, mishaps, fired, raced>>

\* A held signal is recorded once its hold is resolved; an error on the way
\* leaves it with neither hold nor row.
RecordHeld ==
    /\ Busy("resolved")
    /\ \/ Record(task.m, task.x)
       \/ task' = Idle /\ UNCHANGED row
    /\ UNCHANGED <<trades, waiting>>

\* _execute_auto_signal: levels for an instant trade ...
Followup ==
    /\ Busy("ready") /\ ime /\ CompletesTrade(task.x.dir)
    /\ SetStatus(task.m, "followup_applied") /\ task' = Idle
    /\ UNCHANGED <<trades, waiting>>

\* ... or a signal of its own.  A gate says no, and the row stays as it is ...
OwnTrade == Busy("ready") /\ ~(ime /\ CompletesTrade(task.x.dir))

Refuse ==
    /\ OwnTrade /\ task' = Idle
    /\ UNCHANGED <<row, trades, waiting>>

\* ... the price is outside the zone ...
QueueSignal ==
    /\ OwnTrade /\ task' = Idle
    /\ SetStatus(task.m, "pending") /\ Wait(task.m, task.x.dir, "scan")
    /\ UNCHANGED trades

\* ... or the signal is stored as active, whatever the row says by now, ...
Activate ==
    /\ OwnTrade /\ task' = [task EXCEPT !.pc = "open"]
    /\ SetStatus(task.m, "activated")
    /\ UNCHANGED <<trades, waiting>>

\* ... and opened.  A failure goes back to the watcher, unless nobody knows
\* whether the order is live.
Open ==
    /\ Busy("open") /\ task' = Idle
    /\ \/ Trade(task.m, task.x.dir, "scan", "young") /\ UNCHANGED waiting
       \/ Wait(task.m, task.x.dir, "scan") /\ UNCHANGED trades
       \/ Trade(task.m, task.x.dir, "scan", "unseen") /\ UNCHANGED waiting
       \/ UNCHANGED <<trades, waiting>>
    /\ UNCHANGED row

Mishap(m) == mishaps < MaxMishaps /\ mishaps' = mishaps + 1 /\ raced' = raced \cup {m}

\* An order that is filled by an attempt that fails afterwards, before the
\* trade is recorded or after that ...
FilledThenFails(m, dir, by) ==
    /\ \E st \in {"unseen", "young"} : Trade(m, dir, by, st)
    /\ Mishap(m)
    /\ UNCHANGED <<ime, second, channelVars, row, hold, held, claimed, left, bot, fired>>

\* ... goes back to the watcher all the same.
OpenThenFails ==
    /\ task.pc = "open" /\ task' = Idle
    /\ FilledThenFails(task.m, task.x.dir, "scan") /\ Wait(task.m, task.x.dir, "scan")

\* process_instant_entry: refused by a gate, or stored as active ...
InstantGate ==
    /\ Busy("instant")
    /\ \/ task' = Idle /\ UNCHANGED row
       \/ /\ SetStatus(task.m, "instant_activated")
          /\ task' = [task EXCEPT !.pc = "instant_open"]
    /\ UNCHANGED <<trades, waiting>>

\* ... and opened; any failure, a lost answer or an error after the fill too,
\* drops the signal.
InstantOpen ==
    /\ Busy("instant_open") /\ task' = Idle
    /\ \/ Trade(task.m, task.x.dir, "ime", "young") /\ UNCHANGED row
       \/ /\ SetStatus(task.m, "instant_failed")
          /\ \E st \in {"unseen", "young"} : Trade(task.m, task.x.dir, "ime", st)
       \/ SetStatus(task.m, "instant_failed") /\ UNCHANGED trades
    /\ UNCHANGED waiting

-----------------------------------------------------------------------------
(* The operator, the watcher, time and death                                *)

Raced(m) == raced' = IF task.m = m THEN raced \cup {m} ELSE raced

\* Slip: /activate forgets the row it took its signal from.
BotTakeOnly(m) ==
    /\ bot = NoBot /\ row[m].st = "new"
    /\ bot' = [m |-> m, dir |-> row[m].dir] /\ Raced(m)
    /\ UNCHANGED <<ime, second, channelVars, dbVars, left, task, mishaps, fired>>

\* cmd_activate takes the newest 'new' row (which one is left open here).
BotTake(m) ==
    /\ bot = NoBot /\ row[m].st = "new"
    /\ bot' = [m |-> m, dir |-> row[m].dir] /\ SetStatus(m, "activated") /\ Raced(m)
    /\ UNCHANGED <<ime, second, channelVars, hold, held, claimed, trades, waiting, left, task,
                   mishaps, fired>>

\* It opens the trade, parks the signal, or gives up (no price, or an error).
BotOpen ==
    /\ bot # NoBot /\ bot' = NoBot
    /\ \/ Trade(bot.m, bot.dir, "bot", "young") /\ UNCHANGED waiting
       \/ Wait(bot.m, bot.dir, "bot") /\ UNCHANGED trades
       \/ UNCHANGED <<trades, waiting>>
    /\ UNCHANGED <<ime, second, channelVars, row, hold, held, claimed, left, task, mishaps,
                   fired, raced>>

\* execute_sig: a signal of its own, opened or left to the watcher; the row,
\* whatever its status, stays as it is.
ExecuteRow(m) ==
    /\ row[m] # NoRow
    /\ Mishap(m)
    /\ \/ Trade(m, row[m].dir, "table", "young") /\ UNCHANGED waiting
       \/ Wait(m, row[m].dir, "table") /\ UNCHANGED trades
    /\ UNCHANGED <<ime, second, channelVars, row, hold, held, claimed, left, task, bot, fired>>

\* delete_sig
DeleteRow(m) ==
    /\ row[m] # NoRow
    /\ Mishap(m)
    /\ row' = [row EXCEPT ![m] = NoRow]
    /\ UNCHANGED <<ime, second, channelVars, hold, held, claimed, trades, waiting, left, task,
                   bot, fired>>

Elsewhere ==
    UNCHANGED <<ime, second, bufferVars, says, held, claimed, left, task, bot, mishaps, fired, raced>>

Opener(w) == IF w.by = "scan" THEN "watcher" ELSE w.by

\* find_open_trade_for_signal
HasOpenTrade(w) ==
    \E i \in DOMAIN trades : /\ trades[i].m = w.m /\ trades[i].st \in {"young", "old"}
                             /\ trades[i].by \in {w.by, Opener(w)}

\* The pending watcher opens a waiting signal, or drops it: expired, given up,
\* or already with an open trade.
Watch(w) ==
    /\ waiting' = waiting \ {w}
    /\ \/ /\ ~HasOpenTrade(w)
          /\ Trade(w.m, w.dir, Opener(w), "young")
          /\ row' = [row EXCEPT ![w.m].st = IF @ = "pending" THEN "activated" ELSE @]
       \/ UNCHANGED <<trades, row>>
    /\ Elsewhere /\ UNCHANGED <<fresh, hold>>

\* A failure after the fill, or the process's death: it tries again.
WatchThenFails(w) ==
    /\ ~HasOpenTrade(w)
    /\ FilledThenFails(w.m, w.dir, Opener(w))
    /\ UNCHANGED <<waiting, task>>

\* Four minutes are over for a message and those before it; nobody asks once
\* the message has been taken up.
GrowOld(m) ==
    /\ fresh[m] /\ row[m].st \in {"none", "pending_followup"}
    /\ fresh' = [k \in Messages |-> k > m /\ fresh[k]]
    /\ Elsewhere /\ UNCHANGED <<row, hold, trades, waiting>>

\* The match window is over for a hold and those before it.
HoldDue(i) ==
    /\ hold[held[i]].st = "waiting" /\ ~hold[held[i]].due
    /\ hold' = [m \in Messages |-> IF \E j \in 1..i : held[j] = m
                                   THEN [hold[m] EXCEPT !.due = TRUE] ELSE hold[m]]
    /\ Elsewhere /\ UNCHANGED <<fresh, row, trades, waiting>>

\* ime_followup_timeout_s is over for a trade and those before it.
TradeAges(i) ==
    /\ trades[i].st = "young" /\ trades[i].by \in Direct /\ ime
    /\ trades' = [j \in DOMAIN trades |->
                    [trades[j] EXCEPT !.st = IF j <= i /\ @ = "young" THEN "old" ELSE @]]
    /\ Elsewhere /\ UNCHANGED <<fresh, row, hold, waiting>>

\* A trade of the channel is closed by its stop or its targets.
TradeEnds(i) ==
    /\ trades[i].st \in {"young", "old"} /\ trades[i].by # "bot"
    /\ trades' = [trades EXCEPT ![i].st = "closed"]
    /\ Elsewhere /\ UNCHANGED <<fresh, row, hold, waiting>>

\* The process dies and takes buffer and tasks with it.
Crash ==
    /\ mishaps < MaxMishaps /\ mishaps' = mishaps + 1
    /\ Forget
    /\ left' = 0 /\ task' = Idle /\ bot' = NoBot
    /\ UNCHANGED <<ime, second, says, fresh, dbVars, fired, raced>>

-----------------------------------------------------------------------------
ScanMessage ==
    \E m \in Scanned \cap {left} : LET x == says[m][buffer[m]] IN
        \/ Trigger(m, x) \/ Dedup(m, x)
        \/ EditInstant(m, x) \/ EditLevels(m, x) \/ EditFlip(m, x) \/ Promote(m, x)
        \/ Instant(m, x) \/ Signal(m, x) \/ Chatter(m, x) \/ Partial(m, x)
        \/ InsertHold(m, x) \/ ResolveHold(m, x) \/ Attach(m, x)

Scan == ScanStart \/ Skip \/ ScanMessage

Execute ==
    \/ CloseAll \/ RecordHeld \/ Followup \/ Refuse \/ QueueSignal \/ Activate \/ Open
    \/ OpenThenFails \/ InstantGate \/ InstantOpen

Next ==
    \/ Post \/ (\E m \in Messages : Edit(m))
    \/ \E m \in Messages : \E v \in 1..version[m] : Arrive(m, v)
    \/ Scan \/ Execute
    \/ (\E m \in Messages : BotTake(m)) \/ BotOpen
    \/ \E m \in Messages : ExecuteRow(m) \/ DeleteRow(m)
    \/ \E w \in waiting : Watch(w) \/ WatchThenFails(w)
    \/ \E m \in Messages : GrowOld(m)
    \/ \E i \in DOMAIN held : HoldDue(i)
    \/ \E i \in DOMAIN trades : TradeAges(i) \/ TradeEnds(i)
    \/ LinkChanges \/ Crash

Spec == Init /\ [][Next]_vars

\* The scanner is a loop that starts again after every error; broker and
\* database calls end, if only by a timeout; time passes; and the buffer comes
\* to show what MessageBuffer promises.
Fairness ==
    /\ WF_vars(Scan) /\ WF_vars(Execute)
    /\ \A i \in Messages : WF_vars(i \in DOMAIN held /\ HoldDue(i))
    /\ \A m \in Messages : WF_vars(online /\ m \in Recent(PollLimit) /\ Arrive(m, version[m]))

FairSpec == Spec /\ Fairness

-----------------------------------------------------------------------------
(* Properties                                                               *)

Opened(m) == Cardinality({i \in DOMAIN trades : trades[i].m = m})

\* A message leads to at most one trade, however often it is scanned, edited,
\* shown in an old version, held for its levels, parked for the watcher or met
\* by a restart, unless the operator's /activate took its row while the scanner
\* was executing it, an attempt failed after its order was filled, or the
\* operator executed or deleted its row.
TradedOnce == \A m \in Messages \ raced : Opened(m) <= 1

\* A CLOSE ALL is carried out at most once in its life, edits and restarts
\* included: scanned every second, it never turns on a trade that comes later.
TriggerActsOnce == \A m \in Messages : fired[m] <= 1

\* A hold ends, completed or bare, as long as its message is among the last,
\* still is the entry it was, and in the buffer or still to be had from Telegram.
Resolvable(m) ==
    /\ online \/ buffer[m] = version[m]
    /\ m \in Recent(PollLimit) /\ says[m][version[m]].kind = "entry" /\ row[m] = NoRow
HoldsSettle ==
    \A m \in Messages : hold[m].st = "waiting" ~> (hold[m].st = "resolved" \/ ~Resolvable(m))
=============================================================================
