------------------------------ MODULE RiskHalts ------------------------------
(***************************************************************************)
(* What a closed trade does to the halts.                                  *)
(*                                                                         *)
(* record_close books the close and then re-evaluates, one database call   *)
(* after the other, the Risk Governor, the give-back guard and the daily   *)
(* loss ceiling.  Two callers may run it for the same trade (the EA's      *)
(* report and the monitor's reconcile), and tails of several trades        *)
(* interleave with each other, with the operator and with the passing of   *)
(* time: one action is the code between two awaits.                        *)
(*                                                                         *)
(* Time appears only as what it ends: a pause, the broker day.  A pause is *)
(* known by how far it reaches, and the windows the guards measure are the *)
(* closes stamped since they began.  The circuit breaker, the tail's last  *)
(* step, shares no state with these checks: module CircuitBreaker.         *)
(*                                                                         *)
(* Source: services/trading/close_trade.py, services/risk/governor.py,     *)
(* services/positions/core_bot_panel.py, services/telegram/bot_readonly.py,*)
(* frontend/app/_dialogs.py.                                               *)
(***************************************************************************)
EXTENDS Integers, Sequences

CONSTANTS
    Trades,      \* live trades that close during the run
    Closers,     \* tasks that run record_close
    Pnls,        \* what a trade may make or lose
    Start,       \* the account's balance
    DailyPct,    \* max_daily_loss_pct
    DrawdownPct, \* max_total_drawdown_pct
    Arm,         \* giveback_arm_usd
    GiveBackPct, \* giveback_pct
    NoTrade,     \* "no trade" marker
    NoCloser     \* "nobody recorded the close" marker

ASSUME HaltsAssumption ==
    /\ Pnls \subseteq Int
    /\ Start \in Nat /\ DailyPct \in Nat /\ DrawdownPct \in Nat
    /\ Arm \in Nat /\ GiveBackPct \in Nat
    /\ NoTrade \notin Trades /\ NoCloser \notin Closers

\* How far trade_pause_until reaches: not at all, to some time today, to the
\* end of the broker day, beyond it.
Off == 0
Short == 1
DayEnd == 2
Long == 3
Pauses == {Off, Short, DayEnd, Long}

VARIABLES
    governor,       \* risk_governor_enabled
    state,          \* [Trades -> ...]: open, shut at the broker, booked
    net,            \* [Trades -> Int]: what the close books as net_pnl
    winner,         \* [Trades -> Closers]: whose apply_full_close wrote the row
    day, run,       \* closes stamped since the broker day / the guards' window began
    balance, peak,  \* the live balance, app_config.peak_balance
    pause,          \* app_config.trade_pause_until
    task,           \* [Closers -> ...]: where each caller of record_close is
    missed          \* history, see below

ledger == <<state, net, winner, balance>>
windows == <<day, run>>
haltsVars == <<governor, ledger, windows, peak, pause, task, missed>>

\* missed: the ways a check was skipped, hidden or overruled since a close was
\* last stamped, whose tail asks all guards again --
\*   "masked"     a guard found a pause in force and wrote nothing
\*   "unreadable" it could not read the pause, which reads as "paused"
\*   "shortened"  the governor replaced a longer pause
\*   "repaused"   the operator did
\*   "lifted"     the dashboard ended the pause and left the windows as they were
\*   "settled"    the broker's figure replaced the estimate after the checks
\*   "fallback"   the simulated balance stood in for the live one
\*   "skipped"    an exception ended the checks early
\*   "died"       the process did
Misses == {"masked", "unreadable", "shortened", "repaused", "lifted", "settled",
           "fallback", "skipped", "died"}

Stamps == [t : Trades, by : Closers]
Steps == {"idle", "stamped", "booked", "governor", "giveback", "daily"}

HaltsTypeOK ==
    /\ governor \in BOOLEAN
    /\ state \in [Trades -> {"open", "shut", "booked"}]
    /\ net \in [Trades -> Pnls \cup {0}]
    /\ winner \in [Trades -> Closers \cup {NoCloser}]
    /\ day \in Seq(Stamps) /\ run \in Seq(Stamps)
    /\ balance \in Int /\ peak \in Int
    /\ pause \in Pauses
    /\ task \in [Closers -> [pc : Steps, t : Trades \cup {NoTrade}, bal : Int]]
    /\ missed \subseteq Misses

\* A task: its step, its trade and its live_balance.
Idle == [pc |-> "idle", t |-> NoTrade, bal |-> 0]

HaltsInit ==
    /\ governor \in BOOLEAN
    /\ state = [t \in Trades |-> "open"]
    /\ net = [t \in Trades |-> 0]
    /\ winner = [t \in Trades |-> NoCloser]
    /\ day = <<>> /\ run = <<>>
    /\ balance = Start /\ peak = Start
    /\ pause = Off
    /\ task = [c \in Closers |-> Idle]
    /\ missed = {}

-----------------------------------------------------------------------------
(* The figures the guards replay from the ledger                            *)

\* closed_pnls_since: the recorded closes of a window, in the order of their stamps.
Recorded(window) == SelectSeq(window, LAMBDA s : winner[s.t] = s.by)

\* day_pnl_and_peak walks the recorded closes: what they come to after each stamp.
Running(window) ==
    LET Gain(s) == IF winner[s.t] = s.by THEN net[s.t] ELSE 0
        sum[k \in 0..Len(window)] == IF k = 0 THEN 0 ELSE sum[k - 1] + Gain(window[k])
    IN  sum
Realised(window) == Running(window)[Len(window)]
DayPeak(window) ==
    LET sums == {Running(window)[k] : k \in 0..Len(window)}
    IN  CHOOSE p \in sums : \A q \in sums : q <= p

\* check_daily_loss_limit, on a window and a balance.
LossBreach(window, bal) ==
    LET base == bal - Realised(window)
    IN  DailyPct > 0 /\ base > 0 /\ 100 * Realised(window) <= -(base * DailyPct)

\* rg_check_halt (C) takes the limit's absolute value instead of its sign.
GovernorBreach(window, bal) ==
    LET limit == (bal - Realised(window)) * DailyPct
    IN  DailyPct > 0 /\ 100 * Realised(window) <= -(IF limit < 0 THEN -limit ELSE limit)

\* check_giveback_guard.
GiveBackBreach(window) ==
    /\ Arm > 0 /\ GiveBackPct > 0
    /\ DayPeak(window) >= Arm
    /\ 100 * Realised(window) <= DayPeak(window) * (100 - GiveBackPct)

\* rg_check_halt (D).
Drawdown(bal) ==
    DrawdownPct > 0 /\ bal > 0 /\ peak > bal /\ 100 * (peak - bal) >= DrawdownPct * peak

-----------------------------------------------------------------------------
(* record_close                                                             *)

Goto(c, step) == task' = [task EXCEPT ![c].pc = step]
Done(c) == task' = [task EXCEPT ![c] = Idle]

\* The position is gone at the broker.
Shut(t) ==
    /\ state[t] = "open"
    /\ \E p \in Pnls :
           /\ net' = [net EXCEPT ![t] = p]
           /\ balance' = balance + p
    /\ state' = [state EXCEPT ![t] = "shut"]
    /\ UNCHANGED <<governor, winner, windows, peak, pause, task, missed>>

\* A caller reads the row and stamps the close.
Stamp(c, t) ==
    /\ task[c].pc = "idle" /\ state[t] # "open" /\ winner[t] = NoCloser
    /\ task' = [task EXCEPT ![c].pc = "stamped", ![c].t = t]
    /\ day' = Append(day, [t |-> t, by |-> c]) /\ run' = Append(run, [t |-> t, by |-> c])
    /\ missed' = {}
    /\ UNCHANGED <<governor, ledger, peak, pause>>

\* apply_full_close, a compare-and-set; the loser's stamp is never written.
Book(c) ==
    /\ task[c].pc = "stamped"
    /\ Goto(c, "booked")
    /\ LET t == task[c].t
           won == winner[t] = NoCloser
           others(s) == s # [t |-> t, by |-> c]
       IN  \/ /\ won
              /\ winner' = [winner EXCEPT ![t] = c]
              /\ state' = [state EXCEPT ![t] = "booked"]
              /\ UNCHANGED windows
           \/ /\ ~won
              /\ day' = SelectSeq(day, others) /\ run' = SelectSeq(run, others)
              /\ UNCHANGED <<winner, state>>
    /\ UNCHANGED <<governor, net, balance, peak, pause, missed>>

\* The balance (get_trading_balance falls back to the simulated account, which
\* has drifted: here to the opening balance) and the watermark.
ReadBalance(c) ==
    /\ task[c].pc = "booked"
    /\ \E b \in {balance, Start} :
           /\ task' = [task EXCEPT ![c].pc = "governor", ![c].bal = b]
           /\ peak' = IF b > peak THEN b ELSE peak
           /\ missed' = IF b = balance THEN missed ELSE missed \cup {"fallback"}
    /\ UNCHANGED <<governor, ledger, windows, pause>>

\* rg_apply_halts_on_close writes whatever pause is in force over.
Governor(c) ==
    /\ task[c].pc = "governor"
    /\ Goto(c, "giveback")
    /\ pause' = IF ~governor THEN pause
                ELSE IF GovernorBreach(day, task[c].bal) THEN DayEnd
                ELSE IF Drawdown(task[c].bal) THEN Short ELSE pause
    /\ missed' = IF pause' < pause THEN missed \cup {"shortened"} ELSE missed
    /\ UNCHANGED <<governor, ledger, windows, peak>>

\* What both guards do with their verdict.
StopTheDay(breach) ==
    \/ ~breach /\ UNCHANGED <<pause, missed>>
    \/ breach /\ pause = Off /\ pause' = DayEnd /\ UNCHANGED missed
    \/ /\ breach /\ pause # Off
       /\ missed' = IF pause < DayEnd THEN missed \cup {"masked"} ELSE missed
       /\ UNCHANGED pause
    \/ breach /\ missed' = missed \cup {"unreadable"} /\ UNCHANGED pause

\* apply_giveback_guard_on_close.
GiveBack(c) ==
    /\ task[c].pc = "giveback"
    /\ Goto(c, "daily")
    /\ StopTheDay(GiveBackBreach(run))
    /\ UNCHANGED <<governor, ledger, windows, peak>>

\* Slip: the ceiling is looked at only with the governor switched on.
DailyLossGoverned(c) ==
    /\ task[c].pc = "daily"
    /\ Done(c)
    /\ IF governor THEN StopTheDay(LossBreach(run, task[c].bal))
       ELSE UNCHANGED <<pause, missed>>
    /\ UNCHANGED <<governor, ledger, windows, peak>>

\* apply_daily_loss_halt_on_close.
DailyLoss(c) ==
    /\ task[c].pc = "daily"
    /\ Done(c)
    /\ StopTheDay(LossBreach(run, task[c].bal))
    /\ UNCHANGED <<governor, ledger, windows, peak>>

\* An exception in one check skips the rest of the block.
SkipChecks(c) ==
    /\ task[c].pc \in {"governor", "giveback", "daily"}
    /\ Done(c)
    /\ missed' = missed \cup {"skipped"}
    /\ UNCHANGED <<governor, ledger, windows, peak, pause>>

-----------------------------------------------------------------------------
(* The operator, the broker's figures, time and death                       *)

\* /pause and the pause panel write their own time over whatever is there.
PauseTrading(p) ==
    /\ p # Off /\ pause' = p
    /\ missed' = IF p < pause THEN missed \cup {"repaused"} ELSE missed
    /\ UNCHANGED <<governor, ledger, windows, peak, task>>

\* cmd_resume / _resume_trading with rearm_risk_guards.
ResumeTrading ==
    /\ pause # Off
    /\ pause' = Off /\ run' = <<>>
    /\ UNCHANGED <<governor, ledger, day, peak, task, missed>>

\* The dashboard's two buttons, _do_resume and _do_confirm_resume, re-arm nothing:
\* the next close finds the same breach and stops the day again.
DashboardResume ==
    /\ pause # Off
    /\ pause' = Off
    /\ missed' = missed \cup {"lifted"}
    /\ UNCHANGED <<governor, ledger, windows, peak, task>>

\* sync_profit replaces the estimate; no halt is looked at again.
Settle(t) ==
    /\ state[t] = "booked"
    /\ \E p \in Pnls \ {net[t]} : net' = [net EXCEPT ![t] = p]
    /\ missed' = missed \cup {"settled"}
    /\ UNCHANGED <<governor, state, winner, balance, windows, peak, pause, task>>

\* A pause that ends today runs out.
PauseEnds ==
    /\ pause = Short /\ pause' = Off
    /\ UNCHANGED <<governor, ledger, windows, peak, task, missed>>

\* The broker day ends, with what was measured in it.
NewDay ==
    /\ day # <<>> \/ pause > Short
    /\ day' = <<>> /\ run' = <<>>
    /\ IF pause = Long THEN pause' \in {Short, DayEnd, Long} ELSE pause' = Off
    /\ UNCHANGED <<governor, ledger, peak, task, missed>>

\* The process dies at work: what the tasks knew is gone.
Die ==
    /\ \E c \in Closers : task[c].pc # "idle"
    /\ task' = [c \in Closers |-> Idle]
    /\ day' = Recorded(day) /\ run' = Recorded(run)
    /\ missed' = missed \cup {"died"}
    /\ UNCHANGED <<governor, ledger, peak, pause>>

-----------------------------------------------------------------------------
CloseStep(c) ==
    Book(c) \/ ReadBalance(c) \/ Governor(c) \/ GiveBack(c) \/ DailyLoss(c) \/ SkipChecks(c)

HaltsNext ==
    \/ \E t \in Trades : Shut(t) \/ Settle(t) \/ \E c \in Closers : Stamp(c, t)
    \/ \E c \in Closers : CloseStep(c)
    \/ \E p \in Pauses : PauseTrading(p)
    \/ ResumeTrading \/ DashboardResume \/ PauseEnds \/ NewDay \/ Die

HaltsSpec == HaltsInit /\ [][HaltsNext]_haltsVars

-----------------------------------------------------------------------------
(* Properties                                                               *)

\* Every close is booked and every tail has run.
Quiet == (\A c \in Closers : task[c].pc = "idle") /\ \A t \in Trades : state[t] # "shut"

\* A day whose losses are past the ceiling, or that has handed back the profit
\* it had, is stopped to its end once the tails have run, whichever caller won
\* which close and whenever the operator paused or resumed, except where a check
\* was skipped, hidden or overruled in one of the named ways after the last close
\* was stamped: the next close makes good what an earlier one missed.
BreachStopsTheDay ==
    missed = {} /\ Quiet /\ (LossBreach(run, balance) \/ GiveBackBreach(run)) => pause >= DayEnd
=============================================================================
