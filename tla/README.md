# A TLA+ verification of the forex trading application

The application reads trading signals (Telegram channels, its own signal
engines, the dashboard), decides whether to trade them, sends orders to a
MetaTrader 5 terminal (through an MQL5 expert advisor, "the EA", or through a
Python bridge), manages the open positions and keeps the books in SQLite. It is
one asyncio process per machine; a second machine (the VPS) may run the same
program and receive orders from it.

What makes it hard is not the arithmetic. It is that every route is a coroutine
that reads the database, awaits a broker for seconds and then writes; that an
answer from the broker may be lost; that the process may die in between; and
that the money is real, so that both doing something twice and not doing it at
all are expensive. This project models those interleavings.

## 1. Inventory

Paths are under `src/backend/src/services/` unless they say otherwise.

| Component | State it keeps | Operations | Interacts with | Correct when |
|---|---|---|---|---|
| **Signal lifecycle** `trading/signal_state_repo.py`, `signals/repo.py`, `signals/cancellation.py` | `vantage_signals.status` | create, claim (`pending`/`active` -> `activating`), restore, park `unknown`, reset, expire, cancel, sweep of stranded claims | every opening route, reconciliation | one open in flight per signal; nothing that may have filled is re-queued; a claim never holds its slot for ever |
| **Order dispatch** `trading/open_from_signal.py`, `open_trade.py`, `send_dedup.py`, `broker/dedup.py` | trade id per attempt; rows of `vantage_simulated_trades` | resolve, claim, gates, EA handoff, ask the broker, Python fallback, insert row | EA link, MT5 bridge, signal lifecycle | one trade id is at the broker at most once; the cap holds |
| **Pending-signal watcher** `signals/pending_activation.py`, `gap_revalidation.py` | list read once per pass, failure counters and back-off in memory | expire, skip, mark activated, open | dispatch, market data | a failure is counted once, three abandon the signal |
| **Unclaimed routes** `trading/scan_auto_execute.py`, `instant_entry.py`, `instant_followup.py`, `manual_market_order.py`, `bot_trading.py` | own signal row, inserted `active` | insert + open | dispatch | a failed send is parked, not re-sent |
| **Resting orders** `trading/limit_order_signal.py`, `resting_revalidation.py`, `broker/repo.py`, `broker/ea_bridge/_events.py` | `vantage_pending_orders.status`, grid-leg claims | place, fill, cancel, withdraw and re-arm, expire | EA events, watcher | one live broker order per setup |
| **Trade ledger** `trading/trade_repo.py`, `close_trade.py`, `partial_close.py`, `profit_sync.py` | rows, `remaining_lots`, `net_pnl`, account balance | full close, partial close, ladder close, profit sync | breaker, DPM, notifications | the same money is never booked twice; a close is announced once |
| **Position monitor** `positions/monitor_loop.py`, `monitor_cycle.py`, `handle_*.py`, `tp_ladder*.py`, `safety_net.py` | TP hits, trailing state | per-strategy exits | ledger, broker | each TP acted on once |
| **Reconciliation** `positions/reconciliation.py`, `core_orphan_reconcile.py`, `core_template_placeholder_repair.py`, `broker/position_sync.py`, `broker/untracked.py` | reports; adopted rows | diff with broker truth, adopt, repair | ledger, signal lifecycle | never acts on a broker it could not read |
| **Risk halts** `risk/governor.py`, `basket_breaker.py`, `circuit_breaker_repo.py`, `schedule.py`, `positions/core_equity_protect.py` | pause, breaker tally, daily loss, give-back peak, schedule | trip, expire, resume, count outcome | gates of dispatch, ledger | a halt blocks every send; an outcome is counted once |
| **EA link** `broker/ea_bridge/`, `positions/core_ea_link_watchdog.py`, `broker/ea_health.py` | socket, pending acks | send, ack, event dispatch, reconnect | dispatch, resting orders | an ack reaches the command it answers |
| **MT5 bridge** `broker/mt5_client.py`, `bridge_process.py`, `watchdog.py`, `src/mt5_bridge.py` | subprocess | place, close, query, restart | dispatch, ledger | no retry of an unanswered send |
| **Cluster sync** `cluster/sync/`, `cluster/remote/` | TLS sessions, heartbeats, relayed orders, remote stats | forward order, push stats, pair, update | dispatch on both machines | an order is executed on one machine |
| **Telegram intake** `telegram/`, `signals/scan_messages.py`, `parser.py`, `scan_edit_reparse.py`, `scan_staleness.py`, `channels/` | message cursor, dedup keys | scan, parse, edit | unclaimed routes | a message is traded once |
| **Signal engines** `reversal_engine/`, `breakout_signal/`, `ai/`, `trading/orb_execute.py` | model state, engine claims | score, propose, execute | dispatch | - |
| **Dynamic parameters** `dpm/` | tuned parameters | learn from closes | ledger | - |
| **Platform** `src/backend/src/{controllers,db,utils,config,runtime.py}`, `auth/`, `health/`, `notifications/` | sessions, licence, settings | HTTP, migrations, mail | all | - |
| **Analysis** `analytics/`, `backtest/`, `market/` | caches | read-only queries, replay | - | - |
| **Frontend, EA source, installer, tools** | - | - | - | - |

### Hard behaviours

The full list, each at its line and with the properties that would catch it, is
`PROJECT.json` "hazards". In short:

* a value read before an await and used after it (the watcher's list of pending
  signals; the row a close was computed from; the count of open trades);
* two coroutines opening the same signal, or opening two signals for one slot;
* an order that got no answer: lost ack, timed-out drain, EA acting late;
* death of the process between the send and the row;
* sweeps and retries that re-do what was already done.

## 2. Plan

| # | Module | Status |
|---|---|---|
| 1 | `OrderDispatch` - signal lifecycle, watcher, claimed and unclaimed routes, EA handoff, fallback, errors after the fill, crash | written, checked, proved |
| 2 | `TradeLedger` - partial and full closes, TP ladder, residual, EA reports and position sync against the profit sync: rows, balance, breaker tally, announcements | written, checked, proved |
| 3 | `OrderForwarding`, and `SignalContract`, the abstract life of a signal it implements - two machines: forwarded orders, acks, reconnects, the stranded-claim sweep | written, checked, proved (the refinement too) |
| 4 | `ControlHandover` - which of the two machines trades: stand-down, resume, engines | written, checked, proved |
| 5 | `RestingOrders` - limit orders, fills, withdrawal and re-arm, cancellation, restore after a reconnect | written, checked, proved |
| 6 | `RiskHalts` - governor, give-back guard, daily-loss ceiling, the operator's pause | written, checked, proved |
| 7 | `CircuitBreaker` - the consecutive-loss breaker and its baskets | written, checked, proved |
| 8 | `MessageReader`, and `MessageBuffer`, what it promises - events, poll, lost connections, restart | written, checked, safety of the refinement proved |
| 9 | `MessageScanner` on top of `MessageBuffer` - dedup, edits, triggers, holds, immediate entry, /activate, rows executed and deleted by hand | written, checked, proved |
| 10 | `SettingsSync` - the settings of the two nodes: proposals, broadcasts, mirroring, restarts | written, checked, proved |
| 11 | `Reconciliation` - placeholder repair, orphan adoption, resolution of `unknown` | left |
| 12 | an abstract ledger (a trade's money is booked once) refined by `TradeLedger`; `OrderDispatch` as a refinement of `SignalContract` | left |
| 13 | `managed_by` as a variable (EA reclaim), which merges the Python and EA runs of the ledger; ladder legs, gap-fire levels, bridge watchdog | left |

Every invariant and every safety action property of the runs has its theorem.
Still worth proving: the refinements of row 12, and what the invariants of
section 5 say beyond the properties, as action properties (which step may close
a row, lower a pause or put an order on the book).

## 3. The modules and the code

Each module models one asyncio process, or two where it names both nodes.
A step is what runs between two awaits
that matter: a database call (they are serialised by one worker thread,
`db/database.py`), a broker call, or the handling of its answer. Everything
between a read and the write computed from it is a separate state, so other
tasks may run there. A name that begins with "Slip:" in a comment is a
deliberately wrong variant of the definition below it, used to show that the
properties can fail.

### OrderDispatch

| State | Code |
|---|---|
| `status`, `fails` | `vantage_signals.status`, the watcher's in-memory failure counters |
| `queue` | the list of pending signals the watcher read at the start of its pass |
| `row` | `vantage_simulated_trades.status` per trade id |
| `ea` | what became of the `open_trade` command: unsent, buffered for the EA, executed, refused |
| `placed`, `owner` | the broker (external): orders placed per trade id, and the signal they were for |
| `pc`, `job`, `tid`, `why` | where each coroutine is, its signal, its trade id, the cause of its failure |
| `late`, `orphan`, `uncharged` | history: ids the EA acted on after the broker was asked, ids in flight when the process died, ids whose slot was given away |
| `crashes` | process deaths so far |

Actions follow the routes: `WatcherScan ... CountFailure`
(`pending_activation.py`), `DirectOpen`, `ClaimWon`, `ClaimLost`
(`open_from_signal.py`, `signal_state_repo.py`), `ScanOpen`, `GridOpen`,
`ImmediateEntry`, `ManualMarketOrder`, `BotActivate`, `BotWaits` and the
`Fail*` actions (the routes without a claim), and the stages of `open_trade`:
`Gates`, `HandoffSend`, `HandoffSendFails`, `EaAck`, `EaTimeout`, `Ask`,
`Place`, `Record`. `RecordThenFails` is an error raised between the insert of
the row and the end of the caller's `try`, which each caller handles as if the
open had failed. `DirectOpen` also takes a signal that is already `active` (a
button of a page drawn earlier). `Release` is the sweep of stranded claims, `Crash` the death
of the process. Prices, sizing and risk gates are abstracted to "accepted or
refused".

### TradeLedger

| State | Code |
|---|---|
| `held`, `deals`, `fills`, `seen` | broker: open volume, realised profit, closes per TP level, what the deal history shows (it may lag) |
| `watched`, `armed` | the EA: the tickets in `g_trades`, and the levels it has not triggered |
| `hello`, `inbox` | trades a new connection has still to be asked about; events the EA has written and `ea_bridge` has not handled |
| `st`, `rem`, `net`, `stamp`, `taken` | the row: `status`, `remaining_lots`, `net_pnl`, `mt5_profit`, and its TP markers in `vantage_partial_closes` |
| `credit` | the part of `vantage_simulation_account.balance` this trade has moved |
| `pc`, `job`, `due` | the tasks; `due` holds the detached `_close_full_after_tps` calls not yet run |
| `told`, `scored` | close announcements and breaker outcomes, counted |
| `raced` | history variable: which of fourteen named races the trade has been through (listed at `Races`) |

| Action | Code |
|---|---|
| `LadderHit`, `LadderSend` | `run_tp_ladder`: level reached, partial close sent, answered, refused or lost |
| `PartialRead`, `PartialApply` | `partial_close_trade`, `apply_partial_close_with_reason` |
| `Residual` | `_close_full_after_tps`: reopen and close what is left, or announce |
| `MonitorPick`, `StopCheck`, `PositionSync` | the monitor's cycle: `check_profit_close_target`, `reconcile_sl_hit`, `sync_closed_mt5_positions` |
| `UserClose`, `CloseSend` | `close_trade` and the broker close shared with the profit target and the residual |
| `FullRead`, `FullApply` | `record_close`, `apply_full_close`, and the tail the winner runs |
| `EaEvent` | `_on_tp_hit`, `_on_trade_closed` with `_broker_exit_price` |
| `SyncRead`, `SyncApply` | `sync_profit` from the retry ladder or the sweep, `apply_profit_sync` |
| `EaTakeProfit`, `EaReportClosed`, `LinkLost`, `Restore` | `ForexTraderBridge.mq5`: `DoPartialClose` and `DoCloseAll`; `CheckForClosures`, which reports a missing ticket once and forgets it; the socket, or a reload that empties `g_trades`; `HandleRestoreTrade`, asked for by `_restore_open_trades` on the EA's hello |
| `EaRepeat` | a `tp_hit` reported twice, which the guard of `apply_partial_close_with_reason` is for |
| `BrokerExit`, `ByHand`, `HistoryArrives` | the broker (external): a full exit, a partial close by hand in MT5, the deal history |

Volumes are whole tranches; a lot closed at a target earns `Win`, at the stop
`Loss`, and the broker keeps `Fee` per deal, which is what makes the estimate
in the row differ from the broker's figure. Which level a price reaches is a
free choice. The duplicate-report guard is `AlreadyBooked`: same level, lots
and price.

Several properties hold "unless the trade is marked": the code really has those
races, so the property says exactly which one is needed to break it. `raced` never influences an action.

### OrderForwarding and SignalContract

Under centralized signal generation the Mac runs every gate and the VPS
executes. `send_signal_order` waits on one event and one box shared by all
callers; the answer carries no request id.

| State | Code |
|---|---|
| `status` | `vantage_signals.status` on the Mac |
| `waiting` | callers of `send_signal_order` that await the ack event |
| `live`, `conns`, `wire`, `back` | the current websocket, and what is in flight on each connection in either direction |
| `serving` | the order `_handle_connection` is executing on the VPS, one per connection |
| `opened` | positions the VPS opened for the signal |
| `raced` | history: which of five undetected disturbances the signal went through |

| Action | Code |
|---|---|
| `CreateSignal`, `Expire` | the queue of the watcher |
| `Forward`, `ForwardOffline`, `ForwardTorn` | the forwarding branch of `open_trade` and `send_signal_order`: sent, not connected, `ConnectionClosed` while sending |
| `ReadAck`, `AckTimeout` | `_dispatch` of `signal_order_ack`, `wait_for` giving up; what `open_from_signal` and `send_dedup` make of each |
| `Release`, `Crash` | `release_stranded_activations`, death of the Mac |
| `Serve`, `Execute`, `Refuse`, `Blur`, `VpsRestart` | `_handle_signal_order` on the VPS: opened, refused, no answer from its broker |
| `Connect`, `Disconnect`, `Lose` | `_connect_once` and the network |

`SignalContract` is the life of a signal without links or processes: queued,
opening, confirmed, parked, dropped; given back only if nothing was traded,
confirmed only if something was, filled at most once. The mapping reads the
phase off `status` and `waiting`; a disturbed signal is `broken`, of which
nothing is promised.

### ControlHandover

| State | Code |
|---|---|
| `mac`, `vps` | `active_trader` in each node's database |
| `tab` | per browser tab: `_toggle_mode` of the header waiting for an answer |
| `link`, `wire`, `acks` | the sync link, requests and answers on it |
| `desk`, `running`, `listed` | engines running on either node, `sync_stood_down_engines` |
| `raced`, `failed` | history: the two ways exclusion is lost; a request was lost or given up |

`Press`, `PressTorn`, `Timeout` and `ReadAck` are the button and its outcomes;
`StandDown`, `Resume`, `EngineControl` the handlers of the VPS; `Connect`,
`Disconnect`, `MacRestart`, `VpsRestart` the environment.

### SettingsSync

Each node has its own table of risk settings. A save on the Mac is proposed to
the VPS, kept as unconfirmed and proposed again after every reconnect until a
broadcast shows its value; the VPS sends its whole table as the answer to a
proposal and as the welcome of a connection; the Mac copies every broadcast
except the keys it holds as unconfirmed. A save on the VPS itself is sent to
nobody (see the departures): the Mac learns of it with the next answer or
welcome. Nothing carries a version.

| State | Code |
|---|---|
| `value` | `vantage_risk_settings` of each node |
| `edits` | `update_risk_settings` calls between their UPDATE and the task that tells the other node, one per thread, and those the worker has posted to the loop |
| `pend` | `_pending_settings`, persisted in `app_config` |
| `todo` | tasks of `propose_settings` on the Mac |
| `link`, `greeted`, `made`, `wire`, `back` | the connection in use, and what is unread on each |
| `owed` | a proposal the VPS has applied and not yet answered: its worker thread may save in between |
| `want`, `mine`, `untold`, `raced` | history: the Mac's newest edit, whether the VPS has it, the keys the VPS saved since it last sent its table, and the races a key went through |

| Action | Code |
|---|---|
| `Save`, `Skip`, `Enter`, `Post`, `Schedule` | `update_risk_settings`, its process-wide flag, `_forward_settings_over_sync`, `_schedule_coro` |
| `Propose`, `ReadWelcome`, `ReadState` | `propose_settings` with `_flush_pending_settings`, the welcome of `_connect_once`, `_dispatch` with `_mirror_settings_locally` |
| `Serve`, `Answer`, `Refuse` | `_handle_settings_propose`, `broadcast_settings` |
| `Connect`, `Disconnect`, `Lose`, `MacRestart`, `VpsRestart` | the handshake, the network, the processes |

### RestingOrders

One setup. `sig`, `row`, `ticket`, `filledBy` are the signal, the row of
`vantage_pending_orders` and the trade row a fill inserts; `book` is the broker,
`tracked` the EA's `g_pending`; `toEA`, `toApp`, `link` the socket; `opener`,
`ack`, `sweep`, `op`, `reader`, `restore` the app's tasks between two awaits.

| Action | Code |
|---|---|
| `StoreSignal`, `Place`, `PlaceAck`, `PlaceFails` | `handle_limit_order_signal`, `place_manual_limit_order`, the Reversal Engine's limit entry |
| `SweepRead ... SweepRearmFails` | `resting_revalidation.py`: withdraw what the gates refuse, re-arm what they allow |
| `CancelSignal`, `OperatorSend`, `OperatorMark`, `PanelCancel` | `cancellation.py`, the panel's buttons |
| `WatcherExpires`, `WatcherOpens`, `ReleaseClaim`, `Lapse` | the watcher and the sweep of claims beside the order; the order's life |
| `ReadAnswer`, `ReadReport`, `ApplyFilled`, `ApplyCancelled` | `ea_bridge` reader, `_on_pending_order_*`, `apply_pending_fill`, `apply_pending_cancelled` |
| `EaPlaces`, `EaCancels`, `EaRestores`, `EaChecks` | the handlers of `ForexTraderBridge.mq5`; an `OrderDelete` may fail and leave the order resting |
| `Fill`, `Remove`, `Blink`, `LinkDown`, `LinkUp`, `RestoreRow` | broker and socket; `_restore_pending_orders` on the EA's hello |

### RiskHalts

The tail of `record_close`: `Stamp`, `Book`, `ReadBalance`, `Governor`,
`GiveBack`, `DailyLoss`, one database call each, run by two callers. `day` and
`run` are the stamped closes of the broker day and of the window the guards
measure, `Running` the profit after each of them; `pause` is
`trade_pause_until` by how far it reaches. Two resumes end a pause:
`ResumeTrading` (the bot) re-arms the guards, `DashboardResume` (the two buttons
of `_dialogs.py`) does not. `PauseTrading`, `Settle`, `PauseEnds`, `NewDay`,
`Die` are operator, profit sync, time and death. `missed` records the nine ways
in which a check is skipped, hidden or overruled; the next close starts it
afresh, because its own tail asks every guard again.

### CircuitBreaker

The last step of the same tail. `consec`, `cooling` are the breaker's config
rows, `basketOf`, `legs`, `scored`, `gain` the in-memory registry of
`basket_breaker.py`. `ScoreAlone` and `WriteLoss` are the two statements of
`record_live_trade_outcome`, between which `ResetBreaker` (the settings page,
another thread) and `SettingsMirror` may run: counter and cooldown are among
the settings the two nodes sync, so a snapshot or a proposal of the other node
overwrites them. `base` is what the counter was last set to. `ScoreLeg` is `score_close` for a leg; `Announce` is
`register`, called by the EA's `basket_close` event, by equity protection and
by basket harvest.

### MessageBuffer, MessageReader, MessageScanner

`MessageBuffer` is what the scanner may rely on: the buffer shows some version
of each message, not always a newer one than before, is empty after a restart,
and, while the reader is connected to Telegram (`online`), keeps coming back to
the newest version of the last few messages.
`MessageReader` implements it with the bounded event queue (`NewMessage`,
`MessageEdited`, `ProcessEvent`), the poll (`Fetch`, `RecordMessage`), which an
event may overtake, and `Restart`. The connection drops (`LinkDrops`), comes back
by itself (`LinkReturns`) or is made again by the watchdog, which tries once
(`Watchdog`) and whose failure only the operator ends (`Reconnect`); both replace
the listeners. `MessageScanner` extends `MessageBuffer`: a pass goes over the buffer
newest first (`ScanStart`, `Skip`, and one action per branch of
`scan_messages`: `Trigger`, `Dedup`, `EditInstant`, `EditLevels`, `EditFlip`,
`Promote`, `Instant`, `Signal`, `Chatter`, `Partial`, `InsertHold`,
`ResolveHold`, `Attach`), and what it starts runs on (`CloseAll`, `RecordHeld`,
`Followup`, `Refuse`, `QueueSignal`, `Activate`, `Open`, `InstantGate`,
`InstantOpen`) while `/activate` (`BotTake`, `BotOpen`), the message table's
buttons (`ExecuteRow`, `DeleteRow`), the watcher and the clock go on.
`OpenThenFails` and `WatchThenFails` are attempts whose order is filled and that
fail afterwards, with the trade recorded or not: the signal is queued again. A
text is the class the parsers put it in.

## 4. Runs

| Run | Instance | Shows |
|---|---|---|
| `dispatch_safety` | watcher + direct caller, 2 signals, 1 slot, late EA, 1 crash (1.5 M states) | claims exclusive, no duplicate order by the fallback, cap kept, `unknown` never re-queued |
| `dispatch_routes` | 1 signal, the watcher, a direct caller and the five routes without a claim, late EA, 1 crash, fair (105 k) | a signal back in the queue left no order behind; every claim is resolved |
| `ledger_python` | 1 trade, 2 lots, 2 levels, ladder + residual + monitor + user + sync, closes by hand, lag, blind reads, 1 crash, fair (464 k) | books, verdicts, levels, row against broker; a position gone at the broker is closed in the books and stamped |
| `ledger_ea` | 1 EA-managed trade of 2 lots and 1 level, reader + monitor + sync, closes by hand, repeated, priceless and lost reports, lag, blind reads, 1 crash or lost connection, fair (317 k) | row against broker, final stamps, settlement |
| `forwarding` | 2 signals, 2 forwards each, 2 connections, 1 crash (455 k) | an order is opened once, a reported success is a position, and every step is one of `SignalContract`'s |
| `handover` | 2 tabs, 2 engines, 6 requests, fair (75 k) | two traders only while handing back, none only while taking over, and that moment ends |
| `settings` | 1 key, 3 values, 3 saves or process deaths, 2 connections, fair (429 k) | the nodes agree when all is quiet on what the VPS has sent, the Mac's newest edit is neither forgotten nor undone, an unconfirmed edit is confirmed |
| `resting` | 3 tickets, 2 lost connections, 2 unread commands, fair (124 k) | one live order per setup, the row agrees with the broker when all is quiet, every fill is recorded |
| `halts` | 2 trades, 2 callers, wins and losses of 2, ceiling 2 (717 k) | a breach has stopped the day once all tails have run |
| `breaker` | 3 trades, 2 callers, 1 basket name, threshold 3 (1.7 M) | the counter is what it was last set to plus the losses counted since; no leg of an announced basket counts alone |
| `reader` | 3 posts, 2 edits, queue of 2, 2 crashes or lost connections, fair (142 k) | the reader implements `MessageBuffer`, fairness included |
| `scanner` | 2 messages, 1 edit, 4 scripts, both settings, 1 mishap (crash, lost connection, failure after a fill, row executed or deleted), fair (480 k) | a message is traded once, CLOSE ALL acts once, holds end |

Departures from what the comments say, and behaviours a reader of the code
would not expect, are visible in the models as the exceptions the properties
name. They have no run of their own.

*Dispatch and ledger*

* the claim accepts `active`, the status the winner's row leaves behind
  (`signal_state_repo.py:95`): a caller that resolved the signal while it was
  pending claims it once the winner has finished and opens a second position
  ("The loser bails out here", `open_from_signal.py:105`);
* death between the fill and the row: the sweep re-queues the claim and the
  watcher opens a second position (`signal_state_repo.py:9-10` says a signal
  that may have filled is not re-queued);
* an error after the row was inserted, inside the same `try`, is handled as a
  failed open (`scan_auto_execute.py:676-787`, `instant_entry.py:520-637`): the
  signal goes back to `pending` with its trade open, and only the watcher's
  duplicate guard (`pending_activation.py:527-536`) keeps it from a second one;
  once that trade is closed nothing does, and if no row was written nothing ever
  did (`raced` in `TradedOnce`);
* a partial booked between the read and the write of a full close stays in the
  balance, is overwritten in the row, and the profit sync pays it again
  (`trade_repo.py:743-744` against `close_trade.py:200`);
* a failed position read is taken for an empty account and a full close is
  booked (`monitor_loop.py:67`, against rule 135 of
  `docs/system/rules/20-trading-safety.md`);
* the re-check of a zero stamp replaces the stamp and neither the row's profit
  nor the balance (`trade_repo.py:721-722`, `757`);
* the EA may act on a buffered command after the broker answered `absent`, and
  the trade id is then placed twice (`late` in `OneOrderPerTrade`);
* immediate entry deletes the signal of an unanswered send, and the watcher's
  last permitted failure expires a signal that was just parked, so such a send
  does not always end in `unknown`; the watcher's stale list can expire one
  parked by another route;
* a route without a claim, and an order behind a parked signal, hold no slot
  (`uncharged` in `SlotsWithinCap`);
* a ladder close whose answer was lost is sent again on the next poll
  (`unanswered` in `LevelTakenOnce`);
* the stop check books lots the EA has closed and not yet reported, and the
  report books them again (`guess` in `RowTracksBroker`);
* the ladder's last level, booked on a row closed meanwhile, announces the close
  a second time (`late` in `OneVerdict`);
* two connections of the EA may apply events at once after a reconnect, and a
  partial close is lost from `remaining_lots` (`overlap`);
* while the deal history lacks the last deal, the sum of the earlier partials
  is stamped as final (`lagged` in `StampIsFinal`);
* the EA reports a missing ticket once and forgets it (`mq5:3107-3108`), while
  `_events.py:315-321` says it re-reports on every `CheckForClosures` cycle: a
  report without a price that the history does not bear out leaves the row open
  until the next hello asks about it (`unverified` in `ExitsSettle`);
* an EA trade ended by its last level has its row closed by the partial; the
  `trade_closed` that follows finds it closed, so nobody announces the close or
  feeds the breaker;
* a reloaded EA works out which levels were taken from `remaining_lots` of the
  row, and takes one again whose report was lost (`rearmed`);
* lots closed by hand in MT5 are noticed by comparing volumes, or not at all if
  the numbers happen to fit (`byhand`).

*Two machines*

* a forwarded open that succeeded leaves its claim `activating`
  (`open_trade.py:343-345`); the sweep takes it for stranded and re-queues it
  (`swept`);
* one ack wakes every waiting caller (`mixed`); a send that raised after the
  frame was written is queued again (`torn`); an outcome unknown to the VPS
  arrives as a plain error (`blurred`); a process that dies while it waits
  leaves its claim to the sweep (`crashed`);
* a hand-back has a moment with two traders (`_header.py:372-379`, against
  "exactly one node ever executes new trades", `:291-292`), which lasts if the
  Mac dies in it; a second tab can take over on the answer to an earlier
  stand-down; a lost RESUME leaves nobody trading, since nothing compares the
  two records when the link returns; a second STAND_DOWN overwrites the list of
  stopped engines with an empty one, so that RESUME starts nothing.

*Settings*

* a save on the VPS is never broadcast: `client.get_instance()`
  (`client.py:756-760`) always makes a client, so `_forward_settings_over_sync`
  proposes to a connection the VPS does not have and returns
  (`risk_settings_repo.py:129-137`), against its docstring (`:122-126`) and that
  of `broadcast_settings` (`server.py:525-530`); the Mac learns of the save with
  the next welcome or answer (`untold` in `NodesAgree`);
* the Mac's unconfirmed value is sent again after a reconnect and overwrites a
  later edit made on the VPS: the last to arrive wins;
* a broadcast older than the Mac's save is copied over it if the save has no
  proposal yet, against the shield the mirror is meant to be
  (`client.py:396-401`; `mirrored`);
* the flag that stops echoes also silences a save of the other thread
  on the Mac (`risk_settings_repo.py:113`; `dropped`); a task of the loop overtakes one the
  worker posted before (`crossed`); a save whose task has not run dies with the
  process (`unsaved`);
* confirmation is by value: saving a value that is still under way takes an old
  broadcast for the answer (`reused`), and a frame of an abandoned connection
  may set back what a newer one brought (`straggler`);
* a refused proposal is logged and stays unconfirmed until the next reconnect
  (`refused`); so does one whose value the VPS's own save hid (`hidden`);
* `expert_params` forwards through `propose_expert_params`, which the client
  does not have, behind a `hasattr`: those are never synchronised.

*Resting orders*

* a cancel whose `OrderDelete` fails is only logged by the EA (`mq5:877-882`),
  and the app, which sent it, writes its row without waiting for the report: the
  row says withdrawn or cancelled while the order rests, and a re-arm makes a
  second one (`undeleted`);
* a re-arm looks neither at the signal's status nor at the slots: a signal
  cancelled while its order was withdrawn gets a new order
  (`cancellation.py:60`);
* an unanswered placement or re-arm is repeated and may make two orders
  (`unacked`); a lost cancel followed by a re-arm doubles it (`lost`); the sweep
  writes `withdrawn` over whatever the row says by then (`overtaken`); a fill
  with no row is dropped;
* the watcher hides only signals whose row is `working`: one whose order is
  withdrawn may be opened at market;
* `core_pending_order_revalidation.revalidate_pending_orders` is never called.

*Halts and breaker*

* a later close may shorten the governor's halt "for the rest of the broker
  day" (`governor.py:578`, `713-734`) to the drawdown pause; a guard that finds
  any pause in force, also a short one, writes nothing; the other ways are
  listed at `Misses`;
* the two resume buttons of the dashboard lift the pause and do not re-arm the
  guards (`_dialogs.py:122-125`, `185-191`; the bot's does, `governor.py:488`):
  a breached day is open until the next close, whose guard stops it again
  (`lifted`);
* `circuit_breaker_consec_losses` is a synced setting (`server.py:75-83`): the
  counts of the two nodes overwrite each other, and a write from the other node
  between a score's read and its write is undone (`cleared`);
* "no leg ever scores on its own" (`basket_breaker.py:18`) fails when the
  basket's name is still held by an earlier one, or the process restarted; a
  reset of the breaker between a score's read and its write is undone.

*Intake*

* a levels-only message keeps no row and no claim, so on successive passes it
  is attached to one waiting hold after the other
  (`second_message_repo.py:60-62`);
* a signal recorded `new` and not yet executed when the process dies is never
  executed; an error between `mark_resolved` and the row loses a held one; a
  partial completed after four minutes is `new` and never executed;
* `/activate` during a scan opens the message's trade twice (`raced`);
* Execute in the message table opens a trade of its own and leaves the row as it
  is (`_tg_signals.py:101-130`); Delete makes a message that is still in the
  buffer, and fresh, unknown again, so it is traded again (`:52-54`);
* after one failed reconnect the reader's state is `disconnected`, in which the
  watchdog does nothing (`reader_auth.py:308-312`, `342`): no message is read
  until the operator reconnects;
* a poll's page that an edit has overtaken puts the old text back until the
  next poll;
* edits and CLOSE ALL act on the channel's newest trade, not on the one their
  message opened; a hold whose message was edited or left the buffer stays
  `waiting`; an immediate entry with an unknown outcome is `instant_failed`.

**Bounds.** One trade suffices for the ledger because no action reads another
trade's row, and the proofs drop the bound; two lots and two levels give a
partial, a last level and a remainder. Two signals and one slot make the cap
bite; two make acks of different orders meet. One process death is enough
because after it all tasks are idle and only rows and broker differ from the
start. Two connections let an abandoned one deliver late. Three tickets are a
first order, a re-armed one and one too many. Two closes are an arming
profit and a breach, or a breach and a close racing it; three losses reach the
breaker's threshold. Two
messages with up to two versions each are an entry and its levels, a signal
and its CLOSE ALL, an immediate entry and the signal that completes it; the
four scripts are the combinations in which one acts on the other's trade.
Posts and edits are bounded by the script. `EaRepeat` sends a report again
only when none for that level is queued, which bounds the inbox; the reader
handles events one by one anyway. One EA level suffices since levels of the EA
do not meet except in the row. Two readers at once (`overlap`) make the ledger
too large for TLC and are covered by the proof alone. One
setting is enough for `SettingsSync` because keys only share the frames they
travel in, and the proofs drop the bound; three values are the default and one
each way, three events an edit on either side and a third save or a death
between them. Four
runs cut the search where the properties say little or nothing any more:
`resting` once a race has happened, `halts` at the second miss between two
closes, `settings` at the second race over one key, `scanner` after a mishap at
the second trade or waiting signal, the third while the channel has one message
(the constraints `Unraced`, `OneMiss`, `OneRace`, `MishapIsSmall`). Symmetry is used for interchangeable trades, callers and signals
in runs without liveness.

**Deadlock** is not checked: the system may stop when every trade is closed
and stamped, or every signal settled.

**Fairness.** Started coroutines run to their end (weak fairness of
`Continue`): the event loop schedules them and every broker call has a timeout.
The EA's reader is a loop. Position sync runs every sixth monitor cycle and the
profit sweep every twenty-fourth, on counters that nothing else resets, so
they happen again and again however often the task was busy in between: strong
fairness. The EA checks its tickets and reports a missing one once, and
reconnects on its timer, after which every open row is restored; the broker's
history catches up. The stranded-claim sweep is periodic.
In `ControlHandover` both ends read what has arrived. In `SettingsSync`
threads and tasks that were started go on, both ends read what has arrived, the
client reconnects for as long as it runs, and the last of the bounded number of
connections stays up. In `RestingOrders` the
app's started tasks go on, both readers read, ticks reach the EA and a lost
connection is made again; the sweep, the operator and the broker owe nothing.
In `MessageReader` the event processor is an endless loop that outlives errors;
the poll is one while the connection lasts, and nothing is assumed of its return. In `MessageScanner` the scan loop and what it started go on,
the match window of a hold ends, and the buffer keeps `MessageBuffer`'s
promise, which `reader` checks of the reader.
No fairness is assumed of users, prices, channels, the TP ladder or of the EA
acting on commands to open.

## 5. Proofs

Eight modules hold theorems. They prove safety for every value of the
constants: any number of tasks, signals, trades, lots, levels, prices,
connections, requests, messages and crashes. The assumptions are the named
`ASSUME`s of each module (types of the constants; at most one ladder task,
which is what `tp_ladder_fast_loop` is); no theorem has a hypothesis besides.
Each invariant was first
checked by TLC on instances like those of the runs.

* **OrderDispatchProofs.** Type correctness; `ClaimExclusive`;
  `OneOrderPerTrade`; `RequeuedIsClean`; the action property
  `UnknownNeverRequeued`. The inductive invariant relates each coroutine's
  program counter to the status of its signal and to where its trade id may be
  (fresh, buffered, asked for, placed, recorded): exclusiveness is not
  inductive alone, because a second claim is only excluded by what the first
  one's status says. `SlotsWithinCap` counts opens, while the guard of the claim
  counts rows and claims: `Budget` says that rows and claims together fit under
  the cap, which the guard keeps, and `Kept` that an open nobody overruled still
  has its claim. The opens in flight then map one to one into the claims.
* **TradeLedgerProofs.** Type correctness (`remaining_lots` stays in range);
  `BooksBalance`; `StampIsBooked`; `OneVerdict`; `LevelTakenOnce`;
  `RowTracksBroker`; `StampIsFinal`. The invariant `IInv` adds four parts to
  the first five. `InHand` types what a task carries from its read to its write
  (a partial never exceeds what it read). `Owners` says which kind of task may be where, that a level is booked
  by the ladder or by the EA's reader according to `managed_by` and never by
  both, that the level the ladder is working on has no marker yet, and that a
  trade whose residual is due is closed. `Verdicts`: an open row, and one whose
  residual is due, has been neither announced nor scored. `Rungs` follows a
  level from the close at the broker to the marker: filled once, then booked,
  or in the ladder's hands, or the row is closed for good.

  The last two properties rest on a second invariant over the first, `TrackInv`.
  `RowTracksBroker` speaks of moments at which nobody works on the trade, so its
  strengthening has to say how far the row may be from the broker while somebody
  does: a row of the ladder leads by the lots in the ladder's hands
  (`ByLadder`), a row of the EA by one tranche for every level that is closed at
  the broker and has no marker, each of which is in the inbox or in a reader's
  hands (`ByReader`). `Evidence` says that an event, a task's load and a marker
  stand for deals that were done, and `Stamped` that a stamp, or a figure about
  to be one, belongs to a position that is gone.

  Both hold for any number of EA connections and with a lagging history. An event
  read while another connection's reader is inside the same trade marks it
  `overlap`, and from there on only `rem >= Expected` is claimed: of two partial
  closes that read the same `remaining_lots` one is lost, so the row shows too
  much, never too little. A profit read off a history that is behind marks the
  trade `lagged` at that moment; lag before or after it does no harm.
* **OrderForwardingProofs.** Type correctness, `QueuedIsUntraded`,
  `ForwardedOnce`, `SuccessIsReal`, and that every step of the two machines is
  a step of `SignalContract` or a stutter. `Waits` says that the callers
  waiting for the ack are those of claimed signals. For a signal no
  disturbance has touched, `Alone` says that at most one of its frame, its
  execution and its answer exists; `Honest` that the answer on its way tells
  what the VPS did; `Stated` what each status says of the VPS. None of the
  properties is inductive alone, since the Mac learns what was traded only
  through the answer.
* **ControlProofs**, of the two modules that say whether a node may open trades.
  `ControlHandover`: type correctness, `TwoTradersOnlyHandingBack` and
  `NoTraderOnlyInTakeover`. `NewestTells` relates the two records to the newest
  answer still under way, `Agreed` what they say when there is none. For the
  last, while nothing was lost or given up: a tab waits exactly for a change the
  Mac's record does not show yet (`Awaited`), what was sent since that record
  last changed is behind everything older in both directions (`InLine`), and a
  VPS that stands down has its answer under way (`WordIsSent`). Without the
  order of the queues an old answer could end the wait for a new request.
  `RiskHalts`: `BreachStopsTheDay`. While no check was missed, a window past
  either limit is paused to the day's end, or a close no guard has seen is on
  its way to one, or a tail that will still ask that guard, the loss guard with
  the balance as it is now, is running (`LossAnswered`, `GiveBackAnswered`).
  A close forgets the misses before it, so each part has to hold again from the
  moment its result is stamped.
* **RestingOrdersProofs.** Type correctness, `OneOrder`, `RowTellsBook`.
  `OneOrder` follows from the right to place being unique (`OneRequest`: one
  command, or one answer to it, or one answer in the box, and only while
  somebody asks) and from a placement being queued behind the cancel of
  whatever is live (`OneLive`). `RowTellsBook` needs `SetupInv`: the last order
  placed is the current one (`Books`); a report tells what the broker has
  (`Reported`); what each state of the row, the sweep and the operator says of
  the order (`Settled`); and if the app believes in an order that no longer
  rests, somebody will look or has spoken (`Heard`). It holds until a race is
  noted or can no longer be avoided (`Bound`, `Unanswered`): the model notes a
  race when it takes effect, so the invariant must give way earlier.
* **CircuitBreakerProofs.** Type correctness, `StreakIsReal`,
  `LegsScoreTogether`, with the other node writing the counter at any time. The
  invariant adds that one caller scores a trade
  (`OneScorer`), that one writes the counter (`OneWriter`), what the counter
  is while a write is pending (`Counted`), and that a registered leg is found
  under its basket (`LegsFound`).
* **MessageProofs.** Each step of `MessageReader` is a step of `MessageBuffer`
  or a stutter. The invariant: every copy under way, in the queue or in a page,
  is a version the channel has posted. Of `MessageScanner`: type correctness;
  `TriggerActsOnce`, since the record of a CLOSE ALL is claimed before the closes
  start (`ClaimFirst`); and `TradedOnce`. For that, a message not in `raced` is
  at most on one of the ways to a trade: in the scanner's hands,
  queued for the watcher, in the bot's, or traded (`OneRoute`), and a row that
  may still be taken up is on none (`RowTells`).
* **SettingsSyncProofs.** Type correctness; `NodesAgree`; `LastEditStands`. For
  the first, `Agreement` says where the truth of a key is while things are under
  way: the Mac's table shows the newest value still to be proposed or confirmed
  (`Shown`), and, while the link is up, the VPS's value is untold, owed, on its
  way or there (`Told`). For the second, `Edits` follows the newest edit from
  the thread to the last task that mentions the key, to the unconfirmed keys
  (`Carried`), over the wire, where nothing older follows it on its connection
  or a later one (`Sent`), to the VPS, whose value and broadcasts show it only
  once it was applied (`Seen`); without the last part an old broadcast could
  confirm it.

Model-checked only, because liveness is out of the prover's reach:
`ClaimsSettle`, `ExitsSettle`, `SomeoneTakesOver`, `FillIsRecorded`,
`HoldsSettle`, `EditsSettle`, and the fairness half of `ReaderKeepsBuffer`,
whose safety half is `ReaderImplementsBuffer`. Everything else the runs check is
also proved.

## 6. Not modelled

Most of the repository's 114 000 lines of code has no protocol state to check:
pages and charts, analytics, the backtest, the numerical signal engines,
parsing, mail, licensing, migrations, the installer. The models cover about 6 %
of the lines, the ones that decide whether money moves once, twice or not at
all. Left out inside the modelled components:

* The consolidated ledger of the sync link, and the topics that are proposed
  like the settings (channel strategies, applied one by one and answered even
  if one failed; trading schedule; strategy parameters). Of the settings: the
  10 s cache of `get_risk_settings` (a read that one thread began before the
  other's save may leave the older table in it, and a broadcast shows that),
  keys the VPS does not recognise (they are
  filtered out and stay unconfirmed), and a failing write of `app_config`.
  Pairing, updates and logs of the remote administration link.
* The login to Telegram, the choice of a group and the stopping of a listener by
  the operator, and the watchdog's restart of a single dead listener
  (`reader_auth.py:394-413`): the listener of the model runs whenever the reader
  is connected.
* `reconciliation.py`, orphan adoption and the repair of placeholder rows; the
  resolution of `unknown`.
* Ladder legs (several tickets per trade), the legs of grid templates and their
  siblings in the profit sync, and the ticket reassignment of position sync: a
  trade has one ticket.
* The threshold of the breaker is taken to be the same on both nodes; it is a
  synced setting itself.
* Reclaiming of EA trades (`managed_by` does not change) and the other exit
  strategies; the ladder is the one partial closer on the Python side.
* The miss streak of position sync: the model acts when the position is gone,
  so a wrongly missing ticket is not represented.
* A response to `close_position` that carries neither success nor error.
* A retry ladder of the profit sync that died with the process may run again in
  the model: more behaviours than the code has.
* Sub-cent corrections, rounding of volumes to the lot step, breakeven moves,
  gap-fire levels.
* Stop adjustments and the RISK FREE trigger of a channel message, and
  `ime_timeout_watchdog`, which gives up an immediate entry whose levels never
  came.
* The MT5 bridge process and its watchdog: they appear as answers that may be
  lost.
* What a text parses to: a message is the class its parser puts it in.
* Of the EA's source: grids and templates, stop trailing, the panel's drawing.
