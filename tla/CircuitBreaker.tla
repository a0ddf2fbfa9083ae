--------------------------- MODULE CircuitBreaker ---------------------------
(***************************************************************************)
(* Which closed trades the circuit breaker counts.                         *)
(*                                                                         *)
(* The last step of record_close scores the close, if this caller recorded *)
(* it.  Positions closed as one basket are announced beforehand and score  *)
(* once, on the basket's net; the registry lives in memory.  The counter   *)
(* is read and written in two statements on the database thread, while     *)
(* the settings page may reset it, and the settings sync overwrite it,     *)
(* from another thread.                                                    *)
(*                                                                         *)
(* Source: services/trading/close_trade.py, services/risk/                 *)
(* {basket_breaker,circuit_breaker_repo}.py, services/positions/           *)
(* core_equity_protect.py, services/broker/ea_bridge/_events.py,           *)
(* services/cluster/sync/{server,client}.py.                               *)
(***************************************************************************)
EXTENDS Naturals, FiniteSets

CONSTANTS
    Trades,      \* live trades (broker tickets) that close during the run
    Closers,     \* tasks that run record_close
    Baskets,     \* basket names: the EA takes a new one each time ("gh-<time>"), the
                 \* app one per channel and template ("ep-...", "bh-...")
    Threshold,   \* circuit_breaker_losses
    NoTrade,     \* "no trade" marker
    NoBasket     \* "in no basket" marker

ASSUME BreakerAssumption ==
    Threshold \in Nat \ {0} /\ NoTrade \notin Trades /\ NoBasket \notin Baskets

VARIABLES
    state,           \* [Trades -> ...]: open, shut at the broker, recorded as closed
    lost,            \* [Trades -> BOOLEAN]: the close books a loss
    task,            \* [Closers -> ...]: where each caller of record_close is
    consec, cooling, \* circuit_breaker_consec_losses, _active_until > now
    basketOf,        \* _ticket_basket
    legs, scored, gain,  \* _baskets: the open legs, has it scored, is its net >= 0
    base, counted, named, slips  \* history, see below

\* base: what the counter was set to when it was last zeroed or overwritten by
\* the other node; counted: the trades whose own loss was counted since: the
\* trades announced as legs before they were recorded; slips:
\*   "held"     a basket's name was still taken by an earlier one
\*   "died"     the process and its registry were lost
\*   "cleared"  the counter was reset or overwritten between a score's read
\*              and its write
Slips == {"held", "died", "cleared"}

registry == <<basketOf, legs, scored, gain>>
vars == <<state, lost, task, consec, cooling, registry, base, counted, named, slips>>

\* A task: its step, its trade, did its apply_full_close win, the counter it read.
Idle == [pc |-> "idle", t |-> NoTrade, mine |-> FALSE, seen |-> 0]

TypeOK ==
    /\ state \in [Trades -> {"open", "shut", "recorded"}]
    /\ lost \in [Trades -> BOOLEAN]
    /\ task \in [Closers -> [pc : {"idle", "read", "score", "write"}, t : Trades \cup {NoTrade},
                             mine : BOOLEAN, seen : Nat]]
    /\ consec \in 0..(Threshold - 1) /\ base \in 0..(Threshold - 1) /\ cooling \in BOOLEAN
    /\ basketOf \in [Trades -> Baskets \cup {NoBasket}]
    /\ legs \in [Baskets -> SUBSET Trades]
    /\ scored \in [Baskets -> BOOLEAN] /\ gain \in [Baskets -> BOOLEAN]
    /\ counted \subseteq Trades /\ named \subseteq Trades /\ slips \subseteq Slips

Init ==
    /\ state = [t \in Trades |-> "open"] /\ lost = [t \in Trades |-> FALSE]
    /\ task = [c \in Closers |-> Idle]
    /\ consec = 0 /\ cooling = FALSE
    /\ basketOf = [t \in Trades |-> NoBasket] /\ legs = [b \in Baskets |-> {}]
    /\ scored = [b \in Baskets |-> FALSE] /\ gain = [b \in Baskets |-> FALSE]
    /\ base = 0 /\ counted = {} /\ named = {} /\ slips = {}

-----------------------------------------------------------------------------
(* Closing                                                                  *)

\* The position is gone at the broker, with a gain or a loss.
Shut(t) ==
    /\ state[t] = "open"
    /\ state' = [state EXCEPT ![t] = "shut"]
    /\ \E l \in BOOLEAN : lost' = [lost EXCEPT ![t] = l]
    /\ UNCHANGED <<task, consec, cooling, registry, base, counted, named, slips>>

\* A caller reads the row ...
ReadRow(c, t) ==
    /\ task[c].pc = "idle" /\ state[t] = "shut"
    /\ task' = [task EXCEPT ![c].pc = "read", ![c].t = t]
    /\ UNCHANGED <<state, lost, consec, cooling, registry, base, counted, named, slips>>

\* ... and books the close, if nobody has (apply_full_close).
Book(c) ==
    /\ task[c].pc = "read"
    /\ task' = [task EXCEPT ![c].pc = "score", ![c].mine = state[task[c].t] = "shut"]
    /\ state' = [state EXCEPT ![task[c].t] = "recorded"]
    /\ UNCHANGED <<lost, consec, cooling, registry, base, counted, named, slips>>

-----------------------------------------------------------------------------
(* Scoring                                                                  *)

Done(c) == task' = [task EXCEPT ![c] = Idle]
Restart(n) == consec' = n /\ base' = n /\ counted' = {}
Clear == Restart(0)

\* One call at a time on the database thread: nobody is inside a score.
ThreadFree == \A c \in Closers : task[c].pc # "write"

\* Another caller recorded this close: nothing to score.
ScoreNothing(c) ==
    /\ task[c].pc = "score" /\ ~task[c].mine
    /\ Done(c)
    /\ UNCHANGED <<state, lost, consec, cooling, registry, base, counted, named, slips>>

\* Slip: a caller that lost the race scores the close too.
ScoreAloneTwice(c) ==
    /\ task[c].pc = "score" /\ basketOf[task[c].t] = NoBasket
    /\ ThreadFree
    /\ \/ ~lost[task[c].t] /\ Clear /\ Done(c)
       \/ /\ lost[task[c].t]
          /\ task' = [task EXCEPT ![c].pc = "write", ![c].seen = consec]
          /\ UNCHANGED <<consec, base, counted>>
    /\ UNCHANGED <<state, lost, cooling, registry, named, slips>>

\* A ticket in no basket: a win clears the counter, a loss has read it.
ScoreAlone(c) ==
    /\ task[c].pc = "score" /\ task[c].mine /\ basketOf[task[c].t] = NoBasket
    /\ ThreadFree
    /\ \/ ~lost[task[c].t] /\ Clear /\ Done(c)
       \/ /\ lost[task[c].t]
          /\ task' = [task EXCEPT ![c].pc = "write", ![c].seen = consec]
          /\ UNCHANGED <<consec, base, counted>>
    /\ UNCHANGED <<state, lost, cooling, registry, named, slips>>

\* Slip: the breaker trips one loss late.
WriteLossLate(c) ==
    /\ task[c].pc = "write"
    /\ Done(c)
    /\ \/ task[c].seen >= Threshold /\ Clear /\ cooling' = TRUE
       \/ /\ task[c].seen < Threshold
          /\ consec' = task[c].seen + 1 /\ counted' = counted \cup {task[c].t}
          /\ UNCHANGED <<base, cooling>>
    /\ UNCHANGED <<state, lost, registry, named, slips>>

\* record_live_trade_outcome(won=False) writes; tripping resets the counter.
WriteLoss(c) ==
    /\ task[c].pc = "write"
    /\ Done(c)
    /\ \/ task[c].seen + 1 >= Threshold /\ Clear /\ cooling' = TRUE
       \/ /\ task[c].seen + 1 < Threshold
          /\ consec' = task[c].seen + 1 /\ counted' = counted \cup {task[c].t}
          /\ UNCHANGED <<base, cooling>>
    /\ UNCHANGED <<state, lost, registry, named, slips>>

\* Slip: a basket is forgotten as soon as it has scored.
ScoreLegForgets(c) ==
    LET b == basketOf[task[c].t] IN
    /\ task[c].pc = "score" /\ task[c].mine /\ b # NoBasket
    /\ ThreadFree
    /\ Done(c)
    /\ legs' = [legs EXCEPT ![b] = {}]
    /\ basketOf' = [t \in Trades |-> IF basketOf[t] = b THEN NoBasket ELSE basketOf[t]]
    /\ scored' = [scored EXCEPT ![b] = TRUE]
    /\ IF ~scored[b] /\ gain[b] THEN Clear ELSE UNCHANGED <<consec, base, counted>>
    /\ UNCHANGED <<state, lost, cooling, gain, named, slips>>

\* A leg: the first one scores the basket, the last one drops it.
ScoreLeg(c) ==
    LET b == basketOf[task[c].t]
        left == legs[b] \ {task[c].t}
    IN
    /\ task[c].pc = "score" /\ task[c].mine /\ b # NoBasket
    /\ ThreadFree
    /\ Done(c)
    /\ legs' = [legs EXCEPT ![b] = left]
    /\ basketOf' = [t \in Trades |-> IF left = {} /\ basketOf[t] = b THEN NoBasket ELSE basketOf[t]]
    /\ scored' = [scored EXCEPT ![b] = TRUE]
    /\ IF ~scored[b] /\ gain[b] THEN Clear ELSE UNCHANGED <<consec, base, counted>>
    /\ UNCHANGED <<state, lost, cooling, gain, named, slips>>

-----------------------------------------------------------------------------
(* Baskets, the operator, time and death                                    *)

\* register: a name still held is taken for one basket announced twice.  The
\* list may be stale: check_equity_protect and check_basket_harvest fetch the
\* positions once and close several groups in turn.
Announce(b, S) ==
    /\ \E t \in S : state[t] = "open"
    /\ named' = named \cup {t \in S : state[t] # "recorded"}
    /\ \/ /\ legs[b] = {}
          /\ legs' = [legs EXCEPT ![b] = S]
          /\ basketOf' = [t \in Trades |-> IF t \in S THEN b ELSE basketOf[t]]
          /\ scored' = [scored EXCEPT ![b] = FALSE]
          /\ \E g \in BOOLEAN : gain' = [gain EXCEPT ![b] = g]
          /\ UNCHANGED slips
       \/ /\ legs[b] # {}
          /\ slips' = IF S \subseteq legs[b] THEN slips ELSE slips \cup {"held"}
          /\ UNCHANGED registry
    /\ UNCHANGED <<state, lost, task, consec, cooling, base, counted>>

\* reset_circuit_breaker, from the settings page.
ResetBreaker ==
    /\ Clear /\ cooling' = FALSE
    /\ slips' = IF ThreadFree THEN slips ELSE slips \cup {"cleared"}
    /\ UNCHANGED <<state, lost, task, registry, named>>

\* The counter and the cooldown are synced settings: on a paired node a snapshot
\* or a proposal of the other node, which counts below the same threshold,
\* overwrites both (_SYNCED_SETTINGS_KEYS).
SettingsMirror(n) ==
    /\ Restart(n) /\ cooling' \in BOOLEAN
    /\ slips' = IF ThreadFree THEN slips ELSE slips \cup {"cleared"}
    /\ UNCHANGED <<state, lost, task, registry, named>>

\* circuit_breaker_active_until passes.
CooldownEnds ==
    /\ cooling /\ cooling' = FALSE
    /\ UNCHANGED <<state, lost, task, consec, registry, base, counted, named, slips>>

\* The process dies: the counter is in the database, the registry is not.
Die ==
    /\ task' = [c \in Closers |-> Idle]
    /\ basketOf' = [t \in Trades |-> NoBasket] /\ legs' = [b \in Baskets |-> {}]
    /\ slips' = slips \cup {"died"}
    /\ UNCHANGED <<state, lost, consec, cooling, scored, gain, base, counted, named>>

-----------------------------------------------------------------------------
CloseStep(c) ==
    Book(c) \/ ScoreNothing(c) \/ ScoreAlone(c) \/ WriteLoss(c) \/ ScoreLeg(c)

Next ==
    \/ \E t \in Trades : Shut(t) \/ \E c \in Closers : ReadRow(c, t)
    \/ \E c \in Closers : CloseStep(c)
    \/ \E b \in Baskets : \E S \in SUBSET Trades : Announce(b, S)
    \/ \E n \in 0..(Threshold - 1) : SettingsMirror(n)
    \/ ResetBreaker \/ CooldownEnds \/ Die

Spec == Init /\ [][Next]_vars

-----------------------------------------------------------------------------
(* Properties                                                               *)

\* The counter is what it was last set to, zero or the other node's count, plus
\* the number of different trades whose own loss was counted here since: two
\* callers of one close are one loss, so two real losses never make three and
\* trip the breaker.
StreakIsReal == "cleared" \notin slips => consec = base + Cardinality(counted)

\* "no leg ever scores on its own, whichever way it went" (basket_breaker.py:18),
\* as long as no basket was announced under a name still held and no registry
\* was lost with its process.
LegsScoreTogether == slips \cap {"held", "died"} = {} => counted \cap named = {}
=============================================================================
