------------------------- MODULE TradeLedgerProofs -------------------------
(***************************************************************************)
(* Machine-checked safety of TradeLedger, for any number of trades and     *)
(* tasks, any lot size and number of levels, any prices and fees, with or  *)
(* without lagging history, failed position reads, broken links, reloads   *)
(* of the EA and process deaths.                                           *)
(*                                                                         *)
(* Two inductive invariants carry the results.  In the first, IInv, InHand *)
(* types what a task read and has not yet written; Owners says which task  *)
(* may be where and that a TP level is booked by the EA's reader or by the *)
(* ladder, never by both; Verdicts says that an open row has not been      *)
(* announced; Rungs follows a level from the order sent to the marker      *)
(* booked.  The second, TrackInv, rests on the first: Evidence says that   *)
(* events, work in hand and markers stand for deals that were done, and    *)
(* Tracked says by how much a row may lead the broker while they are under *)
(* way, and which position a stamp belongs to.                             *)
(***************************************************************************)
EXTENDS TradeLedger, SequenceTheorems, FiniteSetTheorems, TLAPS

USE DEF Kinds, Pcs, Races, Unsure

\* Every event is about a trade the EA manages.
EaEvents == {e \in Events : Managed[e.trade] = "ea"}

\* What a task carries from its read to its write.
Fits(loc, j) ==
    /\ loc # "idle" => j.trade \in Trades
    /\ loc = "tpSend" => j.level \in 1..Levels
    /\ loc \in {"tpSend", "partRead"} => j.lots \in Nat
    /\ loc = "partApply" => j.rem \in 0..Lots /\ j.lots \in 0..j.rem

InHand == \A p \in Tasks : Fits(pc[p], job[p])

\* Who may be where, and who may book which level.
Owns(p, loc, j) ==
    /\ loc = "tpSend" => KindOf[p] = "ladder"
    /\ loc = "residualSend" => KindOf[p] = "finisher"
    /\ loc \in {"slCheck", "posSync"} => KindOf[p] = "monitor"
    /\ loc # "idle" /\ j.level > 0 =>
          \/ KindOf[p] = "ladder" /\ Managed[j.trade] = "python"
          \/ KindOf[p] = "ea" /\ Managed[j.trade] = "ea"
    /\ KindOf[p] = "ladder" /\ loc \in {"tpSend", "partRead", "partApply"} =>
          j.level > 0 /\ j.level \notin Triggered(j.trade) /\ j.trade \notin due

Owners ==
    /\ inbox \in Seq(EaEvents)
    /\ \A t \in due : st[t] = "closed"
    /\ \A p \in Tasks : Owns(p, pc[p], job[p])

\* Until something is booked on a closed row, an open row has no verdict yet
\* and neither has one whose residual is still to be looked for.
Verdicts ==
    \A t \in Trades : "late" \notin raced[t] =>
        /\ told[t] <= 1 /\ scored[t] <= 1
        /\ st[t] = "open" => told[t] = 0 /\ scored[t] = 0
        /\ t \in due => told[t] = 0 /\ scored[t] = 0

\* A level the ladder has closed at the broker is booked, or being booked, or
\* the row is closed for good and the ladder has let go of it.
Accounted(t, n) ==
    \/ fills[t][n] = 0
    \/ n \in Triggered(t)
    \/ \E p \in Tasks : /\ KindOf[p] = "ladder" /\ pc[p] \in {"partRead", "partApply"}
                        /\ job[p].trade = t /\ job[p].level = n
    \/ /\ st[t] = "closed" /\ t \notin due
       /\ \A p \in Tasks : KindOf[p] = "ladder" => job[p].trade # t

Rungs ==
    \A t \in Trades : raced[t] \cap {"unanswered", "torn"} = {} =>
        \A n \in 1..Levels :
            Managed[t] = "python" => fills[t][n] <= 1 /\ Accounted(t, n)

IInv == TypeOK /\ InHand /\ Owners /\ Verdicts /\ Rungs /\ BooksBalance /\ StampIsBooked

-----------------------------------------------------------------------------
(* Frames: what a step that leaves some part of the state alone preserves.  *)

\* No step forgets a race.
Growing == \A t \in Trades : raced[t] \subseteq raced'[t]

\* The lesser of two volumes.
LEMMA LesserBounds ==
    \A a, b \in Nat : Lesser(a, b) \in 0..b /\ Lesser(a, b) \in Nat /\ Lesser(a, b) \in Int
BY DEF Lesser

\* Marking a race keeps the others.
LEMMA MarkGrows ==
    ASSUME TypeOK, NEW t \in Trades, NEW tags \in SUBSET Races, Mark(t, tags)
    PROVE  Growing /\ raced' \in [Trades -> SUBSET Races]
BY DEF TypeOK, Mark, Growing

\* A step that leaves net_pnl, the balance and the stamp alone keeps the books.
LEMMA BooksFrame ==
    ASSUME BooksBalance, StampIsBooked, Growing, UNCHANGED <<net, credit, stamp>>
    PROVE  BooksBalance' /\ StampIsBooked'
BY DEF BooksBalance, StampIsBooked, Growing

\* A step that announces nothing and closes nothing keeps the verdicts.
LEMMA VerdictsFrame ==
    ASSUME Verdicts, Growing, UNCHANGED <<told, scored, st, due>>
    PROVE  Verdicts'
BY DEF Verdicts, Growing

\* A step in which the ladder does not move keeps its levels accounted for.
LEMMA RungsFrame ==
    ASSUME Rungs, Growing, UNCHANGED <<fills, taken, st, due>>,
           \A p \in Tasks : KindOf[p] = "ladder" => pc'[p] = pc[p] /\ job'[p] = job[p]
    PROVE  Rungs'
<1> SUFFICES ASSUME NEW t \in Trades, raced'[t] \cap {"unanswered", "torn"} = {},
                    NEW n \in 1..Levels
             PROVE  Managed[t] = "python" => fills'[t][n] <= 1 /\ Accounted(t, n)'
  BY DEF Rungs
<1>1. Managed[t] = "python" => fills[t][n] <= 1 /\ Accounted(t, n)
  BY DEF Rungs, Growing
<1> QED  BY <1>1 DEF Accounted, Triggered

\* A close at the broker keeps its records well typed.
LEMMA BrokerCloseTypes ==
    ASSUME TypeOK, NEW t \in Trades, NEW q \in 0..held[t], NEW g \in Int,
           BrokerClose(t, q, g)
    PROVE  /\ held' \in [Trades -> 0..Lots]
           /\ deals' \in [Trades -> Int]
           /\ seen' \in [Trades -> [lots : 0..Lots, sum : Int]]
<1>0. held \in [Trades -> 0..Lots] /\ deals \in [Trades -> Int]
  BY DEF TypeOK
<1>1. held' \in [Trades -> 0..Lots]
  <2>1. held[t] - q \in 0..Lots
    BY <1>0, LedgerAssumption
  <2> QED  BY <1>0, <2>1 DEF BrokerClose
<1>2. q * g - Fee \in Int
  BY <1>0, LedgerAssumption
<1>3. deals' \in [Trades -> Int]
  <2>1. deals[t] + q * g - Fee \in Int
    BY <1>0, <1>2
  <2> QED  BY <1>0, <2>1 DEF BrokerClose
<1>4. seen' \in [Trades -> [lots : 0..Lots, sum : Int]]
  <2> DEFINE r == [lots |-> Lots - held'[t], sum |-> deals'[t]]
  <2>1. r \in [lots : 0..Lots, sum : Int]
    BY <1>1, <1>3, LedgerAssumption
  <2>2. seen' = seen \/ seen' = [seen EXCEPT ![t] = r]
    BY DEF BrokerClose
  <2>3. seen \in [Trades -> [lots : 0..Lots, sum : Int]]
    BY DEF TypeOK
  <2> HIDE DEF r
  <2> QED  BY <2>1, <2>2, <2>3
<1> QED  BY <1>1, <1>3, <1>4

\* One component of a tally of tallies changes.
LEMMA FillUpdate ==
    ASSUME NEW f \in [Trades -> [1..Levels -> Nat]], NEW t \in Trades,
           NEW n \in 1..Levels, NEW h, h = [f EXCEPT ![t][n] = @ + 1]
    PROVE  /\ h \in [Trades -> [1..Levels -> Nat]]
           /\ h[t][n] = f[t][n] + 1
           /\ \A u \in Trades, k \in 1..Levels : u # t \/ k # n => h[u][k] = f[u][k]
<1> DEFINE r == [f[t] EXCEPT ![n] = f[t][n] + 1]
<1>a. f[t] \in [1..Levels -> Nat]
  OBVIOUS
<1>b. f[t][n] \in Nat
  BY <1>a
<1>0. f[t] \in [1..Levels -> Nat] /\ f[t][n] + 1 \in Nat
  BY <1>a, <1>b
<1>1. r \in [1..Levels -> Nat] /\ r[n] = f[t][n] + 1 /\ \A k \in 1..Levels : k # n => r[k] = f[t][k]
  BY <1>0
<1>2. h = [f EXCEPT ![t] = r]
  OBVIOUS
<1> HIDE DEF r
<1> QED  BY <1>1, <1>2

-----------------------------------------------------------------------------
(* One task moves, or none does, and no row changes.                        *)

\* The empty job is a job about no trade and no level.
LEMMA NoJobTypes ==
    /\ NoJob \in Jobs
    /\ NoJob.trade = NoTrade /\ NoJob.level = 0 /\ NoJob.lots = 0
BY LedgerAssumption DEF NoJob, Jobs

\* The types of what a job carries.
LEMMA JobFields ==
    ASSUME NEW j \in Jobs
    PROVE  /\ j.trade \in Trades \cup {NoTrade} /\ j.level \in 0..Levels
           /\ j.lots \in Int /\ j.gain \in Int /\ j.rem \in Int /\ j.net \in Int
BY DEF Jobs

\* Moving on with the same job is a case of beginning one.
LEMMA GotoBegins ==
    ASSUME TypeOK, NEW p \in Tasks, NEW loc \in Pcs, Goto(p, loc)
    PROVE  Begin(p, loc, job[p]) /\ job[p] \in Jobs
BY DEF TypeOK, Goto, Begin

\* What beginning a job changes, and what it leaves alone.
LEMMA BeginMoves ==
    ASSUME TypeOK, NEW p \in Tasks, NEW loc \in Pcs, NEW j \in Jobs, Begin(p, loc, j)
    PROVE  /\ pc' \in [Tasks -> Pcs] /\ job' \in [Tasks -> Jobs]
           /\ pc'[p] = loc /\ job'[p] = j
           /\ \A q \in Tasks : q # p => pc'[q] = pc[q] /\ job'[q] = job[q]
           /\ due' = due
BY DEF TypeOK, Begin

BrokerTypes ==
    /\ held' \in [Trades -> 0..Lots]
    /\ deals' \in [Trades -> Int]
    /\ fills' \in [Trades -> [1..Levels -> Nat]]
    /\ seen' \in [Trades -> [lots : 0..Lots, sum : Int]]
    /\ watched' \in SUBSET ByEa /\ hello' \in SUBSET ByEa
    /\ armed' \in [Trades -> SUBSET (1..Levels)]

\* A step of one task that leaves the rows alone keeps the invariant, if what
\* the task now carries fits and its levels stay accounted for.
LEMMA TaskStep ==
    ASSUME IInv, NEW p \in Tasks, NEW loc \in Pcs, NEW j \in Jobs, Begin(p, loc, j),
           Fits(loc, j), Owns(p, loc, j),
           UNCHANGED <<rowVars, told, scored, faults>>,
           Growing, raced' \in [Trades -> SUBSET Races], BrokerTypes,
           inbox' \in Seq(Events), inbox' \in Seq(EaEvents), Rungs'
    PROVE  IInv'
<1>1. /\ pc' \in [Tasks -> Pcs] /\ job' \in [Tasks -> Jobs]
      /\ pc'[p] = loc /\ job'[p] = j
      /\ \A q \in Tasks : q # p => pc'[q] = pc[q] /\ job'[q] = job[q]
      /\ due' = due
  BY BeginMoves DEF IInv
<1>2. TypeOK'
  BY <1>1 DEF IInv, TypeOK, BrokerTypes, rowVars
<1>3. InHand'
  BY <1>1 DEF IInv, InHand
<1>4. Owners'
  BY <1>1 DEF IInv, Owners, Owns, Triggered, rowVars
<1>5. Verdicts'
  BY <1>1, VerdictsFrame DEF IInv, rowVars
<1>6. BooksBalance' /\ StampIsBooked'
  BY BooksFrame DEF IInv, rowVars
<1> QED  BY <1>2, <1>3, <1>4, <1>5, <1>6 DEF IInv

\* A task that keeps its trade, or lets go of it, without leaving a level half
\* booked.
LEMMA RungsMove ==
    ASSUME IInv, NEW p \in Tasks, NEW loc \in Pcs, NEW j \in Jobs, Begin(p, loc, j),
           Growing, UNCHANGED <<fills, taken, st>>,
           j.trade \in {job[p].trade, NoTrade},
           \/ KindOf[p] # "ladder"
           \/ pc[p] \notin {"partRead", "partApply"}
           \/ loc = "partApply" /\ j.trade = job[p].trade /\ j.level = job[p].level
    PROVE  Rungs'
<1> SUFFICES ASSUME NEW u \in Trades, raced'[u] \cap {"unanswered", "torn"} = {},
                    NEW k \in 1..Levels
             PROVE  Managed[u] = "python" => fills'[u][k] <= 1 /\ Accounted(u, k)'
  BY DEF Rungs
<1>1. /\ pc'[p] = loc /\ job'[p] = j
      /\ \A r \in Tasks : r # p => pc'[r] = pc[r] /\ job'[r] = job[r]
      /\ due' = due
  BY BeginMoves DEF IInv
<1>2. Managed[u] = "python" => fills[u][k] <= 1 /\ Accounted(u, k)
  BY DEF IInv, Rungs, Growing
<1>3. u # NoTrade
  BY LedgerAssumption
<1> QED  BY <1>1, <1>2, <1>3 DEF Accounted, Triggered

\* An idle task carries nothing.
LEMMA IdleFits ==
    ASSUME NEW p \in Tasks
    PROVE  Fits("idle", NoJob) /\ Owns(p, "idle", NoJob)
BY NoJobTypes DEF Fits, Owns

\* A step of the broker or the EA, or one that only marks a race, keeps the
\* invariant, if the levels stay accounted for.
LEMMA OutsideStep ==
    ASSUME IInv, UNCHANGED <<rowVars, taskVars, told, scored>>, faults' \in 0..MaxFaults,
           Growing, raced' \in [Trades -> SUBSET Races], BrokerTypes,
           inbox' \in Seq(Events), inbox' \in Seq(EaEvents), Rungs'
    PROVE  IInv'
<1>1. TypeOK'
  BY DEF IInv, TypeOK, BrokerTypes, rowVars, taskVars
<1>2. InHand' /\ Owners'
  BY DEF IInv, InHand, Owners, Owns, Triggered, rowVars, taskVars
<1>4. Verdicts'
  BY VerdictsFrame DEF IInv, rowVars, taskVars
<1>5. BooksBalance' /\ StampIsBooked'
  BY BooksFrame DEF IInv, rowVars
<1> QED  BY <1>1, <1>2, <1>4, <1>5 DEF IInv

\* What the EA reports is about a trade of its own.
LEMMA NewReport ==
    ASSUME IInv, NEW t \in ByEa, NEW type \in {"tp_hit", "trade_closed", "gone"},
           NEW n \in 0..Levels, NEW g \in Int, NEW q \in 0..Lots,
           inbox' = Append(inbox, [type |-> type, trade |-> t, level |-> n, gain |-> g, lots |-> q])
    PROVE  inbox' \in Seq(Events) /\ inbox' \in Seq(EaEvents)
<1> DEFINE e == [type |-> type, trade |-> t, level |-> n, gain |-> g, lots |-> q]
<1>1. e \in Events /\ e \in EaEvents
  BY DEF ByEa, EaEvents, Events
<1>2. inbox' = Append(inbox, e)
  OBVIOUS
<1> HIDE DEF e
<1> QED  BY <1>1, <1>2, AppendProperties DEF IInv, TypeOK, Owners

\* The common case: nothing but the task moves, and it is not the ladder's.
LEMMA PlainStep ==
    ASSUME IInv, NEW p \in Tasks, NEW loc \in Pcs, NEW j \in Jobs, Begin(p, loc, j),
           Fits(loc, j), Owns(p, loc, j),
           KindOf[p] # "ladder" \/ Rungs',
           UNCHANGED <<brokerVars, inbox, rowVars, tallyVars, faults>>
    PROVE  IInv'
<1>1. Growing /\ raced' \in [Trades -> SUBSET Races] /\ BrokerTypes
  BY DEF IInv, TypeOK, Growing, BrokerTypes, brokerVars, eaVars, tallyVars
<1>2. inbox' \in Seq(Events) /\ inbox' \in Seq(EaEvents)
  BY DEF IInv, TypeOK, Owners
<1>3. due' = due /\ \A q \in Tasks : q # p => pc'[q] = pc[q] /\ job'[q] = job[q]
  BY BeginMoves DEF IInv
<1>4. Rungs'
  BY <1>1, <1>3, RungsFrame DEF IInv, rowVars, brokerVars, eaVars
<1> QED  BY <1>1, <1>2, <1>4, TaskStep DEF tallyVars

-----------------------------------------------------------------------------
(* The operations, one lemma each.                                          *)

\* close_trade is asked for.
LEMMA UserCloseStep ==
    ASSUME IInv, NEW p \in Tasks, NEW t \in Trades, NEW g \in Gains, UserClose(p, t, g)
    PROVE  IInv'
<1> DEFINE j == [NoJob EXCEPT !.trade = t, !.gain = g]
<1>1. j \in Jobs /\ j.trade = t /\ j.level = 0
  BY NoJobTypes, LedgerAssumption DEF Jobs, Gains
<1>2. /\ Begin(p, "closeSend", j) /\ KindOf[p] = "user"
      /\ UNCHANGED <<brokerVars, inbox, rowVars, tallyVars, faults>>
  BY DEF UserClose
<1> HIDE DEF j
<1>3. Fits("closeSend", j) /\ Owns(p, "closeSend", j)
  BY <1>1, <1>2 DEF Fits, Owns
<1> QED  BY <1>1, <1>2, <1>3, PlainStep

\* The monitor takes up a trade.
LEMMA MonitorPickStep ==
    ASSUME IInv, NEW p \in Tasks, NEW t \in Trades,
           NEW loc \in {"slCheck", "posSync", "closeSend"}, MonitorPick(p, t, loc)
    PROVE  IInv'
<1> DEFINE g == IF loc = "closeSend" THEN Win ELSE Loss
           j == [NoJob EXCEPT !.trade = t, !.rem = rem[t], !.gain = g]
<1>0. g \in Int /\ rem[t] \in Int
  BY LedgerAssumption DEF IInv, TypeOK
<1> HIDE DEF g
<1>1. j \in Jobs /\ j.trade = t /\ j.level = 0
  BY <1>0, NoJobTypes DEF Jobs
<1>2. /\ Begin(p, loc, j) /\ KindOf[p] = "monitor"
      /\ UNCHANGED <<brokerVars, inbox, rowVars, tallyVars, faults>>
  BY DEF MonitorPick, g
<1> HIDE DEF j
<1>3. Fits(loc, j) /\ Owns(p, loc, j)
  BY <1>1, <1>2 DEF Fits, Owns
<1> QED  BY <1>1, <1>2, <1>3, PlainStep

\* sync_profit reads the deals.
LEMMA SyncReadStep ==
    ASSUME IInv, NEW p \in Tasks, NEW t \in Trades, SyncRead(p, t)
    PROVE  IInv'
<1> DEFINE j == [NoJob EXCEPT !.trade = t, !.net = seen[t].sum]
<1>1. j \in Jobs /\ j.trade = t /\ j.level = 0
  BY NoJobTypes, LedgerAssumption DEF Jobs, IInv, TypeOK
<1>2. /\ Begin(p, "syncApply", j) /\ KindOf[p] = "sync"
      /\ UNCHANGED <<brokerVars, inbox, rowVars, told, scored, faults>>
      /\ UNCHANGED raced \/ Mark(t, {"lagged"})
  BY DEF SyncRead
<1> HIDE DEF j
<1>3. Fits("syncApply", j) /\ Owns(p, "syncApply", j)
  BY <1>1, <1>2 DEF Fits, Owns
<1>4. Growing /\ raced' \in [Trades -> SUBSET Races]
  BY <1>2, MarkGrows DEF Growing, IInv, TypeOK
<1>5. BrokerTypes /\ inbox' \in Seq(Events) /\ inbox' \in Seq(EaEvents)
  BY <1>2 DEF BrokerTypes, brokerVars, eaVars, IInv, TypeOK, Owners
<1>6. Rungs'
  BY <1>1, <1>2, <1>4, BeginMoves, RungsFrame DEF IInv, brokerVars, rowVars
<1> QED  BY <1>1, <1>2, <1>3, <1>4, <1>5, <1>6, TaskStep

\* The ladder reaches a level.
LEMMA LadderHitStep ==
    ASSUME IInv, NEW p \in Tasks, NEW t \in Trades, NEW n \in 1..Levels, LadderHit(p, t, n)
    PROVE  IInv'
<1> DEFINE q == IF n = Levels THEN rem[t] ELSE 1
           j == [NoJob EXCEPT !.trade = t, !.level = n, !.gain = Win, !.lots = q]
<1>0. q \in Nat /\ q \in Int /\ n \in 0..Levels /\ Win \in Int
  BY LedgerAssumption DEF IInv, TypeOK
<1> HIDE DEF q
<1>1. j \in Jobs /\ j.trade = t /\ j.level = n /\ j.lots = q
  BY <1>0, NoJobTypes DEF Jobs
<1>2. /\ Begin(p, "tpSend", j) /\ KindOf[p] = "ladder" /\ pc[p] = "idle"
      /\ Managed[t] = "python" /\ st[t] = "open" /\ n \notin Triggered(t)
      /\ UNCHANGED <<brokerVars, inbox, rowVars, tallyVars, faults>>
  BY DEF LadderHit, q
<1> HIDE DEF j
<1>3. Fits("tpSend", j) /\ Owns(p, "tpSend", j)
  <2>1. t \notin due
    BY <1>2 DEF IInv, Owners
  <2> QED  BY <1>0, <1>1, <1>2, <2>1 DEF Fits, Owns
<1>4. Rungs'
  <2> SUFFICES ASSUME NEW u \in Trades, raced'[u] \cap {"unanswered", "torn"} = {},
                      NEW k \in 1..Levels
               PROVE  Managed[u] = "python" => fills'[u][k] <= 1 /\ Accounted(u, k)'
    BY DEF Rungs
  <2>1. /\ pc'[p] = "tpSend" /\ job'[p].trade = t
        /\ \A r \in Tasks : r # p => pc'[r] = pc[r] /\ job'[r] = job[r]
        /\ due' = due
    BY <1>1, <1>2, BeginMoves DEF IInv
  <2>2. Managed[u] = "python" => fills[u][k] <= 1 /\ Accounted(u, k)
    BY <1>2 DEF IInv, Rungs, tallyVars
  <2> QED  BY <1>2, <2>1, <2>2 DEF Accounted, Triggered, brokerVars, eaVars, rowVars
<1> QED  BY <1>1, <1>2, <1>3, <1>4, PlainStep

\* record_close reads the row.
LEMMA FullReadStep ==
    ASSUME IInv, NEW p \in Tasks, FullRead(p)
    PROVE  IInv'
<1> DEFINE t == job[p].trade
           j == [job[p] EXCEPT !.rem = rem[t], !.net = net[t]]
<1>1. job[p] \in Jobs /\ t \in Trades /\ pc[p] = "fullRead"
  BY DEF IInv, TypeOK, InHand, Fits, FullRead
<1>0. rem[t] \in Int /\ net[t] \in Int
  BY <1>1 DEF IInv, TypeOK
<1>2. j \in Jobs /\ j.trade = t /\ j.level = job[p].level
  BY <1>0, <1>1 DEF Jobs
<1>3. /\ Begin(p, "fullApply", j)
      /\ UNCHANGED <<brokerVars, inbox, rowVars, tallyVars, faults>>
  BY DEF FullRead
<1> HIDE DEF j
<1>4. Fits("fullApply", j) /\ Owns(p, "fullApply", j)
  BY <1>1, <1>2 DEF Fits, Owns, IInv, Owners
<1>5. Growing
  BY <1>3 DEF Growing, tallyVars
<1>6. Rungs'
  BY <1>1, <1>2, <1>3, <1>5, RungsMove DEF brokerVars, eaVars, rowVars
<1> QED  BY <1>2, <1>3, <1>4, <1>6, PlainStep

\* partial_close_trade reads the row, or finds it closed.
LEMMA PartialReadStep ==
    ASSUME IInv, NEW p \in Tasks, PartialRead(p)
    PROVE  IInv'
<1> DEFINE t == job[p].trade
           q == Lesser(job[p].lots, rem[t])
           j == [job[p] EXCEPT !.lots = q, !.rem = rem[t]]
<1>1. job[p] \in Jobs /\ t \in Trades /\ pc[p] = "partRead" /\ job[p].lots \in Nat
  BY DEF IInv, TypeOK, InHand, Fits, PartialRead
<1>2. rem[t] \in 0..Lots /\ q \in 0..rem[t] /\ q \in Int /\ rem[t] \in Int
  <2>1. rem \in [Trades -> 0..Lots]
    BY DEF IInv, TypeOK
  <2>2. rem[t] \in 0..Lots
    BY <1>1, <2>1
  <2>3. rem[t] \in Nat /\ rem[t] \in Int
    BY <2>2, LedgerAssumption
  <2>4. q \in 0..rem[t] /\ q \in Nat /\ q \in Int
    BY <1>1, <2>3, LesserBounds
  <2> QED  BY <2>2, <2>3, <2>4
<1> HIDE DEF q
<1>3. j \in Jobs /\ j.trade = t /\ j.level = job[p].level /\ j.lots = q /\ j.rem = rem[t]
  BY <1>1, <1>2 DEF Jobs
<1>4. /\ UNCHANGED <<brokerVars, inbox, rowVars, tallyVars, faults>>
      /\ \/ Begin(p, "partApply", j)
         \/ st[t] # "open" /\ Begin(p, "idle", NoJob)
  BY DEF PartialRead, Finish, q
<1>5. Growing
  BY <1>4 DEF Growing, tallyVars
<1> HIDE DEF j
<1>6. CASE Begin(p, "partApply", j)
  <2>1. Fits("partApply", j) /\ Owns(p, "partApply", j)
    BY <1>1, <1>2, <1>3 DEF Fits, Owns, IInv, Owners
  <2>2. Rungs'
    BY <1>3, <1>4, <1>5, <1>6, RungsMove DEF brokerVars, eaVars, rowVars
  <2> QED  BY <1>3, <1>4, <1>6, <2>1, <2>2, PlainStep
<1>7. CASE st[t] # "open" /\ Begin(p, "idle", NoJob)
  \* The row was closed meanwhile: the ladder lets go of it for good.
  <2>1. /\ pc'[p] = "idle" /\ job'[p] = NoJob
        /\ \A r \in Tasks : r # p => pc'[r] = pc[r] /\ job'[r] = job[r]
        /\ due' = due
    BY <1>7, BeginMoves, NoJobTypes DEF IInv
  <2>2. Rungs'
    <3> SUFFICES ASSUME NEW u \in Trades, raced'[u] \cap {"unanswered", "torn"} = {},
                        NEW k \in 1..Levels
                 PROVE  Managed[u] = "python" => fills'[u][k] <= 1 /\ Accounted(u, k)'
      BY DEF Rungs
    <3>1. Managed[u] = "python" => fills[u][k] <= 1 /\ Accounted(u, k)
      BY <1>5 DEF IInv, Rungs, Growing
    <3>2. CASE KindOf[p] = "ladder" /\ u = t
      <4>1. st'[u] = "closed"
        BY <1>1, <1>4, <1>7, <3>2 DEF IInv, TypeOK, rowVars
      <4>2. \A r \in Tasks : KindOf[r] = "ladder" => job'[r].trade # u
        BY <2>1, <3>2, NoJobTypes, LedgerAssumption
      <4>3. u \notin due'
        BY <1>1, <2>1, <3>2 DEF IInv, Owners, Owns
      <4> QED  BY <1>4, <3>1, <4>1, <4>2, <4>3 DEF Accounted, brokerVars, eaVars
    <3>3. CASE KindOf[p] # "ladder" \/ u # t
      <4>1. job'[p].trade # u
        BY <2>1, NoJobTypes, LedgerAssumption
      <4> QED  BY <1>4, <2>1, <3>1, <3>3, <4>1 DEF Accounted, Triggered, brokerVars, eaVars, rowVars
    <3> QED  BY <3>2, <3>3
  <2> QED  BY <1>4, <1>7, <2>2, PlainStep, IdleFits, NoJobTypes
<1> QED  BY <1>4, <1>6, <1>7

\* A full close at the broker: confirmed, lost or refused.
LEMMA CloseSendStep ==
    ASSUME IInv, NEW p \in Tasks, CloseSend(p)
    PROVE  IInv'
<1> DEFINE t == job[p].trade
<1>1. /\ job[p] \in Jobs /\ t \in Trades /\ job[p].gain \in Int
      /\ pc[p] \in {"closeSend", "residualSend"} /\ held[t] \in 0..held[t]
  BY JobFields DEF IInv, TypeOK, InHand, Fits, CloseSend
<1>2. /\ UNCHANGED <<fills, eaVars, inbox, rowVars, tallyVars, faults>>
      /\ Begin(p, "fullRead", job[p]) \/ Begin(p, "idle", NoJob)
  BY GotoBegins DEF CloseSend, Finish, IInv
<1>3. BrokerTypes
  <2>0. /\ fills' \in [Trades -> [1..Levels -> Nat]]
        /\ watched' \in SUBSET ByEa /\ hello' \in SUBSET ByEa
        /\ armed' \in [Trades -> SUBSET (1..Levels)]
    BY <1>2 DEF IInv, TypeOK, eaVars
  <2>1. CASE BrokerClose(t, held[t], job[p].gain)
    BY <1>1, <2>0, <2>1, BrokerCloseTypes DEF BrokerTypes, IInv
  <2>2. CASE UNCHANGED <<held, deals, seen>>
    BY <2>0, <2>2 DEF BrokerTypes, IInv, TypeOK
  <2> QED  BY <2>1, <2>2 DEF CloseSend
<1>4. /\ Growing /\ raced' \in [Trades -> SUBSET Races]
      /\ inbox' \in Seq(Events) /\ inbox' \in Seq(EaEvents)
  BY <1>2 DEF Growing, tallyVars, IInv, TypeOK, Owners
<1>5. CASE Begin(p, "fullRead", job[p])
  <2>1. Fits("fullRead", job[p]) /\ Owns(p, "fullRead", job[p])
    BY <1>1 DEF Fits, Owns, IInv, Owners
  <2>2. Rungs'
    BY <1>1, <1>2, <1>4, <1>5, RungsMove DEF rowVars
  <2> QED  BY <1>1, <1>2, <1>3, <1>4, <1>5, <2>1, <2>2, TaskStep DEF tallyVars
<1>6. CASE Begin(p, "idle", NoJob)
  <2>1. Rungs'
    BY <1>1, <1>2, <1>4, <1>6, NoJobTypes, RungsMove DEF rowVars
  <2> QED  BY <1>2, <1>3, <1>4, <1>6, <2>1, IdleFits, NoJobTypes, TaskStep DEF tallyVars
<1> QED  BY <1>2, <1>5, <1>6

\* reconcile_sl_hit.
LEMMA StopCheckStep ==
    ASSUME IInv, NEW p \in Tasks, StopCheck(p)
    PROVE  IInv'
<1> DEFINE t == job[p].trade
           q == job[p].rem - held[t]
           j == [job[p] EXCEPT !.lots = q]
<1>1. /\ job[p] \in Jobs /\ t \in Trades /\ pc[p] = "slCheck"
      /\ job[p].rem \in Int /\ KindOf[p] = "monitor"
  BY JobFields DEF IInv, TypeOK, InHand, Fits, Owners, Owns, StopCheck
<1>2. held[t] \in 0..Lots /\ q \in Int
  <2>1. held \in [Trades -> 0..Lots]
    BY DEF IInv, TypeOK
  <2>2. held[t] \in 0..Lots
    BY <1>1, <2>1
  <2> HIDE DEF t
  <2> QED  BY <1>1, <2>2, LedgerAssumption
<1>3. /\ UNCHANGED <<brokerVars, inbox, rowVars, told, scored, faults>>
      /\ UNCHANGED raced \/ Mark(t, {"guess"}) \/ Mark(t, {"blind"})
      /\ \/ Begin(p, "idle", NoJob)
         \/ held[t] \in 1..(job[p].rem - 1) /\ Begin(p, "partRead", j)
         \/ Begin(p, "fullRead", job[p])
  BY GotoBegins DEF StopCheck, Finish, IInv
<1>4. Growing /\ raced' \in [Trades -> SUBSET Races]
  BY <1>1, <1>3, MarkGrows DEF Growing, IInv, TypeOK
<1>5. BrokerTypes /\ inbox' \in Seq(Events) /\ inbox' \in Seq(EaEvents)
  BY <1>3 DEF BrokerTypes, brokerVars, eaVars, IInv, TypeOK, Owners
<1>6. held[t] \in 1..(job[p].rem - 1) => q \in Nat
  BY <1>1, <1>2
<1> HIDE DEF q
<1>7. j \in Jobs /\ j.trade = t /\ j.level = job[p].level /\ j.lots = q
  BY <1>1, <1>2 DEF Jobs
<1> HIDE DEF j
<1>8. PICK loc \in Pcs, k \in Jobs :
         Begin(p, loc, k) /\ Fits(loc, k) /\ Owns(p, loc, k)
  <2>1. CASE Begin(p, "idle", NoJob)
    BY <2>1, IdleFits, NoJobTypes
  <2>2. CASE held[t] \in 1..(job[p].rem - 1) /\ Begin(p, "partRead", j)
    BY <1>1, <1>6, <1>7, <2>2 DEF Fits, Owns, IInv, Owners
  <2>3. CASE Begin(p, "fullRead", job[p])
    BY <1>1, <2>3 DEF Fits, Owns, IInv, Owners
  <2> QED  BY <1>3, <2>1, <2>2, <2>3
<1>9. Rungs'
  BY <1>1, <1>3, <1>4, <1>8, BeginMoves, RungsFrame DEF IInv, brokerVars, eaVars, rowVars
<1> QED  BY <1>3, <1>4, <1>5, <1>8, <1>9, TaskStep

\* sync_closed_mt5_positions.
LEMMA PositionSyncStep ==
    ASSUME IInv, NEW p \in Tasks, PositionSync(p)
    PROVE  IInv'
<1> DEFINE t == job[p].trade
           q == seen[t].lots
           j == [job[p] EXCEPT !.lots = q]
<1>1. /\ job[p] \in Jobs /\ t \in Trades /\ pc[p] = "posSync" /\ KindOf[p] = "monitor"
  BY JobFields DEF IInv, TypeOK, InHand, Fits, Owners, Owns, PositionSync
<1>2. q \in Nat /\ q \in Int
  BY <1>1, LedgerAssumption DEF IInv, TypeOK
<1>3. /\ UNCHANGED <<brokerVars, inbox, rowVars, told, scored, faults>>
      /\ UNCHANGED raced \/ Mark(t, {"guess"})
      /\ \/ Begin(p, "idle", NoJob)
         \/ Begin(p, "partRead", j)
         \/ Begin(p, "fullRead", job[p])
  BY GotoBegins DEF PositionSync, Finish, IInv
<1>4. Growing /\ raced' \in [Trades -> SUBSET Races]
  BY <1>1, <1>3, MarkGrows DEF Growing, IInv, TypeOK
<1>5. BrokerTypes /\ inbox' \in Seq(Events) /\ inbox' \in Seq(EaEvents)
  BY <1>3 DEF BrokerTypes, brokerVars, eaVars, IInv, TypeOK, Owners
<1> HIDE DEF q
<1>7. j \in Jobs /\ j.trade = t /\ j.level = job[p].level /\ j.lots = q
  BY <1>1, <1>2 DEF Jobs
<1> HIDE DEF j
<1>8. PICK loc \in Pcs, k \in Jobs :
         Begin(p, loc, k) /\ Fits(loc, k) /\ Owns(p, loc, k)
  <2>1. CASE Begin(p, "idle", NoJob)
    BY <2>1, IdleFits, NoJobTypes
  <2>2. CASE Begin(p, "partRead", j)
    BY <1>1, <1>2, <1>7, <2>2 DEF Fits, Owns, IInv, Owners
  <2>3. CASE Begin(p, "fullRead", job[p])
    BY <1>1, <2>3 DEF Fits, Owns, IInv, Owners
  <2> QED  BY <1>3, <2>1, <2>2, <2>3
<1>9. Rungs'
  BY <1>1, <1>3, <1>4, <1>8, BeginMoves, RungsFrame DEF IInv, brokerVars, eaVars, rowVars
<1> QED  BY <1>3, <1>4, <1>5, <1>8, <1>9, TaskStep

\* The reader takes the next event.
LEMMA EaEventStep ==
    ASSUME IInv, NEW p \in Tasks, EaEvent(p)
    PROVE  IInv'
<1> DEFINE m == Head(inbox)
           j == WorkOn(m)
<1>1. m \in EaEvents /\ Tail(inbox) \in Seq(EaEvents) /\ Tail(inbox) \in Seq(Events)
  BY HeadTailProperties DEF IInv, TypeOK, Owners, EaEvent
<1>2. /\ m.trade \in Trades /\ m.level \in 0..Levels /\ m.gain \in Int
      /\ m.lots \in Nat /\ m.lots \in Int /\ Managed[m.trade] = "ea"
  BY <1>1, LedgerAssumption DEF EaEvents, Events
<1>3. /\ UNCHANGED <<brokerVars, rowVars, told, scored, faults>>
      /\ KindOf[p] = "ea" /\ inbox' = Tail(inbox)
      /\ \/ Begin(p, "partRead", j) \/ Begin(p, "fullRead", j)
         \/ UNCHANGED taskVars
      /\ \/ UNCHANGED raced \/ Mark(m.trade, {"overlap"}) \/ Mark(m.trade, {"unverified"})
  BY DEF EaEvent
<1> HIDE DEF m
<1>4. j \in Jobs /\ j.trade = m.trade /\ j.level = m.level /\ j.lots = m.lots
  BY <1>2, NoJobTypes DEF Jobs, WorkOn
<1> HIDE DEF j
<1>5. Growing /\ raced' \in [Trades -> SUBSET Races]
  BY <1>2, <1>3, MarkGrows DEF Growing, IInv, TypeOK
<1>b. BrokerTypes
  BY <1>3 DEF BrokerTypes, brokerVars, eaVars, IInv, TypeOK
<1>6. CASE UNCHANGED taskVars
  <2>1. Rungs'
    BY <1>3, <1>5, <1>6, RungsFrame DEF IInv, brokerVars, rowVars, taskVars
  <2>2. faults' \in 0..MaxFaults
    BY <1>3 DEF IInv, TypeOK
  <2> QED  BY <1>1, <1>3, <1>5, <1>b, <1>6, <2>1, <2>2, OutsideStep
<1>7. CASE Begin(p, "partRead", j) \/ Begin(p, "fullRead", j)
  <2>1. PICK loc \in {"partRead", "fullRead"} : Begin(p, loc, j)
    BY <1>7
  <2>2. Fits(loc, j) /\ Owns(p, loc, j)
    BY <1>2, <1>3, <1>4 DEF Fits, Owns
  <2>3. Rungs'
    BY <1>3, <1>4, <1>5, <2>1, BeginMoves, RungsFrame DEF IInv, brokerVars, rowVars
  <2> QED  BY <1>1, <1>3, <1>4, <1>5, <1>b, <2>1, <2>2, <2>3, TaskStep
<1> QED  BY <1>3, <1>6, <1>7

\* The position ends at the broker, or a part of it by hand; the history
\* catches up.
LEMMA BrokerSteps ==
    ASSUME IInv, NEW t \in Trades,
           \/ \E g \in Gains : BrokerExit(t, g) \/ ByHand(t, g)
           \/ HistoryArrives(t)
    PROVE  IInv'
<1>1. /\ UNCHANGED <<fills, watched, armed, hello, inbox, rowVars, taskVars, told, scored, faults>>
      /\ UNCHANGED raced \/ Mark(t, {"byhand"})
  BY DEF BrokerExit, ByHand, HistoryArrives, tallyVars, eaVars
<1>g. Growing /\ raced' \in [Trades -> SUBSET Races]
  BY <1>1, MarkGrows DEF Growing, IInv, TypeOK
<1>2. BrokerTypes
  <2>1. /\ fills' \in [Trades -> [1..Levels -> Nat]]
        /\ watched' \in SUBSET ByEa /\ hello' \in SUBSET ByEa
        /\ armed' \in [Trades -> SUBSET (1..Levels)]
    BY <1>1 DEF IInv, TypeOK
  <2>2. CASE \E g \in Gains : BrokerExit(t, g) \/ ByHand(t, g)
    <3>0. held[t] \in Nat
      BY LedgerAssumption DEF IInv, TypeOK
    <3>1. PICK g \in Gains, q \in 0..held[t] : BrokerClose(t, q, g)
      <4>1. CASE \E g \in Gains : BrokerExit(t, g)
        BY <3>0, <4>1 DEF BrokerExit
      <4>2. CASE \E g \in Gains : ByHand(t, g)
        BY <3>0, <4>2 DEF ByHand
      <4> QED  BY <2>2, <4>1, <4>2
    <3>2. g \in Int
      BY LedgerAssumption DEF Gains
    <3> QED  BY <2>1, <3>1, <3>2, BrokerCloseTypes DEF BrokerTypes, IInv
  <2>3. CASE HistoryArrives(t)
    <3>1. Current(t) \in [lots : 0..Lots, sum : Int]
      BY LedgerAssumption DEF IInv, TypeOK, Current
    <3>2. seen' = [seen EXCEPT ![t] = Current(t)] /\ UNCHANGED <<held, deals>>
      BY <2>3 DEF HistoryArrives
    <3> QED  BY <2>1, <3>1, <3>2 DEF BrokerTypes, IInv, TypeOK
  <2> QED  BY <2>2, <2>3
<1>3. Rungs'
  BY <1>1, <1>g, RungsFrame DEF IInv, rowVars, taskVars
<1>4. inbox' \in Seq(Events) /\ inbox' \in Seq(EaEvents) /\ faults' \in 0..MaxFaults
  BY <1>1 DEF IInv, TypeOK, Owners
<1> QED  BY <1>1, <1>g, <1>2, <1>3, <1>4, OutsideStep

\* The EA takes a profit of its own.
LEMMA EaTakeProfitStep ==
    ASSUME IInv, NEW t \in Trades, NEW n \in 1..Levels, NEW q \in 1..Lots, EaTakeProfit(t, n, q)
    PROVE  IInv'
<1>1. t \in ByEa /\ Managed[t] = "ea"
  BY DEF EaTakeProfit, IInv, TypeOK, ByEa
<1>2. /\ UNCHANGED <<watched, hello, rowVars, taskVars, told, scored, faults>>
      /\ q \in {1, held[t]} /\ held[t] > 0
      /\ fills' = [fills EXCEPT ![t][n] = @ + 1] /\ BrokerClose(t, q, Win)
      /\ armed' = [armed EXCEPT ![t] = @ \ {n}]
      /\ \/ inbox' = Append(inbox, TpHit(t, n, q)) /\ UNCHANGED raced
         \/ UNCHANGED inbox /\ Mark(t, {"lost"})
  BY DEF EaTakeProfit
<1>3. inbox' \in Seq(Events) /\ inbox' \in Seq(EaEvents) /\ faults' \in 0..MaxFaults
  <2>0. n \in 0..Levels /\ Win \in Int /\ q \in 0..Lots
    BY LedgerAssumption
  <2>1. CASE inbox' = Append(inbox, TpHit(t, n, q))
    BY <1>1, <1>2, <2>0, <2>1, NewReport DEF TpHit, IInv, TypeOK
  <2>2. CASE UNCHANGED inbox
    BY <1>2, <2>2 DEF IInv, TypeOK, Owners
  <2> QED  BY <1>2, <2>1, <2>2
<1>g. Growing /\ raced' \in [Trades -> SUBSET Races]
  BY <1>2, MarkGrows DEF Growing, IInv, TypeOK
<1>4. /\ fills' \in [Trades -> [1..Levels -> Nat]]
      /\ \A u \in Trades, k \in 1..Levels : u # t \/ k # n => fills'[u][k] = fills[u][k]
  <2>1. fills \in [Trades -> [1..Levels -> Nat]]
    BY DEF IInv, TypeOK
  <2> QED  BY <1>2, <2>1, FillUpdate
<1>5. BrokerTypes
  <2>1. q \in 0..held[t] /\ Win \in Int
    BY <1>2, LedgerAssumption DEF IInv, TypeOK
  <2>2. /\ watched' \in SUBSET ByEa /\ hello' \in SUBSET ByEa
        /\ armed' \in [Trades -> SUBSET (1..Levels)]
    BY <1>2 DEF IInv, TypeOK
  <2>3. /\ held' \in [Trades -> 0..Lots] /\ deals' \in [Trades -> Int]
        /\ seen' \in [Trades -> [lots : 0..Lots, sum : Int]]
    BY <1>2, <2>1, BrokerCloseTypes DEF IInv
  <2> QED  BY <1>4, <2>2, <2>3 DEF BrokerTypes
<1>6. Rungs'
  <2> SUFFICES ASSUME NEW u \in Trades, raced'[u] \cap {"unanswered", "torn"} = {},
                      NEW k \in 1..Levels, Managed[u] = "python"
               PROVE  fills'[u][k] <= 1 /\ Accounted(u, k)'
    BY DEF Rungs
  <2>1. fills[u][k] <= 1 /\ Accounted(u, k)
    BY <1>g DEF IInv, Rungs, Growing
  <2>2. fills'[u][k] = fills[u][k]
    BY <1>1, <1>4
  <2> QED  BY <1>2, <2>1, <2>2 DEF Accounted, Triggered, rowVars, taskVars
<1> QED  BY <1>2, <1>3, <1>g, <1>5, <1>6, OutsideStep

\* The EA reports again, reports a close, or answers the restore of a trade.
LEMMA EaReportSteps ==
    ASSUME IInv, NEW t \in Trades,
           \/ \E n \in 1..Levels : EaRepeat(t, n)
           \/ \E g \in Gains, type \in {"trade_closed", "gone"} : EaReportClosed(t, g, type)
           \/ Restore(t)
    PROVE  IInv'
<1>1. /\ UNCHANGED <<held, deals, fills, seen, rowVars, taskVars, told, scored, faults>>
      /\ UNCHANGED raced \/ Mark(t, {"rearmed"})
      /\ t \in ByEa
  BY DEF EaRepeat, EaReportClosed, Restore, brokerVars, eaVars, tallyVars, IInv, TypeOK
<1>2. /\ watched' \in SUBSET ByEa /\ hello' \in SUBSET ByEa
      /\ armed' \in [Trades -> SUBSET (1..Levels)]
  <2>1. /\ watched \in SUBSET ByEa /\ hello \in SUBSET ByEa
        /\ armed \in [Trades -> SUBSET (1..Levels)] /\ Uncovered(t) \in SUBSET (1..Levels)
    BY DEF IInv, TypeOK, Uncovered
  <2>2. /\ UNCHANGED watched \/ watched' = watched \ {t} \/ watched' = watched \cup {t}
        /\ UNCHANGED hello \/ hello' = hello \ {t}
        /\ UNCHANGED armed \/ armed' = [armed EXCEPT ![t] = Uncovered(t)]
    BY DEF EaRepeat, EaReportClosed, Restore, brokerVars, eaVars
  <2> QED  BY <1>1, <2>1, <2>2
<1>3. inbox' \in Seq(Events) /\ inbox' \in Seq(EaEvents)
  <2>1. /\ Win \in Int /\ Loss \in Int /\ 0 \in 0..Levels /\ \A n \in 1..Levels : n \in 0..Levels
        /\ 0 \in 0..Lots /\ 1 \in 0..Lots
    BY LedgerAssumption
  <2>2. CASE UNCHANGED inbox
    BY <2>2 DEF IInv, TypeOK, Owners
  <2>3. ASSUME NEW n \in 1..Levels, EaRepeat(t, n) PROVE inbox' \in Seq(Events) /\ inbox' \in Seq(EaEvents)
    <3>1. inbox' = Append(inbox, [type |-> "tp_hit", trade |-> t, level |-> n,
                                  gain |-> Win, lots |-> 1])
      BY <2>3 DEF EaRepeat, TpHit
    <3> QED  BY <1>1, <2>1, <3>1, NewReport
  <2>4. ASSUME NEW g \in {Win, Loss}, NEW type \in {"trade_closed", "gone"},
               inbox' = Append(inbox, [type |-> type, trade |-> t, level |-> 0,
                                       gain |-> g, lots |-> 0])
        PROVE  inbox' \in Seq(Events) /\ inbox' \in Seq(EaEvents)
    BY <1>1, <2>1, <2>4, NewReport
  <2>5. CASE \E g \in Gains, type \in {"trade_closed", "gone"} : EaReportClosed(t, g, type)
    BY <2>2, <2>4, <2>5 DEF EaReportClosed, Gains
  <2>6. CASE Restore(t)
    BY <2>2, <2>4, <2>6 DEF Restore
  <2> QED  BY <2>3, <2>5, <2>6
<1>4. Growing /\ raced' \in [Trades -> SUBSET Races]
  BY <1>1, MarkGrows DEF Growing, IInv, TypeOK
<1>5. BrokerTypes /\ faults' \in 0..MaxFaults
  BY <1>1, <1>2 DEF IInv, TypeOK, BrokerTypes
<1>6. Rungs'
  BY <1>1, <1>4, RungsFrame DEF IInv, rowVars, taskVars
<1> QED  BY <1>1, <1>3, <1>4, <1>5, <1>6, OutsideStep

\* The link to the EA breaks: of what was written some first part arrives.
LEMMA LinkLostStep ==
    ASSUME IInv, LinkLost
    PROVE  IInv'
<1>1. /\ UNCHANGED <<held, deals, fills, seen, armed, rowVars, taskVars, told, scored>>
      /\ hello' = ByEa /\ watched' \in {watched, {}}
  BY DEF LinkLost
<1>2. PICK k \in 0..Len(inbox) :
         /\ inbox' = SubSeq(inbox, 1, k)
         /\ raced' = [t \in Trades |->
               IF \E i \in (k + 1)..Len(inbox) : inbox[i].trade = t
               THEN raced[t] \cup {"lost"} ELSE raced[t]]
  BY DEF LinkLost
<1>3. Growing /\ raced' \in [Trades -> SUBSET Races]
  BY <1>2 DEF Growing, IInv, TypeOK
<1>4. inbox' \in Seq(Events) /\ inbox' \in Seq(EaEvents)
  <2>1. inbox \in Seq(Events) /\ inbox \in Seq(EaEvents)
    BY DEF IInv, TypeOK, Owners
  <2>2. 1 \in 1..(Len(inbox) + 1) /\ k \in (1 - 1)..Len(inbox)
    BY <2>1, LenProperties
  <2> QED  BY <1>2, <2>1, <2>2, SubSeqProperties
<1>5. faults' \in 0..MaxFaults
  BY LedgerAssumption DEF LinkLost, IInv, TypeOK
<1>6. BrokerTypes
  BY <1>1 DEF BrokerTypes, IInv, TypeOK
<1>7. Rungs'
  BY <1>1, <1>3, RungsFrame DEF IInv, rowVars, taskVars
<1> QED  BY <1>1, <1>3, <1>4, <1>5, <1>6, <1>7, OutsideStep

\* The ladder's partial close: the level is filled once and in hand, or the
\* answer is lost.
LEMMA LadderSendStep ==
    ASSUME IInv, NEW p \in Tasks, LadderSend(p)
    PROVE  IInv'
<1> DEFINE t == job[p].trade
           n == job[p].level
           q == Lesser(job[p].lots, held[t])
           j == [job[p] EXCEPT !.lots = q]
<1>1. /\ job[p] \in Jobs /\ t \in Trades /\ pc[p] = "tpSend" /\ n \in 1..Levels
      /\ job[p].lots \in Nat /\ job[p].gain \in Int /\ KindOf[p] = "ladder"
      /\ n \notin Triggered(t) /\ Managed[t] = "python"
  BY JobFields, LedgerAssumption
     DEF IInv, TypeOK, InHand, Fits, Owners, Owns, LadderSend
<1>a. t \notin due
  BY <1>1 DEF IInv, Owners, Owns
<1>2. held[t] \in Nat /\ q \in 0..held[t] /\ q \in Nat /\ q \in Int
  <2>1. held \in [Trades -> 0..Lots]
    BY DEF IInv, TypeOK
  <2>2. held[t] \in 0..Lots
    BY <1>1, <2>1
  <2>3. held[t] \in Nat /\ held[t] \in Int
    BY <2>2, LedgerAssumption
  <2>4. q \in 0..held[t] /\ q \in Nat /\ q \in Int
    BY <1>1, <2>3, LesserBounds
  <2> QED  BY <2>2, <2>3, <2>4
<1>3. /\ UNCHANGED <<eaVars, inbox, rowVars, told, scored, faults>>
      /\ \/ /\ BrokerClose(t, q, job[p].gain)
            /\ fills' = [fills EXCEPT ![t][n] = @ + 1]
            /\ \/ Begin(p, "partRead", j) /\ UNCHANGED raced
               \/ Begin(p, "idle", NoJob) /\ Mark(t, {"unanswered"})
         \/ Begin(p, "idle", NoJob) /\ UNCHANGED <<brokerVars, raced>>
  BY DEF LadderSend, Finish, brokerVars
<1> HIDE DEF q
<1>4. j \in Jobs /\ j.trade = t /\ j.level = n /\ j.lots = q
  BY <1>1, <1>2 DEF Jobs
<1> HIDE DEF j
<1>5. Growing /\ raced' \in [Trades -> SUBSET Races]
  BY <1>1, <1>3, MarkGrows DEF Growing, IInv, TypeOK
<1>6. inbox' \in Seq(Events) /\ inbox' \in Seq(EaEvents)
  BY <1>3 DEF IInv, TypeOK, Owners
<1>7. CASE Begin(p, "idle", NoJob) /\ UNCHANGED <<brokerVars, raced>>
  <2>1. Rungs'
    BY <1>1, <1>3, <1>5, <1>7, NoJobTypes, RungsMove DEF brokerVars, eaVars, rowVars
  <2>2. BrokerTypes
    BY <1>7 DEF IInv, TypeOK, BrokerTypes, brokerVars, eaVars
  <2> QED  BY <1>3, <1>5, <1>6, <1>7, <2>1, <2>2, IdleFits, NoJobTypes, TaskStep
<1>8. CASE /\ BrokerClose(t, q, job[p].gain)
           /\ fills' = [fills EXCEPT ![t][n] = @ + 1]
           /\ \/ Begin(p, "partRead", j) /\ UNCHANGED raced
              \/ Begin(p, "idle", NoJob) /\ Mark(t, {"unanswered"})
  <2>0. fills \in [Trades -> [1..Levels -> Nat]]
    BY DEF IInv, TypeOK
  <2>1. /\ fills' \in [Trades -> [1..Levels -> Nat]]
        /\ fills'[t][n] = fills[t][n] + 1
        /\ \A u \in Trades, k \in 1..Levels : u # t \/ k # n => fills'[u][k] = fills[u][k]
    <3>1. t \in Trades /\ n \in 1..Levels /\ fills' = [fills EXCEPT ![t][n] = @ + 1]
      BY <1>1, <1>8
    <3> HIDE DEF t, n
    <3> QED  BY <2>0, <3>1, FillUpdate
  <2>2. BrokerTypes
    <3>1. /\ watched' \in SUBSET ByEa /\ hello' \in SUBSET ByEa
          /\ armed' \in [Trades -> SUBSET (1..Levels)]
      BY <1>3 DEF IInv, TypeOK, eaVars
    <3>2. /\ held' \in [Trades -> 0..Lots] /\ deals' \in [Trades -> Int]
          /\ seen' \in [Trades -> [lots : 0..Lots, sum : Int]]
      BY <1>1, <1>2, <1>8, BrokerCloseTypes DEF IInv
    <3> QED  BY <2>1, <3>1, <3>2 DEF BrokerTypes
  <2>4. PICK loc \in {"partRead", "idle"}, k \in {j, NoJob} :
           /\ Begin(p, loc, k) /\ k \in Jobs
           /\ \/ loc = "partRead" /\ k = j
              \/ loc = "idle" /\ k = NoJob /\ Mark(t, {"unanswered"})
    BY <1>4, <1>8, NoJobTypes
  <2>5. Fits(loc, k) /\ Owns(p, loc, k)
    BY <1>1, <1>a, <1>2, <1>4, <2>4, IdleFits DEF Fits, Owns
  <2>6. Rungs'
    <3> SUFFICES ASSUME NEW u \in Trades, raced'[u] \cap {"unanswered", "torn"} = {},
                        NEW i \in 1..Levels
                 PROVE  Managed[u] = "python" => fills'[u][i] <= 1 /\ Accounted(u, i)'
      BY DEF Rungs
    <3>1. /\ pc'[p] = loc /\ job'[p] = k
          /\ \A r \in Tasks : r # p => pc'[r] = pc[r] /\ job'[r] = job[r]
          /\ due' = due
      BY <2>4, BeginMoves DEF IInv
    <3>2. Managed[u] = "python" => fills[u][i] <= 1 /\ Accounted(u, i)
      BY <1>5 DEF IInv, Rungs, Growing
    <3>3. CASE u = t
      \* The level was neither booked nor being booked, so it was not yet sent.
      <4>1. loc = "partRead" /\ k = j
        <5>1. Mark(t, {"unanswered"}) => "unanswered" \in raced'[t]
          BY <1>1 DEF Mark, IInv, TypeOK
        <5> QED  BY <2>4, <3>3, <5>1
      <4>2. fills[t][n] = 0
        <5>1. raced[t] \cap {"unanswered", "torn"} = {}
          BY <1>5, <3>3 DEF Growing
        <5>2. Accounted(t, n)
          BY <1>1, <5>1 DEF IInv, Rungs
        <5> QED  BY <1>1, <5>2, LedgerAssumption DEF Accounted
      <4>3. CASE i = n
        BY <1>1, <1>4, <2>1, <3>1, <3>3, <4>1, <4>2, <4>3 DEF Accounted
      <4>4. CASE i # n
        <5>1. fills'[u][i] = fills[u][i] /\ Triggered(u)' = Triggered(u)
          BY <1>3, <2>1, <3>3, <4>4 DEF Triggered, rowVars
        <5>2. Managed[u] = "python" => fills[u][i] = 0 \/ i \in Triggered(u)
          BY <1>1, <3>2, <3>3, LedgerAssumption DEF Accounted
        <5> QED  BY <3>2, <5>1, <5>2 DEF Accounted
      <4> QED  BY <4>3, <4>4
    <3>4. CASE u # t
      <4>1. fills'[u][i] = fills[u][i] /\ Triggered(u)' = Triggered(u) /\ st' = st
        BY <1>3, <2>1, <3>4 DEF Triggered, rowVars
      <4>2. job'[p].trade # u
        BY <1>4, <2>4, <3>1, <3>4, NoJobTypes, LedgerAssumption
      <4> QED  BY <1>1, <3>1, <3>2, <3>4, <4>1, <4>2 DEF Accounted
    <3> QED  BY <3>3, <3>4
  <2> QED  BY <1>3, <1>5, <1>6, <2>2, <2>4, <2>5, <2>6, TaskStep
<1> QED  BY <1>3, <1>7, <1>8

\* apply_full_close: the winner books, the loser does nothing.
LEMMA FullApplyStep ==
    ASSUME IInv, NEW p \in Tasks, FullApply(p)
    PROVE  IInv'
<1> DEFINE t == job[p].trade
           money == job[p].rem * job[p].gain
           tags == (IF net[t] # job[p].net THEN {"overwrite"} ELSE {})
                   \cup (IF stamp[t] # NoStamp THEN {"late"} ELSE {})
<1>1. job[p] \in Jobs /\ t \in Trades /\ pc[p] = "fullApply" /\ job[p].net \in Int
  BY JobFields DEF IInv, TypeOK, InHand, Fits, FullApply
<1>2. money \in Int
  BY <1>1, JobFields
<1>3. Begin(p, "idle", NoJob) /\ UNCHANGED <<brokerVars, inbox, stamp, taken, faults>>
  BY DEF FullApply, Finish
<1>4. /\ pc' \in [Tasks -> Pcs] /\ job' \in [Tasks -> Jobs]
      /\ pc'[p] = "idle" /\ job'[p] = NoJob
      /\ \A q \in Tasks : q # p => pc'[q] = pc[q] /\ job'[q] = job[q]
      /\ due' = due
  BY <1>3, BeginMoves, NoJobTypes DEF IInv
<1> HIDE DEF money
<1>5. CASE st[t] # "open"
  <2>1. UNCHANGED <<brokerVars, inbox, rowVars, tallyVars, faults>>
    BY <1>5 DEF FullApply, rowVars
  <2>2. Growing
    BY <2>1 DEF Growing, tallyVars
  <2>3. Rungs'
    BY <1>1, <1>3, <2>1, <2>2, NoJobTypes, RungsMove DEF brokerVars, eaVars, rowVars
  <2> QED  BY <1>3, <2>1, <2>3, IdleFits, NoJobTypes, PlainStep
<1>6. CASE st[t] = "open"
  <2>1. /\ st' = [st EXCEPT ![t] = "closed"]
        /\ rem' = [rem EXCEPT ![t] = 0]
        /\ net' = [net EXCEPT ![t] = job[p].net + money]
        /\ credit' = [credit EXCEPT ![t] = @ + money]
        /\ told' = told \/ told' = [told EXCEPT ![t] = @ + 1]
        /\ scored' = [scored EXCEPT ![t] = @ + 1]
        /\ Mark(t, tags)
    BY <1>6 DEF FullApply, WinnerTail, money
  <2>2. tags \in SUBSET Races
    OBVIOUS
  <2>3. Growing /\ raced' \in [Trades -> SUBSET Races]
    BY <1>1, <2>1, <2>2, MarkGrows DEF IInv
  <2>4. /\ net[t] # job[p].net => "overwrite" \in raced'[t]
        /\ stamp[t] # NoStamp => "late" \in raced'[t]
    BY <1>1, <2>1 DEF Mark, IInv, TypeOK
  <2> HIDE DEF tags
  <2>5. TypeOK'
    <3>1. /\ st' \in [Trades -> {"open", "closed"}] /\ rem' \in [Trades -> 0..Lots]
          /\ net' \in [Trades -> Int] /\ credit' \in [Trades -> Int]
          /\ told' \in [Trades -> Nat] /\ scored' \in [Trades -> Nat]
      <4>1. /\ st \in [Trades -> {"open", "closed"}] /\ rem \in [Trades -> 0..Lots]
            /\ net \in [Trades -> Int] /\ credit \in [Trades -> Int]
            /\ told \in [Trades -> Nat] /\ scored \in [Trades -> Nat]
        BY DEF IInv, TypeOK
      <4>2. job[p].net + money \in Int /\ credit[t] + money \in Int /\ 0 \in 0..Lots
            /\ told[t] + 1 \in Nat /\ scored[t] + 1 \in Nat
        BY <1>1, <1>2, <4>1, LedgerAssumption
      <4> QED  BY <1>1, <2>1, <4>1, <4>2
    <3> QED  BY <1>3, <1>4, <2>3, <3>1 DEF IInv, TypeOK, brokerVars, eaVars
  <2>6. InHand'
    BY <1>4, IdleFits DEF IInv, InHand
  <2>7. Owners'
    <3>1. \A u \in due' : st'[u] = "closed"
      <4>1. due \in SUBSET Trades /\ \A u \in due : st[u] = "closed"
        BY DEF IInv, TypeOK, Owners
      <4>2. st \in [Trades -> {"open", "closed"}]
        BY DEF IInv, TypeOK
      <4> QED  BY <1>1, <1>4, <2>1, <4>1, <4>2
    <3> QED  BY <1>3, <1>4, <3>1, IdleFits DEF IInv, Owners, Owns, Triggered
  <2>8. Verdicts'
    <3> SUFFICES ASSUME NEW u \in Trades, "late" \notin raced'[u]
                 PROVE  /\ told'[u] <= 1 /\ scored'[u] <= 1
                        /\ st'[u] = "open" => told'[u] = 0 /\ scored'[u] = 0
                        /\ u \in due' => told'[u] = 0 /\ scored'[u] = 0
      BY DEF Verdicts
    <3>1. /\ told[u] <= 1 /\ scored[u] <= 1
          /\ st[u] = "open" => told[u] = 0 /\ scored[u] = 0
          /\ u \in due => told[u] = 0 /\ scored[u] = 0 /\ st[u] = "closed"
      BY <2>3 DEF IInv, Verdicts, Growing, Owners
    <3>2. /\ st \in [Trades -> {"open", "closed"}]
          /\ told \in [Trades -> Nat] /\ scored \in [Trades -> Nat]
      BY DEF IInv, TypeOK
    <3>3. CASE u = t
      <4>1. st'[t] = "closed" /\ told'[t] <= told[t] + 1 /\ scored'[t] = scored[t] + 1
        BY <1>1, <2>1, <3>2
      <4>2. u \notin due'
        BY <1>4, <1>6, <3>1, <3>3
      <4>3. told[t] = 0 /\ scored[t] = 0
        BY <1>6, <3>1, <3>3
      <4>4. told'[t] <= 1 /\ scored'[t] <= 1
        BY <4>1, <4>3
      <4> QED  BY <3>3, <4>1, <4>2, <4>4
    <3>4. CASE u # t
      <4>1. st'[u] = st[u] /\ told'[u] = told[u] /\ scored'[u] = scored[u]
        BY <1>1, <2>1, <3>2, <3>4
      <4> QED  BY <1>4, <3>1, <4>1
    <3> QED  BY <3>3, <3>4
  <2>9. Rungs'
    <3> SUFFICES ASSUME NEW u \in Trades, raced'[u] \cap {"unanswered", "torn"} = {},
                        NEW k \in 1..Levels
                 PROVE  Managed[u] = "python" => fills'[u][k] <= 1 /\ Accounted(u, k)'
      BY DEF Rungs
    <3>1. Managed[u] = "python" => fills[u][k] <= 1 /\ Accounted(u, k)
      BY <2>3 DEF IInv, Rungs, Growing
    <3>2. st[u] = "closed" => st'[u] = "closed"
      BY <2>1 DEF IInv, TypeOK
    <3>3. job'[p].trade # u
      BY <1>4, NoJobTypes, LedgerAssumption
    <3> QED  BY <1>1, <1>3, <1>4, <3>1, <3>2, <3>3 DEF Accounted, Triggered, brokerVars, eaVars
  <2>10. BooksBalance'
    BY <1>1, <1>2, <2>1, <2>3, <2>4 DEF IInv, TypeOK, BooksBalance, Growing
  <2>11. StampIsBooked'
    <3> SUFFICES ASSUME NEW u \in Trades, stamp[u] # NoStamp
                 PROVE  net'[u] = stamp[u] \/ raced'[u] \cap {"late", "restamp"} # {}
      BY <1>3 DEF StampIsBooked
    <3>1. net[u] = stamp[u] \/ raced'[u] \cap {"late", "restamp"} # {}
      BY <2>3 DEF IInv, StampIsBooked, Growing
    <3>2. CASE u = t
      BY <2>4, <3>2
    <3>3. CASE u # t
      <4>1. net'[u] = net[u]
        BY <2>1, <3>3 DEF IInv, TypeOK
      <4> QED  BY <3>1, <4>1
    <3> QED  BY <3>2, <3>3
  <2> QED  BY <2>5, <2>6, <2>7, <2>8, <2>9, <2>10, <2>11 DEF IInv
<1> QED  BY <1>5, <1>6

\* apply_profit_sync: the row and the balance move by the same amount.
LEMMA SyncApplyStep ==
    ASSUME IInv, NEW p \in Tasks, SyncApply(p)
    PROVE  IInv'
<1> DEFINE t == job[p].trade
           total == job[p].net
<1>1. job[p] \in Jobs /\ t \in Trades /\ pc[p] = "syncApply" /\ total \in Int
  BY JobFields DEF IInv, TypeOK, InHand, Fits, SyncApply
<1>2. /\ Begin(p, "idle", NoJob) /\ stamp' = [stamp EXCEPT ![t] = total]
      /\ UNCHANGED <<brokerVars, inbox, st, rem, taken, told, scored, faults>>
      /\ \/ /\ stamp[t] = NoStamp /\ UNCHANGED raced
            /\ credit' = [credit EXCEPT ![t] = @ + (total - net[t])]
            /\ net' = [net EXCEPT ![t] = total]
         \/ /\ stamp[t] = total \/ Mark(t, {"restamp"})
            /\ UNCHANGED raced \/ Mark(t, {"restamp"})
            /\ stamp[t] # NoStamp /\ UNCHANGED <<credit, net>>
  BY DEF SyncApply, Finish
<1>3. /\ pc' \in [Tasks -> Pcs] /\ job' \in [Tasks -> Jobs]
      /\ pc'[p] = "idle" /\ job'[p] = NoJob
      /\ \A q \in Tasks : q # p => pc'[q] = pc[q] /\ job'[q] = job[q]
      /\ due' = due
  BY <1>2, BeginMoves, NoJobTypes DEF IInv
<1>4. Growing /\ raced' \in [Trades -> SUBSET Races]
  BY <1>1, <1>2, MarkGrows DEF Growing, IInv, TypeOK
<1>5. Mark(t, {"restamp"}) => "restamp" \in raced'[t]
  BY <1>1 DEF Mark, IInv, TypeOK
<1>6. TypeOK'
  <2>1. /\ stamp' \in [Trades -> Int \cup {NoStamp}]
        /\ net' \in [Trades -> Int] /\ credit' \in [Trades -> Int]
    <3>1. /\ stamp \in [Trades -> Int \cup {NoStamp}]
          /\ net \in [Trades -> Int] /\ credit \in [Trades -> Int]
      BY DEF IInv, TypeOK
    <3>2. credit[t] + (total - net[t]) \in Int
      BY <1>1, <3>1
    <3> QED  BY <1>1, <1>2, <3>1, <3>2
  <2> QED  BY <1>2, <1>3, <1>4, <2>1 DEF IInv, TypeOK, brokerVars, eaVars
<1>7. InHand'
  BY <1>3, IdleFits DEF IInv, InHand
<1>8. Owners'
  BY <1>2, <1>3, IdleFits DEF IInv, Owners, Owns, Triggered
<1>9. Verdicts'
  BY <1>2, <1>3, <1>4, VerdictsFrame DEF IInv
<1>10. Rungs'
  BY <1>1, <1>2, <1>4, NoJobTypes, RungsMove DEF brokerVars, eaVars
<1>11. BooksBalance'
  <2>1. net \in [Trades -> Int] /\ credit \in [Trades -> Int]
    BY DEF IInv, TypeOK
  <2> SUFFICES ASSUME NEW u \in Trades PROVE credit'[u] = net'[u] \/ "overwrite" \in raced'[u]
    BY DEF BooksBalance
  <2>2. credit[u] = net[u] \/ "overwrite" \in raced'[u]
    BY <1>4 DEF IInv, BooksBalance, Growing
  <2>3. \/ credit'[u] = credit[u] /\ net'[u] = net[u]
        \/ credit'[u] = credit[u] + (total - net[u]) /\ net'[u] = total
    BY <1>1, <1>2, <2>1
  <2> QED  BY <1>1, <2>1, <2>2, <2>3
<1>12. StampIsBooked'
  <2>1. stamp \in [Trades -> Int \cup {NoStamp}] /\ net \in [Trades -> Int]
    BY DEF IInv, TypeOK
  <2> SUFFICES ASSUME NEW u \in Trades, stamp'[u] # NoStamp
               PROVE  net'[u] = stamp'[u] \/ raced'[u] \cap {"late", "restamp"} # {}
    BY DEF StampIsBooked
  <2>2. CASE u # t
    <3>1. stamp'[u] = stamp[u] /\ net'[u] = net[u]
      BY <1>1, <1>2, <2>1, <2>2
    <3> QED  BY <1>4, <3>1 DEF IInv, StampIsBooked, Growing
  <2>3. CASE u = t
    <3>1. stamp'[t] = total
      BY <1>1, <1>2, <2>1
    <3>2. CASE stamp[t] = NoStamp
      BY <1>1, <1>2, <1>5, <2>1, <2>3, <3>1, <3>2
    <3>3. CASE stamp[t] # NoStamp
      <4>1. net'[t] = net[t] /\ (stamp[t] = total \/ "restamp" \in raced'[t])
        BY <1>2, <1>5, <3>3
      <4>2. net[t] = stamp[t] \/ raced'[t] \cap {"late", "restamp"} # {}
        BY <1>1, <1>4, <3>3 DEF IInv, StampIsBooked, Growing
      <4> QED  BY <2>3, <3>1, <4>1, <4>2
    <3> QED  BY <3>2, <3>3
  <2> QED  BY <2>2, <2>3
<1> QED  BY <1>6, <1>7, <1>8, <1>9, <1>10, <1>11, <1>12 DEF IInv

\* _close_full_after_tps: nothing was announced while it was due.
LEMMA ResidualStep ==
    ASSUME IInv, NEW p \in Tasks, NEW t \in Trades, Residual(p, t)
    PROVE  IInv'
<1>1. /\ pc[p] = "idle" /\ KindOf[p] = "finisher" /\ t \in due /\ due' = due \ {t}
      /\ st[t] = "closed"
      /\ held[t] \in 0..Lots /\ held \in [Trades -> 0..Lots]
      /\ st \in [Trades -> {"open", "closed"}] /\ rem \in [Trades -> 0..Lots]
      /\ told \in [Trades -> Nat] /\ told[t] + 1 \in Nat
  <2>1. /\ held \in [Trades -> 0..Lots] /\ rem \in [Trades -> 0..Lots]
        /\ st \in [Trades -> {"open", "closed"}] /\ told \in [Trades -> Nat]
    BY DEF IInv, TypeOK
  <2>2. /\ pc[p] = "idle" /\ KindOf[p] = "finisher" /\ t \in due /\ due' = due \ {t}
        /\ st[t] = "closed"
    BY DEF IInv, Owners, Residual
  <2> QED  BY <2>1, <2>2
<1>2. \A u \in Trades : /\ u \in due' => u \in due /\ u # t
                        /\ u # t /\ u \notin due' => u \notin due
  BY <1>1
<1> DEFINE j == [NoJob EXCEPT !.trade = t, !.gain = Win]
<1>j. j \in Jobs /\ j.trade = t /\ j.level = 0
  BY NoJobTypes, LedgerAssumption DEF Jobs
<1>3. CASE /\ st' = [st EXCEPT ![t] = "open"] /\ rem' = [rem EXCEPT ![t] = held[t]]
           /\ Mark(t, {"reopened"})
           /\ pc' = [pc EXCEPT ![p] = "residualSend"] /\ job' = [job EXCEPT ![p] = j]
           /\ UNCHANGED <<brokerVars, inbox, net, stamp, taken, credit, told, scored, faults>>
  <2> HIDE DEF j
  <2>2. /\ pc' \in [Tasks -> Pcs] /\ job' \in [Tasks -> Jobs]
        /\ pc'[p] = "residualSend" /\ job'[p] = j
        /\ \A q \in Tasks : q # p => pc'[q] = pc[q] /\ job'[q] = job[q]
    BY <1>3, <1>j DEF IInv, TypeOK
  <2>3. Growing /\ raced' \in [Trades -> SUBSET Races]
    BY <1>3, MarkGrows DEF IInv
  <2>4. TypeOK'
    <3>1. st' \in [Trades -> {"open", "closed"}] /\ rem' \in [Trades -> 0..Lots]
      BY <1>1, <1>3
    <3>2. due' \in SUBSET Trades
      BY <1>1 DEF IInv, TypeOK
    <3> QED  BY <1>3, <2>2, <2>3, <3>1, <3>2 DEF IInv, TypeOK, brokerVars, eaVars
  <2>5. InHand'
    <3>1. Fits("residualSend", j)
      BY <1>j DEF Fits
    <3> QED  BY <2>2, <3>1 DEF IInv, InHand
  <2>6. Owners'
    <3>0. \A u \in due' : st'[u] = "closed"
      <4>1. due \in SUBSET Trades /\ \A u \in due : st[u] = "closed"
        BY DEF IInv, TypeOK, Owners
      <4> QED  BY <1>1, <1>3, <4>1
    <3> SUFFICES ASSUME NEW q \in Tasks PROVE Owns(q, pc[q], job[q])'
      BY <1>3, <3>0 DEF IInv, Owners
    <3>1. Owns(q, pc[q], job[q])
      BY DEF IInv, Owners
    <3>2. CASE q = p
      BY <1>1, <1>j, <2>2, <3>2 DEF Owns
    <3>3. CASE q # p
      BY <1>1, <1>3, <2>2, <3>1, <3>3 DEF Owns, Triggered
    <3> QED  BY <3>2, <3>3
  <2>7. Verdicts'
    <3> SUFFICES ASSUME NEW u \in Trades, "late" \notin raced'[u]
                 PROVE  /\ told'[u] <= 1 /\ scored'[u] <= 1
                        /\ st'[u] = "open" \/ u \in due' => told'[u] = 0 /\ scored'[u] = 0
      BY DEF Verdicts
    <3>1. /\ told[u] <= 1 /\ scored[u] <= 1
          /\ st[u] = "open" \/ u \in due => told[u] = 0 /\ scored[u] = 0
      BY <2>3 DEF IInv, Verdicts, Growing
    <3>3. u # t => st'[u] = st[u]
      BY <1>1, <1>3
    <3> QED  BY <1>1, <1>2, <1>3, <3>1, <3>3
  <2>8. Rungs'
    <3> SUFFICES ASSUME NEW u \in Trades, raced'[u] \cap {"unanswered", "torn"} = {},
                        NEW k \in 1..Levels
                 PROVE  Managed[u] = "python" => fills'[u][k] <= 1 /\ Accounted(u, k)'
      BY DEF Rungs
    <3>1. Managed[u] = "python" => fills[u][k] <= 1 /\ Accounted(u, k)
      BY <2>3 DEF IInv, Rungs, Growing
    <3>2. u # t => st'[u] = st[u]
      BY <1>1, <1>3
    <3> QED  BY <1>1, <1>2, <1>3, <2>2, <3>1, <3>2 DEF Accounted, Triggered, brokerVars, eaVars
  <2>9. BooksBalance' /\ StampIsBooked'
    BY <1>3, <2>3, BooksFrame DEF IInv
  <2> QED  BY <2>4, <2>5, <2>6, <2>7, <2>8, <2>9 DEF IInv
<1>4. CASE /\ told' = [told EXCEPT ![t] = @ + 1]
           /\ UNCHANGED raced \/ Mark(t, {"blind"})
           /\ UNCHANGED <<brokerVars, inbox, pc, job, rowVars, scored, faults>>
  <2>3. Growing /\ raced' \in [Trades -> SUBSET Races]
    BY <1>4, MarkGrows DEF IInv, TypeOK, Growing
  <2>4. TypeOK'
    <3>1. told' \in [Trades -> Nat] /\ due' \in SUBSET Trades
      BY <1>1, <1>4 DEF IInv, TypeOK
    <3> QED  BY <1>4, <2>3, <3>1 DEF IInv, TypeOK, brokerVars, eaVars, rowVars
  <2>5. InHand'
    BY <1>4 DEF IInv, InHand
  <2>6. Owners'
    BY <1>1, <1>4 DEF IInv, Owners, Owns, Triggered, rowVars
  <2>7. Verdicts'
    <3> SUFFICES ASSUME NEW u \in Trades, "late" \notin raced'[u]
                 PROVE  /\ told'[u] <= 1 /\ scored'[u] <= 1
                        /\ st'[u] = "open" \/ u \in due' => told'[u] = 0 /\ scored'[u] = 0
      BY DEF Verdicts
    <3>1. /\ told[u] <= 1 /\ scored[u] <= 1
          /\ st[u] = "open" \/ u \in due => told[u] = 0 /\ scored[u] = 0
      BY <2>3 DEF IInv, Verdicts, Growing
    <3>3. told'[t] = told[t] + 1 /\ (u # t => told'[u] = told[u])
      BY <1>1, <1>4
    <3> QED  BY <1>1, <1>2, <1>4, <3>1, <3>3 DEF rowVars
  <2>8. Rungs'
    <3> SUFFICES ASSUME NEW u \in Trades, raced'[u] \cap {"unanswered", "torn"} = {},
                        NEW k \in 1..Levels
                 PROVE  Managed[u] = "python" => fills'[u][k] <= 1 /\ Accounted(u, k)'
      BY DEF Rungs
    <3>1. Managed[u] = "python" => fills[u][k] <= 1 /\ Accounted(u, k)
      BY <2>3 DEF IInv, Rungs, Growing
    <3> QED  BY <1>1, <1>4, <3>1 DEF Accounted, Triggered, brokerVars, eaVars, rowVars
  <2>9. BooksBalance' /\ StampIsBooked'
    BY <1>4, <2>3, BooksFrame DEF IInv, rowVars
  <2> QED  BY <2>4, <2>5, <2>6, <2>7, <2>8, <2>9 DEF IInv
<1> QED  BY <1>3, <1>4 DEF Residual

\* apply_partial_close_with_reason.
LEMMA PartialApplyStep ==
    ASSUME IInv, NEW p \in Tasks, PartialApply(p)
    PROVE  IInv'
<1> DEFINE t == job[p].trade
           n == job[p].level
           left == job[p].rem - job[p].lots
           money == job[p].lots * job[p].gain
           shut == left <= 0
<1>1. /\ job[p] \in Jobs /\ t \in Trades /\ pc[p] = "partApply" /\ n \in 0..Levels
      /\ job[p].lots \in Int /\ job[p].gain \in Int
      /\ job[p].rem \in 0..Lots /\ job[p].lots \in 0..job[p].rem
  BY JobFields DEF IInv, TypeOK, InHand, Fits, PartialApply
<1>2. money \in Int
  BY <1>1
<1>3. left \in 0..Lots
  BY <1>1, LedgerAssumption
<1>4. /\ pc' = [pc EXCEPT ![p] = "idle"] /\ job' = [job EXCEPT ![p] = NoJob]
      /\ due' = IF shut /\ KindOf[p] = "ladder" THEN due \cup {t} ELSE due
  BY DEF PartialApply
<1>5. UNCHANGED <<brokerVars, inbox, faults>>
  BY DEF PartialApply
<1> HIDE DEF money
<1>6. /\ pc' \in [Tasks -> Pcs] /\ job' \in [Tasks -> Jobs]
      /\ pc'[p] = "idle" /\ job'[p] = NoJob
      /\ \A q \in Tasks : q # p => pc'[q] = pc[q] /\ job'[q] = job[q]
  BY <1>4, NoJobTypes DEF IInv, TypeOK
<1>7. InHand'
  BY <1>6, IdleFits DEF IInv, InHand
<1>8. KindOf[p] = "ladder" => /\ n > 0 /\ n \notin Triggered(t) /\ Managed[t] = "python"
                              /\ t \notin due
                              /\ \A q \in Tasks : KindOf[q] = "ladder" => q = p
  BY <1>1, LedgerAssumption DEF IInv, Owners, Owns
<1>9. CASE AlreadyBooked(t, job[p])
  \* The duplicate is dropped; it cannot be the ladder's own report.
  <2>1. UNCHANGED <<rowVars, tallyVars>>
    BY <1>9 DEF PartialApply
  <2>2. KindOf[p] # "ladder"
    <3>1. AlreadyBooked(t, job[p]) => n \in Triggered(t)
      BY DEF AlreadyBooked, Triggered
    <3> QED  BY <1>8, <1>9, <3>1
  <2>3. Begin(p, "idle", NoJob)
    BY <1>4, <2>2 DEF Begin
  <2> QED  BY <1>5, <2>1, <2>2, <2>3, IdleFits, NoJobTypes, PlainStep
<1>10. CASE ~AlreadyBooked(t, job[p])
  <2>1. /\ rem' = [rem EXCEPT ![t] = left]
        /\ net' = [net EXCEPT ![t] = @ + money]
        /\ credit' = [credit EXCEPT ![t] = @ + money]
        /\ taken' = IF n = 0 THEN taken
                    ELSE [taken EXCEPT ![t] = @ \cup {<<n, job[p].lots, job[p].gain>>}]
        /\ st' = IF shut THEN [st EXCEPT ![t] = "closed"] ELSE st
        /\ IF st[t] = "closed" \/ stamp[t] # NoStamp
           THEN Mark(t, {"late"}) ELSE UNCHANGED raced
        /\ UNCHANGED <<stamp, told, scored>>
    BY <1>10 DEF PartialApply, money
  <2>2. /\ st \in [Trades -> {"open", "closed"}] /\ rem \in [Trades -> 0..Lots]
        /\ net \in [Trades -> Int] /\ credit \in [Trades -> Int]
        /\ taken \in [Trades -> SUBSET ((1..Levels) \X Int \X Int)]
    BY DEF IInv, TypeOK
  <2>3. Growing /\ raced' \in [Trades -> SUBSET Races]
    BY <1>1, <2>1, MarkGrows DEF IInv, TypeOK, Growing
  <2>4. st[t] = "closed" \/ stamp[t] # NoStamp => "late" \in raced'[t]
    <3>1. raced \in [Trades -> SUBSET Races]
      BY DEF IInv, TypeOK
    <3>2. Mark(t, {"late"}) => "late" \in raced'[t]
      BY <1>1, <3>1 DEF Mark
    <3> QED  BY <2>1, <3>2
  <2>5. \A u \in Trades : /\ Triggered(u) \subseteq Triggered(u)'
                          /\ u # t \/ n = 0 => Triggered(u)' = Triggered(u)
                          /\ u = t /\ n > 0 => n \in Triggered(u)'
    <3> SUFFICES ASSUME NEW u \in Trades
                 PROVE  /\ Triggered(u) \subseteq Triggered(u)'
                        /\ u # t \/ n = 0 => Triggered(u)' = Triggered(u)
                        /\ u = t /\ n > 0 => n \in Triggered(u)'
      OBVIOUS
    <3>1. \/ taken'[u] = taken[u] /\ (u # t \/ n = 0)
          \/ taken'[u] = taken[u] \cup {<<n, job[p].lots, job[p].gain>>} /\ u = t /\ n # 0
      BY <1>1, <2>1, <2>2
    <3>2. CASE taken'[u] = taken[u] /\ (u # t \/ n = 0)
      BY <1>1, <3>2 DEF Triggered
    <3>3. CASE taken'[u] = taken[u] \cup {<<n, job[p].lots, job[p].gain>>} /\ u = t /\ n # 0
      <4>1. <<n, job[p].lots, job[p].gain>>[1] = n
        OBVIOUS
      <4> QED  BY <3>3, <4>1 DEF Triggered
    <3> QED  BY <3>1, <3>2, <3>3
  <2>6. TypeOK'
    <3>1. rem' \in [Trades -> 0..Lots] /\ st' \in [Trades -> {"open", "closed"}]
      BY <1>1, <1>3, <2>1, <2>2
    <3>2. net' \in [Trades -> Int] /\ credit' \in [Trades -> Int]
      <4>1. net[t] + money \in Int /\ credit[t] + money \in Int
        BY <1>1, <1>2, <2>2
      <4> QED  BY <1>1, <2>1, <2>2, <4>1
    <3>3. taken' \in [Trades -> SUBSET ((1..Levels) \X Int \X Int)]
      <4>1. CASE n = 0
        BY <2>1, <2>2, <4>1
      <4>2. CASE n # 0
        <5>1. n \in 1..Levels
          BY <1>1, <4>2, LedgerAssumption
        <5>2. <<n, job[p].lots, job[p].gain>> \in (1..Levels) \X Int \X Int
          BY <1>1, <5>1
        <5>3. taken[t] \cup {<<n, job[p].lots, job[p].gain>>} \in SUBSET ((1..Levels) \X Int \X Int)
          BY <1>1, <2>2, <5>2
        <5> QED  BY <1>1, <2>1, <2>2, <4>2, <5>3
      <4> QED  BY <4>1, <4>2
    <3>4. due' \in SUBSET Trades
      BY <1>1, <1>4 DEF IInv, TypeOK
    <3> QED  BY <1>5, <1>6, <2>1, <2>3, <3>1, <3>2, <3>3, <3>4 DEF IInv, TypeOK, brokerVars, eaVars
  <2>7. Owners'
    <3>0. \A u \in due' : st'[u] = "closed"
      <4>1. due \in SUBSET Trades /\ \A u \in due : st[u] = "closed"
        BY DEF IInv, TypeOK, Owners
      <4> QED  BY <1>1, <1>4, <2>1, <2>2, <4>1
    <3> SUFFICES ASSUME NEW q \in Tasks PROVE Owns(q, pc[q], job[q])'
      BY <1>5, <3>0 DEF IInv, Owners
    <3>1. CASE q = p
      BY <1>6, <3>1, IdleFits, NoJobTypes DEF Owns
    <3>2. CASE q # p
      \* The level just booked is not the one the ladder is working on: no two
      \* tasks are the ladder, and the EA's reader books other trades.
      <4>1. Owns(q, pc[q], job[q]) /\ pc'[q] = pc[q] /\ job'[q] = job[q] /\ Owns(p, pc[p], job[p])
        BY <1>6, <3>2 DEF IInv, Owners
      <4>2. ASSUME KindOf[q] = "ladder", pc[q] \in {"tpSend", "partRead", "partApply"}
            PROVE  /\ job[q].level > 0 /\ job[q].level \notin Triggered(job[q].trade)'
                   /\ job[q].trade \notin due'
        <5>1. /\ job[q].level > 0 /\ job[q].level \notin Triggered(job[q].trade)
              /\ Managed[job[q].trade] = "python" /\ job[q].trade \in Trades
              /\ job[q].trade \notin due
          BY <4>1, <4>2 DEF Owns, IInv, InHand, Fits
        <5>2. n > 0 => job[q].trade # t
          BY <1>1, <1>8, <3>2, <4>1, <4>2, <5>1 DEF Owns
        <5>3. n = 0 \/ n > 0
          BY <1>1, LedgerAssumption
        <5>4. due' = due
          BY <1>4, <1>8, <3>2, <4>2
        <5> QED  BY <2>5, <4>1, <5>1, <5>2, <5>3, <5>4
      <4> QED  BY <4>1, <4>2 DEF Owns
    <3> QED  BY <3>1, <3>2
  <2>8. Verdicts'
    <3> SUFFICES ASSUME NEW u \in Trades, "late" \notin raced'[u]
                 PROVE  /\ told'[u] <= 1 /\ scored'[u] <= 1
                        /\ st'[u] = "open" => told'[u] = 0 /\ scored'[u] = 0
                        /\ u \in due' => told'[u] = 0 /\ scored'[u] = 0
      BY DEF Verdicts
    <3>1. /\ told[u] <= 1 /\ scored[u] <= 1
          /\ st[u] = "open" => told[u] = 0 /\ scored[u] = 0
          /\ u \in due => told[u] = 0 /\ scored[u] = 0 /\ st[u] = "closed"
      BY <2>3 DEF IInv, Verdicts, Growing, Owners
    <3>2. CASE u = t
      <4>1. st[t] = "open"
        BY <1>1, <2>2, <2>4, <3>2
      <4>2. told'[u] = 0 /\ scored'[u] = 0
        BY <2>1, <3>1, <3>2, <4>1
      <4> QED  BY <4>2
    <3>3. CASE u # t
      <4>1. st'[u] = st[u]
        BY <1>1, <2>1, <2>2, <3>3
      <4>2. u \in due' => u \in due
        BY <1>4, <3>3
      <4> QED  BY <2>1, <3>1, <4>1, <4>2
    <3> QED  BY <3>2, <3>3
  <2>9. Rungs'
    <3> SUFFICES ASSUME NEW u \in Trades, raced'[u] \cap {"unanswered", "torn"} = {},
                        NEW k \in 1..Levels
                 PROVE  Managed[u] = "python" => fills'[u][k] <= 1 /\ Accounted(u, k)'
      BY DEF Rungs
    <3>1. Managed[u] = "python" => fills[u][k] <= 1 /\ Accounted(u, k)
      BY <2>3 DEF IInv, Rungs, Growing
    <3>2. fills' = fills /\ (k \in Triggered(u) => k \in Triggered(u)')
      BY <1>5, <2>5 DEF brokerVars, eaVars
    <3>3. st[u] = "closed" => st'[u] = "closed"
      BY <1>1, <2>1, <2>2
    <3>4. ASSUME u \notin due, \A q \in Tasks : KindOf[q] = "ladder" => job[q].trade # u
          PROVE  u \notin due' /\ \A q \in Tasks : KindOf[q] = "ladder" => job'[q].trade # u
      BY <1>4, <1>6, <3>4, NoJobTypes, LedgerAssumption
    <3>5. ASSUME NEW q \in Tasks, KindOf[q] = "ladder", pc[q] \in {"partRead", "partApply"},
                 job[q].trade = u, job[q].level = k
          PROVE  \/ k \in Triggered(u)'
                 \/ pc'[q] \in {"partRead", "partApply"} /\ job'[q].trade = u /\ job'[q].level = k
      <4>1. CASE q = p
        BY <1>8, <2>5, <3>5, <4>1
      <4>2. CASE q # p
        BY <1>6, <3>5, <4>2
      <4> QED  BY <4>1, <4>2
    <3> QED  BY <3>1, <3>2, <3>3, <3>4, <3>5 DEF Accounted
  <2>10. BooksBalance'
    <3> SUFFICES ASSUME NEW u \in Trades PROVE credit'[u] = net'[u] \/ "overwrite" \in raced'[u]
      BY DEF BooksBalance
    <3>1. credit[u] = net[u] \/ "overwrite" \in raced'[u]
      BY <2>3 DEF IInv, BooksBalance, Growing
    <3> QED  BY <1>1, <1>2, <2>1, <2>2, <3>1
  <2>11. StampIsBooked'
    <3> SUFFICES ASSUME NEW u \in Trades, stamp[u] # NoStamp
                 PROVE  net'[u] = stamp[u] \/ raced'[u] \cap {"late", "restamp"} # {}
      BY <2>1 DEF StampIsBooked
    <3>1. net[u] = stamp[u] \/ raced'[u] \cap {"late", "restamp"} # {}
      BY <2>3 DEF IInv, StampIsBooked, Growing
    <3>2. CASE u = t
      BY <2>4, <3>2
    <3>3. CASE u # t
      BY <1>1, <2>1, <2>2, <3>1, <3>3
    <3> QED  BY <3>2, <3>3
  <2> QED  BY <1>7, <2>6, <2>7, <2>8, <2>9, <2>10, <2>11 DEF IInv
<1> QED  BY <1>9, <1>10

\* The process dies: whatever was in hand is marked torn.
LEMMA CrashStep ==
    ASSUME IInv, Crash
    PROVE  IInv'
<1>1. /\ \A p \in Tasks : pc'[p] = "idle" /\ job'[p] = NoJob
      /\ pc' \in [Tasks -> Pcs] /\ job' \in [Tasks -> Jobs]
      /\ due' = {} /\ hello' = ByEa
      /\ UNCHANGED <<held, deals, fills, seen, watched, armed, rowVars, told, scored>>
  BY NoJobTypes DEF Crash
<1>2. /\ Growing /\ raced' \in [Trades -> SUBSET Races]
      /\ \A t \in Trades, p \in Tasks : job[p].trade = t => "torn" \in raced'[t]
  BY DEF Crash, Growing, IInv, TypeOK
<1>3. inbox' \in Seq(Events) /\ inbox' \in Seq(EaEvents)
  BY DEF Crash
<1>4. TypeOK'
  <2>1. faults' \in 0..MaxFaults
    BY LedgerAssumption DEF Crash, IInv, TypeOK
  <2> QED  BY <1>1, <1>2, <1>3, <2>1 DEF IInv, TypeOK, rowVars
<1>5. InHand' /\ Owners'
  BY <1>1, <1>3, IdleFits DEF InHand, Owners, Owns, Fits
<1>6. Verdicts'
  BY <1>1, <1>2 DEF IInv, rowVars, Verdicts, Growing
<1>7. Rungs'
  <2> SUFFICES ASSUME NEW u \in Trades, raced'[u] \cap {"unanswered", "torn"} = {},
                      NEW k \in 1..Levels
               PROVE  Managed[u] = "python" => fills'[u][k] <= 1 /\ Accounted(u, k)'
    BY DEF Rungs
  <2>1. Managed[u] = "python" => fills[u][k] <= 1 /\ Accounted(u, k)
    BY <1>2 DEF IInv, Rungs, Growing
  <2>2. \A p \in Tasks : job[p].trade # u
    BY <1>2
  <2>3. \A p \in Tasks : job'[p].trade # u
    BY <1>1, NoJobTypes, LedgerAssumption
  <2> QED  BY <1>1, <2>1, <2>2, <2>3 DEF Accounted, Triggered, rowVars
<1>8. BooksBalance' /\ StampIsBooked'
  BY <1>1, <1>2, BooksFrame DEF IInv, rowVars
<1> QED  BY <1>4, <1>5, <1>6, <1>7, <1>8 DEF IInv

-----------------------------------------------------------------------------
(* The theorems                                                             *)

\* The initial states satisfy the invariant.
LEMMA InitHolds == Init => IInv
<1> SUFFICES ASSUME Init PROVE IInv
  OBVIOUS
<1>1. TypeOK
  BY NoJobTypes, LedgerAssumption DEF Init, TypeOK
<1>2. InHand /\ Owners
  BY IdleFits DEF Init, InHand, Owners
<1>3. Verdicts
  BY DEF Init, Verdicts
<1>4. Rungs
  BY DEF Init, Rungs, Accounted
<1>5. BooksBalance /\ StampIsBooked
  BY DEF Init, BooksBalance, StampIsBooked
<1> QED  BY <1>1, <1>2, <1>3, <1>4, <1>5 DEF IInv

\* Every step preserves the invariant.
LEMMA NextHolds == IInv /\ [Next]_vars => IInv'
<1> SUFFICES ASSUME IInv, [Next]_vars PROVE IInv'
  OBVIOUS
<1>1. CASE UNCHANGED vars
  <2>0. UNCHANGED <<fills, inbox, rowVars, taskVars, told, scored, raced, faults>>
    BY <1>1 DEF vars, rowVars, taskVars
  <2>1. /\ Growing /\ BrokerTypes /\ raced' \in [Trades -> SUBSET Races]
        /\ faults' \in 0..MaxFaults
    BY <1>1 DEF vars, Growing, BrokerTypes, IInv, TypeOK
  <2>2. Rungs'
    BY <2>0, <2>1, RungsFrame DEF IInv, rowVars, taskVars
  <2>3. inbox' \in Seq(Events) /\ inbox' \in Seq(EaEvents)
    BY <2>0 DEF IInv, TypeOK, Owners
  <2> QED  BY <2>0, <2>1, <2>2, <2>3, OutsideStep
<1>2. ASSUME NEW t \in Trades, Outside(t) PROVE IInv'
  BY <1>2, EaTakeProfitStep, EaReportSteps, BrokerSteps DEF Outside
<1>3. ASSUME NEW p \in Tasks, Start(p) PROVE IInv'
  BY <1>3, EaEventStep, LadderHitStep, MonitorPickStep, UserCloseStep, SyncReadStep,
     ResidualStep DEF Start
<1>4. ASSUME NEW p \in Tasks, Continue(p) PROVE IInv'
  BY <1>4, LadderSendStep, StopCheckStep, PositionSyncStep, CloseSendStep, PartialReadStep,
     PartialApplyStep, FullReadStep, FullApplyStep, SyncApplyStep DEF Continue
<1> QED  BY <1>1, <1>2, <1>3, <1>4, LinkLostStep, CrashStep DEF Next

\* The invariant is an invariant of the specification.
LEMMA InvariantHolds == Spec => []IInv
BY InitHolds, NextHolds, PTL DEF Spec

\* Every reachable state is well typed: in particular remaining_lots stays
\* between zero and the lot size whatever partial closes race.
THEOREM TypeCorrect == Spec => []TypeOK
<1>1. IInv => TypeOK
  BY DEF IInv
<1> QED  BY <1>1, InvariantHolds, PTL

\* apply_full_close, apply_partial_close_with_reason and apply_profit_sync keep
\* the balance and the row together; the only way they come apart is a full
\* close that writes a net_pnl computed before another booking.
THEOREM BooksStayBalanced == Spec => []BooksBalance
<1>1. IInv => BooksBalance
  BY DEF IInv
<1> QED  BY <1>1, InvariantHolds, PTL

\* apply_profit_sync: a stamped row shows the stamp, unless it was booked on or
\* stamped again afterwards.
THEOREM StampsAreBooked == Spec => []StampIsBooked
<1>1. IInv => StampIsBooked
  BY DEF IInv
<1> QED  BY <1>1, InvariantHolds, PTL

\* record_close's compare-and-set: one announcement and one outcome per trade
\* for any number of racing closers, reopened residuals included.
THEOREM VerdictIsUnique == Spec => []OneVerdict
<1>1. IInv => OneVerdict
  BY DEF IInv, TypeOK, Verdicts, OneVerdict
<1> QED  BY <1>1, InvariantHolds, PTL

\* run_tp_ladder: no level is closed twice at the broker unless an answer was
\* lost or the process died before the marker was booked.
THEOREM LevelsAreTakenOnce == Spec => []LevelTakenOnce
<1>1. IInv => LevelTakenOnce
  <2> SUFFICES ASSUME IInv, NEW t \in Trades \ ByEa, NEW n \in 1..Levels, fills[t][n] > 1
               PROVE  raced[t] \cap {"unanswered", "torn"} # {}
    BY DEF LevelTakenOnce
  <2>a. fills \in [Trades -> [1..Levels -> Nat]]
    BY DEF IInv, TypeOK
  <2>b. fills[t] \in [1..Levels -> Nat]
    BY <2>a
  <2>1. fills[t][n] \in Nat
    BY <2>b
  <2>2. ~(fills[t][n] <= 1)
    BY <2>1
  <2>3. Managed[t] = "python"
    BY LedgerAssumption DEF ByEa
  <2> QED  BY <2>2, <2>3 DEF IInv, Rungs
<1> QED  BY <1>1, InvariantHolds, PTL

-----------------------------------------------------------------------------
(* The row against the broker.  A second invariant, over the first, says    *)
(* what an event, a task in hand and a marker are evidence of, and by how   *)
(* much remaining_lots may lead the broker's volume at every moment.        *)

\* None of the excuses of RowTracksBroker applies.
Sure(t) == raced[t] \cap Unsure = {}

Booking(p, t) == pc[p] \in {"partRead", "partApply"} /\ job[p].trade = t
Closing(p, t) == pc[p] \in {"fullRead", "fullApply"} /\ job[p].trade = t
Stamping(p, t) == pc[p] = "syncApply" /\ job[p].trade = t

InBox(e) == \E i \in 1..Len(inbox) : inbox[i] = e

\* The levels the broker has closed and no marker shows, and what remaining_lots
\* must then be.
Unbooked(t) == {n \in 1..Levels : fills[t][n] > 0 /\ n \notin Triggered(t)}
Expected(t) == held[t] + Cardinality(Unbooked(t))

\* An event reports what has happened: a level closed for one tranche, or for
\* all that was left.
TrueReport(e) ==
    IF e.type = "tp_hit"
    THEN /\ e.level \in 1..Levels /\ fills[e.trade][e.level] > 0
         /\ e = TpHit(e.trade, e.level, 1) \/ held[e.trade] = 0
    ELSE held[e.trade] = 0

\* What the reader carries into a partial close is such a level.
TrueWork(p) ==
    /\ job[p].level \in 1..Levels /\ fills[job[p].trade][job[p].level] > 0
    /\ (job[p].gain = Win /\ job[p].lots = 1) \/ held[job[p].trade] = 0

\* A marker stands for such a level.
TrueMarks(t) ==
    \A x \in taken[t] : fills[t][x[1]] > 0 /\ (x = <<x[1], 1, Win>> \/ held[t] = 0)

Evidence ==
    /\ \A t \in Trades : st[t] = "open" => rem[t] > 0
    /\ \A e \in Events : InBox(e) => TrueReport(e)
    /\ \A p \in Tasks :
          KindOf[p] = "ea" /\ pc[p] \in {"partRead", "partApply"} => TrueWork(p)
    /\ \A t \in Trades : Managed[t] = "ea" => TrueMarks(t)

\* The ladder's trades: the row leads by what the ladder is about to book.
ByLadder(t) ==
    /\ \A p \in Tasks : Booking(p, t) => rem[t] = held[t] + job[p].lots
    /\ (\A p \in Tasks : ~Booking(p, t)) => rem[t] = held[t]
    /\ \A p \in Tasks : Booking(p, t) /\ pc[p] = "partApply" => job[p].rem = rem[t]

\* The EA's trades: the row leads by the levels whose report is under way.  One
\* reader at a time books them, and the EA has let go of those it has taken.
ByReader(t) ==
    /\ \A n \in Unbooked(t) :
          \/ InBox(TpHit(t, n, 1))
          \/ \E p \in Tasks : Booking(p, t) /\ job[p].level = n
    /\ rem[t] = Expected(t)
    /\ \A p \in Tasks : Booking(p, t) /\ pc[p] = "partApply" => job[p].rem = Expected(t)
    /\ \A p, q \in Tasks : Booking(p, t) /\ Booking(q, t) => p = q
    /\ \A n \in armed[t] : fills[t][n] = 0

Follows(t) ==
    Sure(t) =>
        /\ \A p \in Tasks : Closing(p, t) => held[t] = 0
        /\ \A p \in Tasks : Booking(p, t) => job[p].level > 0
        /\ held[t] > 0 => /\ st[t] = "open"
                          /\ Managed[t] = "python" => ByLadder(t)
                          /\ Managed[t] = "ea" => ByReader(t)

\* A figure that was current when it was read, of a row that could be trusted.
Firm(t) == raced[t] \cap (Unsure \cup {"lagged", "late"}) = {}

\* Such a figure, stamped or about to be, is that of a position which is gone.
Stamped(t) ==
    Firm(t) =>
        /\ stamp[t] # NoStamp => held[t] = 0 /\ stamp[t] = deals[t]
        /\ \A p \in Tasks : Stamping(p, t) => held[t] = 0 /\ job[p].net = deals[t]

Tracked == \A t \in Trades : Follows(t) /\ Stamped(t)

TrackInv == Evidence /\ Tracked

\* Reports and the work begun on them stay true, if what is new in the inbox
\* and in the reader's hands is.
LEMMA ReportsStay ==
    ASSUME IInv, Evidence,
           \A t \in Trades : held[t] = 0 => held'[t] = 0,
           \A t \in Trades, n \in 1..Levels : fills[t][n] > 0 => fills'[t][n] > 0,
           \A e \in Events : InBox(e)' => InBox(e) \/ TrueReport(e)',
           \A p \in Tasks : KindOf[p] = "ea" /\ pc'[p] \in {"partRead", "partApply"} =>
              TrueWork(p)' \/ (pc[p] \in {"partRead", "partApply"} /\ job'[p] = job[p])
    PROVE  /\ \A e \in Events : InBox(e)' => TrueReport(e)'
           /\ \A p \in Tasks : KindOf[p] = "ea" /\ pc'[p] \in {"partRead", "partApply"} =>
                 TrueWork(p)'
<1>2. ASSUME NEW e \in Events, InBox(e)' PROVE TrueReport(e)'
  <2>1. CASE TrueReport(e)'
    BY <2>1
  <2>2. CASE InBox(e)
    <3>1. TrueReport(e) /\ e.trade \in Trades
      BY <2>2 DEF Evidence, Events
    <3> QED  BY <3>1 DEF TrueReport
  <2> QED  BY <1>2, <2>1, <2>2
<1>3. ASSUME NEW p \in Tasks, KindOf[p] = "ea", pc'[p] \in {"partRead", "partApply"}
      PROVE  TrueWork(p)'
  <2>1. CASE TrueWork(p)'
    BY <2>1
  <2>2. CASE pc[p] \in {"partRead", "partApply"} /\ job'[p] = job[p]
    <3>1. TrueWork(p) /\ job[p].trade \in Trades
      BY <1>3, <2>2 DEF Evidence, IInv, InHand, Fits
    <3> QED  BY <2>2, <3>1 DEF TrueWork
  <2> QED  BY <1>3, <2>1, <2>2
<1> QED  BY <1>2, <1>3

\* So do the markers, while no new one is written.
LEMMA MarksStay ==
    ASSUME IInv, Evidence, NEW t \in Trades, Managed[t] = "ea", taken'[t] = taken[t],
           held[t] = 0 => held'[t] = 0,
           \A n \in 1..Levels : fills[t][n] > 0 => fills'[t][n] > 0
    PROVE  TrueMarks(t)'
<1>1. TrueMarks(t)
  BY DEF Evidence
<1>2. taken[t] \in SUBSET ((1..Levels) \X Int \X Int)
  BY DEF IInv, TypeOK
<1>3. \A x \in taken[t] : x[1] \in 1..Levels
  BY <1>2
<1> QED  BY <1>1, <1>3 DEF TrueMarks

\* A step that writes no marker and leaves no open row without lots keeps the
\* evidence, if what is new in the inbox and in the reader's hands is true.
LEMMA EvidenceFrame ==
    ASSUME IInv, Evidence, UNCHANGED taken,
           \A t \in Trades : st'[t] = "open" => (st[t] = "open" /\ rem'[t] = rem[t]) \/ rem'[t] > 0,
           \A t \in Trades : held[t] = 0 => held'[t] = 0,
           \A t \in Trades, n \in 1..Levels : fills[t][n] > 0 => fills'[t][n] > 0,
           \A e \in Events : InBox(e)' => InBox(e) \/ TrueReport(e)',
           \A p \in Tasks : KindOf[p] = "ea" /\ pc'[p] \in {"partRead", "partApply"} =>
              TrueWork(p)' \/ (pc[p] \in {"partRead", "partApply"} /\ job'[p] = job[p])
    PROVE  Evidence'
<1>1. \A t \in Trades : st'[t] = "open" => rem'[t] > 0
  BY DEF Evidence
<1>2. /\ \A e \in Events : InBox(e)' => TrueReport(e)'
      /\ \A p \in Tasks : KindOf[p] = "ea" /\ pc'[p] \in {"partRead", "partApply"} =>
            TrueWork(p)'
  BY ReportsStay
<1>3. \A t \in Trades : Managed[t] = "ea" => TrueMarks(t)'
  BY MarksStay
<1> QED  BY <1>1, <1>2, <1>3 DEF Evidence

\* What a step does to a trade it is not about.
Same(u) ==
    /\ held'[u] = held[u] /\ st'[u] = st[u] /\ rem'[u] = rem[u]
    /\ taken'[u] = taken[u] /\ fills'[u] = fills[u] /\ raced[u] \subseteq raced'[u]
    /\ \A n \in armed'[u] : n \in armed[u] \/ fills[u][n] = 0

\* A trade whose row, volume and bookings a step leaves alone.
LEMMA FollowsFrame ==
    ASSUME NEW u \in Trades, Follows(u), Same(u),
           \A p \in Tasks : Booking(p, u) \/ Booking(p, u)' =>
              pc'[p] = pc[p] /\ job'[p] = job[p],
           \A p \in Tasks : Closing(p, u)' => Closing(p, u) \/ held[u] = 0,
           \A n \in 1..Levels : InBox(TpHit(u, n, 1)) => InBox(TpHit(u, n, 1))'
    PROVE  Follows(u)'
<1> SUFFICES ASSUME Sure(u)'
             PROVE  /\ \A p \in Tasks : Closing(p, u)' => held'[u] = 0
                    /\ \A p \in Tasks : Booking(p, u)' => job'[p].level > 0
                    /\ held'[u] > 0 => /\ st'[u] = "open"
                                       /\ Managed[u] = "python" => ByLadder(u)'
                                       /\ Managed[u] = "ea" => ByReader(u)'
  BY DEF Follows
<1>1. Sure(u)
  BY DEF Sure, Same
<1>2. \A p \in Tasks : Booking(p, u)' <=> Booking(p, u)
  BY DEF Booking
<1>3. /\ \A p \in Tasks : Closing(p, u)' => held'[u] = 0
      /\ \A p \in Tasks : Booking(p, u)' => job'[p].level > 0
  BY <1>1, <1>2 DEF Follows, Same
<1>4. ASSUME held'[u] > 0 PROVE st'[u] = "open"
  BY <1>1, <1>4 DEF Follows, Same
<1>5. ASSUME held'[u] > 0, Managed[u] = "python" PROVE ByLadder(u)'
  <2>1. ByLadder(u)
    BY <1>1, <1>5 DEF Follows, Same
  <2> QED  BY <1>2, <2>1 DEF ByLadder, Same
<1>6. ASSUME held'[u] > 0, Managed[u] = "ea" PROVE ByReader(u)'
  <2>1. ByReader(u)
    BY <1>1, <1>6 DEF Follows, Same
  <2>2. Unbooked(u)' = Unbooked(u) /\ Expected(u)' = Expected(u)
    BY DEF Unbooked, Expected, Triggered, Same
  <2>3. \A n \in Unbooked(u) : n \in 1..Levels
    BY DEF Unbooked
  <2> QED  BY <1>2, <2>1, <2>2, <2>3 DEF ByReader, Same
<1> QED  BY <1>3, <1>4, <1>5, <1>6

\* A trade with an excuse.
LEMMA FollowsLost ==
    ASSUME NEW u \in Trades, ~Sure(u)' PROVE Follows(u)'
BY DEF Follows

\* A trade whose position is gone.
LEMMA FollowsGone ==
    ASSUME NEW u \in Trades, held'[u] = 0,
           Sure(u)' => \A p \in Tasks : Booking(p, u)' => job'[p].level > 0
    PROVE  Follows(u)'
BY DEF Follows

\* A stamp is as final as before when neither it nor the position moves.
LEMMA StampedFrame ==
    ASSUME NEW u \in Trades, Stamped(u), raced[u] \subseteq raced'[u],
           held'[u] = held[u], deals'[u] = deals[u], stamp'[u] = stamp[u],
           \A p \in Tasks : Stamping(p, u)' => Stamping(p, u) /\ job'[p] = job[p]
    PROVE  Stamped(u)'
<1>1. Firm(u)' => Firm(u)
  BY DEF Firm
<1> QED  BY <1>1 DEF Stamped

\* A close at the broker: the position was there, so nothing was stamped.
LEMMA StampedClose ==
    ASSUME IInv, NEW t \in Trades, Stamped(t), held[t] > 0,
           raced[t] \subseteq raced'[t], stamp'[t] = stamp[t],
           \A p \in Tasks : Stamping(p, t)' => Stamping(p, t)
    PROVE  Stamped(t)'
<1>1. Firm(t)' => Firm(t)
  BY DEF Firm
<1>2. Firm(t)' => stamp[t] = NoStamp /\ \A p \in Tasks : ~Stamping(p, t)
  BY <1>1 DEF Stamped, IInv, TypeOK
<1> QED  BY <1>2 DEF Stamped

\* A close at the broker touches one trade.
LEMMA BrokerCloseElsewhere ==
    ASSUME IInv, NEW t \in Trades, NEW q, NEW g, BrokerClose(t, q, g), NEW u \in Trades, u # t
    PROVE  held'[u] = held[u] /\ deals'[u] = deals[u]
BY DEF BrokerClose, IInv, TypeOK

-----------------------------------------------------------------------------
(* Steps that move one task and nothing else.                               *)

\* A task takes up, drops or passes on a trade without booking anything it may
\* not book.
LEMMA HandStep ==
    ASSUME IInv, TrackInv, Growing, UNCHANGED <<brokerVars, inbox, rowVars>>,
           NEW p \in Tasks, NEW loc \in Pcs, NEW j \in Jobs, NEW t \in Trades,
           Begin(p, loc, j), j.trade \in {t, NoTrade},
           pc[p] \notin {"partRead", "partApply"},
           loc \in {"partRead", "partApply"} => KindOf[p] # "ea" /\ ~Sure(t)',
           loc \in {"fullRead", "fullApply"} => held[t] = 0 \/ ~Sure(t)',
           loc = "syncApply" /\ Firm(t)' => held[t] = 0 /\ j.net = deals[t]
    PROVE  TrackInv'
<1>1. /\ pc'[p] = loc /\ job'[p] = j
      /\ \A q \in Tasks : q # p => pc'[q] = pc[q] /\ job'[q] = job[q]
  BY BeginMoves DEF IInv
<1>2. /\ UNCHANGED <<held, deals, fills, armed, inbox, st, rem, stamp, taken>>
      /\ \A u \in Trades : Same(u)
  BY DEF brokerVars, eaVars, rowVars, Same, Growing
<1>3. Evidence'
  <2>1. \A e \in Events : InBox(e)' => InBox(e)
    BY <1>2 DEF InBox
  <2>2. \A q \in Tasks : KindOf[q] = "ea" /\ pc'[q] \in {"partRead", "partApply"} =>
           pc[q] \in {"partRead", "partApply"} /\ job'[q] = job[q]
    BY <1>1
  <2> QED  BY <1>2, <2>1, <2>2, EvidenceFrame DEF TrackInv
<1>4. ASSUME NEW u \in Trades PROVE Follows(u)'
  <2>1. Follows(u) /\ Same(u)
    BY <1>2 DEF TrackInv, Tracked
  <2>2. CASE ~Sure(u)'
    BY <2>2, FollowsLost
  <2>3. CASE Sure(u)'
    <3>1. u # NoTrade
      BY LedgerAssumption
    <3>2. \A q \in Tasks : Booking(q, u) \/ Booking(q, u)' =>
             pc'[q] = pc[q] /\ job'[q] = job[q]
      BY <1>1, <2>3, <3>1 DEF Booking
    <3>3. \A q \in Tasks : Closing(q, u)' => Closing(q, u) \/ held[u] = 0
      BY <1>1, <2>3, <3>1 DEF Closing
    <3>4. \A n \in 1..Levels : InBox(TpHit(u, n, 1)) => InBox(TpHit(u, n, 1))'
      BY <1>2 DEF InBox, TpHit
    <3> QED  BY <2>1, <3>2, <3>3, <3>4, FollowsFrame
  <2> QED  BY <2>2, <2>3
<1>5. ASSUME NEW u \in Trades PROVE Stamped(u)'
  <2>1. Stamped(u) /\ raced[u] \subseteq raced'[u] /\ u # NoTrade
    BY LedgerAssumption DEF TrackInv, Tracked, Growing
  <2>2. CASE ~(loc = "syncApply" /\ u = t)
    <3>1. \A q \in Tasks : Stamping(q, u)' => Stamping(q, u) /\ job'[q] = job[q]
      BY <1>1, <2>1, <2>2 DEF Stamping
    <3> QED  BY <1>2, <2>1, <3>1, StampedFrame
  <2>3. CASE loc = "syncApply" /\ u = t
    <3>0. Firm(u)' => Firm(u)
      BY <2>1 DEF Firm
    <3>1. ASSUME Firm(u)', NEW q \in Tasks, Stamping(q, u)'
          PROVE  held[u] = 0 /\ job'[q].net = deals[u]
      <4>2. CASE q = p
        BY <1>1, <2>3, <3>1, <4>2
      <4>3. CASE q # p
        <5>1. Stamping(q, u) /\ job'[q] = job[q]
          BY <1>1, <3>1, <4>3 DEF Stamping
        <5> QED  BY <2>1, <3>0, <3>1, <5>1 DEF Stamped
      <4> QED  BY <4>2, <4>3
    <3>3. ASSUME Firm(u)', stamp'[u] # NoStamp
          PROVE  held'[u] = 0 /\ stamp'[u] = deals'[u]
      BY <1>2, <2>1, <3>0, <3>3 DEF Stamped
    <3> QED  BY <1>2, <3>1, <3>3 DEF Stamped
  <2> QED  BY <2>2, <2>3
<1> QED  BY <1>3, <1>4, <1>5 DEF TrackInv, Tracked

\* close_trade is asked for, the monitor takes up a trade, the ladder reaches
\* a level.
LEMMA TakeUpTracks ==
    ASSUME IInv, TrackInv, NEW p \in Tasks, NEW t \in Trades,
           \/ \E g \in Gains : UserClose(p, t, g)
           \/ \E loc \in {"slCheck", "posSync", "closeSend"} : MonitorPick(p, t, loc)
           \/ \E n \in 1..Levels : LadderHit(p, t, n)
    PROVE  TrackInv'
<1>1. /\ UNCHANGED <<brokerVars, inbox, rowVars, tallyVars>> /\ pc[p] = "idle"
  BY DEF UserClose, MonitorPick, LadderHit
<1>2. Growing
  BY <1>1 DEF Growing, tallyVars
<1>0. rem[t] \in Int /\ rem[t] \in Nat
  <2>1. rem[t] \in 0..Lots
    BY DEF IInv, TypeOK
  <2> QED  BY <2>1, LedgerAssumption
<1>3. PICK loc \in {"tpSend", "slCheck", "posSync", "closeSend"}, j \in Jobs :
         Begin(p, loc, j) /\ j.trade = t
  <2>1. CASE \E g \in Gains : UserClose(p, t, g)
    <3>1. PICK g \in Gains : Begin(p, "closeSend", [NoJob EXCEPT !.trade = t, !.gain = g])
      BY <2>1 DEF UserClose
    <3>2. g \in Int
      BY LedgerAssumption DEF Gains
    <3>3. /\ [NoJob EXCEPT !.trade = t, !.gain = g] \in Jobs
          /\ [NoJob EXCEPT !.trade = t, !.gain = g].trade = t
      BY <3>2, NoJobTypes DEF Jobs
    <3> QED  BY <3>1, <3>3
  <2>2. CASE \E loc \in {"slCheck", "posSync", "closeSend"} : MonitorPick(p, t, loc)
    <3>1. PICK loc \in {"slCheck", "posSync", "closeSend"}, g \in Int :
             Begin(p, loc, [NoJob EXCEPT !.trade = t, !.rem = rem[t], !.gain = g])
      BY <2>2, LedgerAssumption DEF MonitorPick
    <3> DEFINE j == [NoJob EXCEPT !.trade = t, !.rem = rem[t], !.gain = g]
    <3>3. j \in Jobs /\ j.trade = t
      BY <1>0, NoJobTypes DEF Jobs
    <3> QED  BY <3>1, <3>3
  <2>3. CASE \E n \in 1..Levels : LadderHit(p, t, n)
    <3>1. PICK n \in 1..Levels, q \in Nat :
             Begin(p, "tpSend", [NoJob EXCEPT !.trade = t, !.level = n, !.gain = Win, !.lots = q])
      <4>1. PICK n \in 1..Levels : LadderHit(p, t, n)
        BY <2>3
      <4>2. (IF n = Levels THEN rem[t] ELSE 1) \in Nat
        BY <1>0
      <4> QED  BY <4>1, <4>2 DEF LadderHit
    <3> DEFINE j == [NoJob EXCEPT !.trade = t, !.level = n, !.gain = Win, !.lots = q]
    <3>2. n \in 0..Levels /\ Win \in Int /\ q \in Int
      BY LedgerAssumption
    <3>3. j \in Jobs /\ j.trade = t
      BY <3>2, NoJobTypes DEF Jobs
    <3> QED  BY <3>1, <3>3
  <2> QED  BY <2>1, <2>2, <2>3
<1> QED  BY <1>1, <1>2, <1>3, HandStep

\* sync_profit reads the deals of a row that is closed, or was scored: either
\* way the position is gone, and the figure is its last unless the history lags.
LEMMA SyncReadTracks ==
    ASSUME IInv, TrackInv, NEW p \in Tasks, NEW t \in Trades, SyncRead(p, t)
    PROVE  TrackInv'
<1>1. /\ UNCHANGED <<brokerVars, inbox, rowVars>> /\ pc[p] = "idle"
      /\ st[t] = "closed" \/ scored[t] > 0
      /\ Begin(p, "syncApply", [NoJob EXCEPT !.trade = t, !.net = seen[t].sum])
      /\ \/ seen[t] = Current(t) /\ UNCHANGED raced
         \/ Mark(t, {"lagged"})
  BY DEF SyncRead
<1>2. Growing
  BY <1>1, MarkGrows DEF Growing, IInv
<1>3. PICK s \in Int : s = seen[t].sum
  BY DEF IInv, TypeOK
<1>4. [NoJob EXCEPT !.trade = t, !.net = s] \in Jobs
  BY NoJobTypes DEF Jobs
<1>5. PICK j \in Jobs : Begin(p, "syncApply", j) /\ j.trade = t /\ j.net = seen[t].sum
  BY <1>1, <1>3, <1>4, NoJobTypes DEF NoJob
<1>6. ASSUME Firm(t)' PROVE held[t] = 0 /\ j.net = deals[t]
  <2>0. seen[t] = Current(t) /\ Sure(t) /\ "late" \notin raced[t]
    <3>1. Mark(t, {"lagged"}) => "lagged" \in raced'[t]
      BY DEF Mark, IInv, TypeOK
    <3>2. "lagged" \notin raced'[t]
      BY <1>6 DEF Firm
    <3>3. seen[t] = Current(t) /\ UNCHANGED raced
      BY <1>1, <3>1, <3>2
    <3> QED  BY <1>6, <3>3 DEF Firm, Sure
  <2>1. st[t] = "closed"
    <3>1. st[t] = "open" => scored[t] = 0
      BY <2>0 DEF IInv, Verdicts
    <3>2. scored[t] > 0 => scored[t] # 0
      BY DEF IInv, TypeOK
    <3> QED  BY <1>1, <3>1, <3>2 DEF IInv, TypeOK
  <2>2. ~(held[t] > 0)
    BY <2>0, <2>1 DEF TrackInv, Tracked, Follows
  <2>3. held[t] \in 0..Lots
    BY DEF IInv, TypeOK
  <2>4. held[t] = 0
    BY <2>2, <2>3, LedgerAssumption
  <2>5. seen[t].sum = deals[t]
    BY <2>0 DEF Current
  <2> QED  BY <1>5, <2>4, <2>5
<1> QED  BY <1>1, <1>2, <1>5, <1>6, HandStep

\* record_close reads the row of a position that is gone.
LEMMA FullReadTracks ==
    ASSUME IInv, TrackInv, NEW p \in Tasks, FullRead(p)
    PROVE  TrackInv'
<1>1. /\ UNCHANGED <<brokerVars, inbox, rowVars, tallyVars>> /\ pc[p] = "fullRead"
      /\ job[p] \in Jobs /\ job[p].trade \in Trades
  BY DEF IInv, TypeOK, InHand, Fits, FullRead
<1>2. Growing
  BY <1>1 DEF Growing, tallyVars
<1>3. PICK t \in Trades : t = job[p].trade
  BY <1>1
<1>4. rem[t] \in Int /\ net[t] \in Int
  BY DEF IInv, TypeOK
<1>5. PICK j \in Jobs : Begin(p, "fullApply", j) /\ j.trade = t
  <2>1. Begin(p, "fullApply", [job[p] EXCEPT !.rem = rem[t], !.net = net[t]])
    BY <1>3 DEF FullRead
  <2>2. /\ [job[p] EXCEPT !.rem = rem[t], !.net = net[t]] \in Jobs
        /\ [job[p] EXCEPT !.rem = rem[t], !.net = net[t]].trade = t
    BY <1>1, <1>3, <1>4 DEF Jobs
  <2> QED  BY <2>1, <2>2
<1>6. held[t] = 0 \/ ~Sure(t)'
  <2>1. Sure(t)' => Sure(t)
    BY <1>1 DEF Sure, tallyVars
  <2>2. Closing(p, t)
    BY <1>1, <1>3 DEF Closing
  <2> QED  BY <2>1, <2>2 DEF TrackInv, Tracked, Follows
<1> QED  BY <1>1, <1>2, <1>5, <1>6, HandStep

\* reconcile_sl_hit and sync_closed_mt5_positions: a close is recorded of a
\* position found gone; lots are booked by inference only with the mark.
LEMMA CheckTracks ==
    ASSUME IInv, TrackInv, NEW p \in Tasks, StopCheck(p) \/ PositionSync(p)
    PROVE  TrackInv'
<1>1. /\ UNCHANGED <<brokerVars, inbox, rowVars>> /\ pc[p] \in {"slCheck", "posSync"}
      /\ job[p] \in Jobs /\ job[p].trade \in Trades /\ KindOf[p] = "monitor"
  BY DEF IInv, TypeOK, InHand, Fits, Owners, Owns, StopCheck, PositionSync
<1>2. PICK t \in Trades : t = job[p].trade
  BY <1>1
<1>3. /\ UNCHANGED raced \/ Mark(t, {"guess"}) \/ Mark(t, {"blind"})
      /\ \/ Begin(p, "idle", NoJob)
         \/ Mark(t, {"guess"}) /\ Begin(p, "partRead", [job[p] EXCEPT !.lots = job[p].rem - held[t]])
         \/ Mark(t, {"guess"}) /\ Begin(p, "partRead", [job[p] EXCEPT !.lots = seen[t].lots])
         \/ (held[t] = 0 \/ Mark(t, {"blind"})) /\ Begin(p, "fullRead", job[p])
  BY <1>2, GotoBegins DEF StopCheck, PositionSync, Finish, IInv
<1>4. Growing
  BY <1>3, MarkGrows DEF Growing, IInv
<1>5. Mark(t, {"guess"}) \/ Mark(t, {"blind"}) => ~Sure(t)'
  <2>1. raced \in [Trades -> SUBSET Races]
    BY DEF IInv, TypeOK
  <2> QED  BY <2>1 DEF Mark, Sure
<1>6. /\ [job[p] EXCEPT !.lots = job[p].rem - held[t]] \in Jobs
      /\ [job[p] EXCEPT !.lots = seen[t].lots] \in Jobs
  <2>1. held[t] \in 0..Lots /\ seen[t].lots \in 0..Lots
    BY DEF IInv, TypeOK
  <2>2. job[p].rem - held[t] \in Int /\ seen[t].lots \in Int
    BY <1>1, <2>1, JobFields, LedgerAssumption
  <2> QED  BY <1>1, <2>2 DEF Jobs
<1>7. PICK loc \in {"idle", "partRead", "fullRead"}, j \in Jobs :
         /\ Begin(p, loc, j) /\ j.trade \in {t, NoTrade}
         /\ loc = "partRead" => ~Sure(t)'
         /\ loc = "fullRead" => held[t] = 0 \/ ~Sure(t)'
  <2>1. CASE Begin(p, "idle", NoJob)
    BY <2>1, NoJobTypes
  <2>2. CASE Mark(t, {"guess"}) /\ Begin(p, "partRead", [job[p] EXCEPT !.lots = job[p].rem - held[t]])
    <3>1. [job[p] EXCEPT !.lots = job[p].rem - held[t]].trade = t
      BY <1>1, <1>2 DEF Jobs
    <3> QED  BY <1>5, <1>6, <2>2, <3>1
  <2>3. CASE Mark(t, {"guess"}) /\ Begin(p, "partRead", [job[p] EXCEPT !.lots = seen[t].lots])
    <3>1. [job[p] EXCEPT !.lots = seen[t].lots].trade = t
      BY <1>1, <1>2 DEF Jobs
    <3> QED  BY <1>5, <1>6, <2>3, <3>1
  <2>4. CASE (held[t] = 0 \/ Mark(t, {"blind"})) /\ Begin(p, "fullRead", job[p])
    BY <1>1, <1>2, <1>5, <2>4
  <2> QED  BY <1>3, <2>1, <2>2, <2>3, <2>4
<1> QED  BY <1>1, <1>4, <1>7, HandStep

-----------------------------------------------------------------------------
(* The broker, the EA and the reader of its events.                         *)

\* The volume at the broker and the number of levels still to be booked.
LEMMA Volumes ==
    ASSUME IInv, NEW t \in Trades
    PROVE  /\ held[t] \in Nat /\ rem[t] \in Nat
           /\ IsFiniteSet(Unbooked(t)) /\ Cardinality(Unbooked(t)) \in Nat
           /\ Expected(t) \in Nat /\ Expected(t) >= held[t]
<1>1. held[t] \in 0..Lots /\ rem[t] \in 0..Lots
  BY DEF IInv, TypeOK
<1>2. held[t] \in Nat /\ rem[t] \in Nat
  BY <1>1, LedgerAssumption
<1>3. IsFiniteSet(1..Levels)
  BY FS_Interval, LedgerAssumption
<1>4. Unbooked(t) \in SUBSET (1..Levels)
  BY DEF Unbooked
<1>5. IsFiniteSet(Unbooked(t))
  BY <1>3, <1>4, FS_Subset
<1>6. Cardinality(Unbooked(t)) \in Nat
  BY <1>5, FS_CardinalityType
<1>7. Expected(t) \in Nat /\ Expected(t) >= held[t]
  BY <1>2, <1>6 DEF Expected
<1> QED  BY <1>2, <1>5, <1>6, <1>7

\* An event is put at the end of the inbox.
LEMMA InBoxAppend ==
    ASSUME IInv, NEW m \in Events, inbox' = Append(inbox, m)
    PROVE  \A e : InBox(e)' <=> InBox(e) \/ e = m
<1>1. inbox \in Seq(Events)
  BY DEF IInv, TypeOK
<1>2. /\ Len(inbox') = Len(inbox) + 1 /\ Len(inbox) \in Nat
      /\ \A i \in 1..Len(inbox) : inbox'[i] = inbox[i]
      /\ inbox'[Len(inbox) + 1] = m
  BY <1>1, AppendProperties, LenProperties
<1>3. \A i \in 1..Len(inbox') : i \in 1..Len(inbox) \/ i = Len(inbox) + 1
  BY <1>2
<1>4. Len(inbox) + 1 \in 1..Len(inbox') /\ \A i \in 1..Len(inbox) : i \in 1..Len(inbox')
  BY <1>2
<1> QED  BY <1>2, <1>3, <1>4 DEF InBox

\* The first event is taken out.
LEMMA InBoxTail ==
    ASSUME IInv, inbox # <<>>, inbox' = Tail(inbox)
    PROVE  /\ InBox(Head(inbox)) /\ Head(inbox) \in Events
           /\ \A e : InBox(e)' => InBox(e)
           /\ \A e : InBox(e) => e = Head(inbox) \/ InBox(e)'
<1>1. inbox \in Seq(Events)
  BY DEF IInv, TypeOK
<1>2. /\ Len(inbox') = Len(inbox) - 1 /\ Len(inbox) \in Nat /\ Head(inbox) \in Events
      /\ \A i \in 1..Len(inbox') : inbox'[i] = inbox[i + 1]
  BY <1>1, HeadTailProperties, LenProperties
<1>3. Len(inbox) >= 1 /\ Head(inbox) = inbox[1]
  BY <1>1, EmptySeq, LenProperties
<1>4. \A i \in 1..Len(inbox') : i + 1 \in 1..Len(inbox)
  BY <1>2
<1>5. ASSUME NEW i \in 1..Len(inbox), i # 1
      PROVE  i - 1 \in 1..Len(inbox') /\ inbox'[i - 1] = inbox[i]
  <2>1. i - 1 \in 1..Len(inbox') /\ (i - 1) + 1 = i
    BY <1>2, <1>5
  <2>2. inbox'[i - 1] = inbox[(i - 1) + 1]
    BY <1>2, <2>1
  <2> QED  BY <2>1, <2>2
<1>6. 1 \in 1..Len(inbox)
  BY <1>2, <1>3
<1>7. InBox(Head(inbox))
  BY <1>3, <1>6 DEF InBox
<1>8. \A e : InBox(e)' => InBox(e)
  BY <1>2, <1>4 DEF InBox
<1>9. ASSUME NEW e, InBox(e), e # Head(inbox) PROVE InBox(e)'
  <2>1. PICK i \in 1..Len(inbox) : inbox[i] = e
    BY <1>9 DEF InBox
  <2>2. i # 1
    BY <1>3, <1>9, <2>1
  <2> QED  BY <1>5, <2>1, <2>2 DEF InBox
<1> QED  BY <1>2, <1>7, <1>8, <1>9

\* The position ends, in one deal.
LEMMA ExitStep ==
    ASSUME IInv, TrackInv, NEW t \in Trades, NEW g, held[t] > 0,
           BrokerClose(t, held[t], g), UNCHANGED <<fills, armed, inbox, rowVars, raced>>,
           \A q \in Tasks :
              \/ pc'[q] = pc[q] /\ job'[q] = job[q]
              \/ /\ pc[q] \notin {"partRead", "partApply"}
                 /\ pc'[q] = "idle" \/ (pc'[q] = "fullRead" /\ job'[q].trade = t)
    PROVE  TrackInv'
<1>1. held[t] \in Nat
  BY Volumes
<1>2. held'[t] = 0
  <2>1. held'[t] = held[t] - held[t]
    BY DEF BrokerClose, IInv, TypeOK
  <2> QED  BY <1>1, <2>1
<1>3. \A u \in Trades : u # t => held'[u] = held[u] /\ deals'[u] = deals[u]
  BY BrokerCloseElsewhere
<1>4. /\ UNCHANGED <<st, rem, stamp, taken>>
      /\ \A e : InBox(e)' <=> InBox(e)
  BY DEF rowVars, InBox
<1>5. Evidence'
  <2>1. \A q \in Tasks : KindOf[q] = "ea" /\ pc'[q] \in {"partRead", "partApply"} =>
           pc[q] \in {"partRead", "partApply"} /\ job'[q] = job[q]
    OBVIOUS
  <2>2. \A u \in Trades : held[u] = 0 => held'[u] = 0
    BY <1>2, <1>3
  <2>3. \A e \in Events : InBox(e)' => InBox(e) \/ TrueReport(e)'
    BY <1>4
  <2> QED  BY <1>4, <2>1, <2>2, <2>3, EvidenceFrame DEF TrackInv
<1>6. ASSUME NEW u \in Trades PROVE Follows(u)'
  <2>1. Follows(u)
    BY DEF TrackInv, Tracked
  <2>2. \A q \in Tasks : Booking(q, u) \/ Booking(q, u)' => pc'[q] = pc[q] /\ job'[q] = job[q]
    BY DEF Booking
  <2>3. CASE u = t
    <3>1. ASSUME Sure(u)', NEW q \in Tasks, Booking(q, u)' PROVE job'[q].level > 0
      <4>1. Sure(u)
        BY <3>1 DEF Sure
      <4>2. Booking(q, u) /\ job'[q] = job[q]
        BY <2>2, <3>1 DEF Booking
      <4> QED  BY <2>1, <4>1, <4>2 DEF Follows
    <3> QED  BY <1>2, <2>3, <3>1, FollowsGone
  <2>4. CASE u # t
    <3>1. Same(u)
      BY <1>3, <1>4, <2>4 DEF Same
    <3>2. \A q \in Tasks : Closing(q, u)' => Closing(q, u) \/ held[u] = 0
      BY <2>4 DEF Closing
    <3>3. \A n \in 1..Levels : InBox(TpHit(u, n, 1)) => InBox(TpHit(u, n, 1))'
      BY <1>4 DEF InBox, TpHit
    <3> QED  BY <2>1, <2>2, <3>1, <3>2, <3>3, FollowsFrame
  <2> QED  BY <2>3, <2>4
<1>7. ASSUME NEW u \in Trades PROVE Stamped(u)'
  <2>1. Stamped(u) /\ raced[u] \subseteq raced'[u]
    BY DEF TrackInv, Tracked
  <2>2. \A q \in Tasks : Stamping(q, u)' => Stamping(q, u) /\ job'[q] = job[q]
    BY DEF Stamping
  <2>3. CASE u = t
    BY <1>4, <2>1, <2>2, <2>3, StampedClose
  <2>4. CASE u # t
    BY <1>3, <1>4, <2>1, <2>2, <2>4, StampedFrame
  <2> QED  BY <2>3, <2>4
<1> QED  BY <1>5, <1>6, <1>7 DEF TrackInv, Tracked

\* The position ends at the broker.
LEMMA BrokerExitTracks ==
    ASSUME IInv, TrackInv, NEW t \in Trades, NEW g \in Gains, BrokerExit(t, g)
    PROVE  TrackInv'
BY ExitStep DEF BrokerExit, eaVars, taskVars, tallyVars

\* A full close at the broker: confirmed, lost or refused.
LEMMA CloseSendTracks ==
    ASSUME IInv, TrackInv, NEW p \in Tasks, CloseSend(p)
    PROVE  TrackInv'
<1>1. /\ UNCHANGED <<fills, eaVars, inbox, rowVars, tallyVars>> /\ pc[p] \in {"closeSend", "residualSend"}
      /\ job[p] \in Jobs /\ job[p].trade \in Trades
  BY DEF IInv, TypeOK, InHand, Fits, CloseSend
<1>2. PICK t \in Trades, g \in Int : t = job[p].trade /\ g = job[p].gain
  BY <1>1, JobFields
<1>3. \/ /\ held[t] > 0 /\ BrokerClose(t, held[t], g)
         /\ Begin(p, "fullRead", job[p]) \/ Begin(p, "idle", NoJob)
      \/ Begin(p, "idle", NoJob) /\ UNCHANGED <<held, deals, seen>>
  BY <1>2, GotoBegins DEF CloseSend, Finish, IInv
<1>4. CASE Begin(p, "idle", NoJob) /\ UNCHANGED <<held, deals, seen>>
  <2>1. UNCHANGED <<brokerVars, inbox, rowVars>> /\ Growing
    BY <1>1, <1>4 DEF brokerVars, Growing, tallyVars
  <2> QED  BY <1>1, <1>4, <2>1, HandStep, NoJobTypes
<1>5. CASE /\ held[t] > 0 /\ BrokerClose(t, held[t], g)
           /\ Begin(p, "fullRead", job[p]) \/ Begin(p, "idle", NoJob)
  <2>1. \A q \in Tasks :
           \/ pc'[q] = pc[q] /\ job'[q] = job[q]
           \/ /\ pc[q] \notin {"partRead", "partApply"}
              /\ pc'[q] = "idle" \/ (pc'[q] = "fullRead" /\ job'[q].trade = t)
    <3>1. PICK loc \in {"fullRead", "idle"}, j \in Jobs :
             Begin(p, loc, j) /\ (loc = "fullRead" => j.trade = t)
      BY <1>1, <1>2, <1>5, NoJobTypes
    <3>2. /\ pc'[p] = loc /\ job'[p] = j
          /\ \A q \in Tasks : q # p => pc'[q] = pc[q] /\ job'[q] = job[q]
      BY <3>1, BeginMoves DEF IInv
    <3> QED  BY <1>1, <3>1, <3>2
  <2> QED  BY <1>1, <1>5, <2>1, ExitStep DEF tallyVars, eaVars
<1> QED  BY <1>3, <1>4, <1>5

\* The history catches up.
LEMMA HistoryTracks ==
    ASSUME IInv, TrackInv, NEW t \in Trades, HistoryArrives(t)
    PROVE  TrackInv'
<1>1. /\ UNCHANGED <<held, deals, fills, armed, inbox, st, rem, stamp, taken, pc, job, raced>>
  BY DEF HistoryArrives, eaVars, rowVars, taskVars, tallyVars
<1>2. Evidence'
  BY <1>1, EvidenceFrame DEF TrackInv, InBox
<1>3. ASSUME NEW u \in Trades PROVE Follows(u)'
  <2>1. Follows(u) /\ Same(u)
    BY <1>1 DEF TrackInv, Tracked, Same
  <2> QED  BY <1>1, <2>1, FollowsFrame DEF Closing, InBox, TpHit
<1>4. ASSUME NEW u \in Trades PROVE Stamped(u)'
  BY <1>1, StampedFrame DEF Stamping, TrackInv, Tracked
<1> QED  BY <1>2, <1>3, <1>4 DEF TrackInv, Tracked

\* Steps of the EA that move no lots: what is new in the inbox is true, what is
\* no longer there leaves an excuse, and no level that was taken is armed again
\* without one.
LEMMA InboxStep ==
    ASSUME IInv, TrackInv, Growing,
           UNCHANGED <<held, deals, fills, st, rem, stamp, taken, pc, job>>,
           \A e \in Events : InBox(e)' => InBox(e) \/ TrueReport(e),
           \A u \in Trades, n \in 1..Levels :
              Sure(u)' /\ InBox(TpHit(u, n, 1)) => InBox(TpHit(u, n, 1))',
           \A u \in Trades : Sure(u)' =>
              \A n \in armed'[u] : n \in armed[u] \/ fills[u][n] = 0
    PROVE  TrackInv'
<1>1. Evidence'
  <2>1. \A e \in Events : InBox(e)' => InBox(e) \/ TrueReport(e)'
    BY DEF TrueReport
  <2> QED  BY <2>1, EvidenceFrame DEF TrackInv
<1>2. ASSUME NEW u \in Trades PROVE Follows(u)'
  <2>1. CASE ~Sure(u)'
    BY <2>1, FollowsLost
  <2>2. CASE Sure(u)'
    <3>1. Follows(u) /\ Same(u)
      BY <2>2 DEF TrackInv, Tracked, Same, Growing
    <3> QED  BY <2>2, <3>1, FollowsFrame DEF Closing
  <2> QED  BY <2>1, <2>2
<1>3. ASSUME NEW u \in Trades PROVE Stamped(u)'
  BY StampedFrame DEF Stamping, TrackInv, Tracked, Growing
<1> QED  BY <1>1, <1>2, <1>3 DEF TrackInv, Tracked

\* The EA says that a position is gone.
LEMMA GoneReport ==
    ASSUME IInv, NEW t \in Trades, NEW g \in Int, NEW type \in {"trade_closed", "gone"},
           held[t] = 0,
           inbox' = Append(inbox, [type |-> type, trade |-> t, level |-> 0,
                                   gain |-> g, lots |-> 0])
    PROVE  /\ \A e : InBox(e) => InBox(e)'
           /\ \A e : InBox(e)' => InBox(e) \/ TrueReport(e)
<1> DEFINE m == [type |-> type, trade |-> t, level |-> 0, gain |-> g, lots |-> 0]
<1>1. m \in Events /\ m.type # "tp_hit" /\ m.trade = t /\ inbox' = Append(inbox, m)
  BY LedgerAssumption DEF Events
<1> HIDE DEF m
<1>2. TrueReport(m)
  BY <1>1 DEF TrueReport
<1>3. \A e : InBox(e)' <=> InBox(e) \/ e = m
  BY <1>1, InBoxAppend
<1> QED  BY <1>2, <1>3

\* The EA reports again, or reports a close.
LEMMA ReportsTrack ==
    ASSUME IInv, TrackInv, NEW t \in Trades,
           \/ \E n \in 1..Levels : EaRepeat(t, n)
           \/ \E g \in Gains, type \in {"trade_closed", "gone"} : EaReportClosed(t, g, type)
    PROVE  TrackInv'
<1>1. UNCHANGED <<held, deals, fills, armed, st, rem, stamp, taken, pc, job, raced>>
  BY DEF EaRepeat, EaReportClosed, brokerVars, eaVars, rowVars, taskVars, tallyVars
<1>2. /\ \A e : InBox(e) => InBox(e)'
      /\ \A e : InBox(e)' => InBox(e) \/ TrueReport(e)
  <2>1. ASSUME NEW n \in 1..Levels, EaRepeat(t, n)
        PROVE  /\ \A e : InBox(e) => InBox(e)'
               /\ \A e : InBox(e)' => InBox(e) \/ TrueReport(e)
    <3>1. PICK m : m = TpHit(t, n, 1)
      OBVIOUS
    <3>2. /\ m \in Events /\ m.type = "tp_hit" /\ m.trade = t /\ m.level = n
          /\ inbox' = Append(inbox, m) /\ fills[t][n] > 0
      BY <2>1, <3>1, LedgerAssumption DEF TpHit, Events, EaRepeat
    <3>3. TrueReport(m)
      BY <3>1, <3>2 DEF TrueReport
    <3>4. \A e : InBox(e)' <=> InBox(e) \/ e = m
      BY <3>2, InBoxAppend
    <3> QED  BY <3>3, <3>4
  <2>2. ASSUME NEW g \in Gains, NEW type \in {"trade_closed", "gone"}, EaReportClosed(t, g, type)
        PROVE  /\ \A e : InBox(e) => InBox(e)'
               /\ \A e : InBox(e)' => InBox(e) \/ TrueReport(e)
    <3>1. CASE UNCHANGED inbox
      BY <3>1 DEF InBox
    <3>2. CASE inbox' = Append(inbox, [type |-> type, trade |-> t, level |-> 0,
                                       gain |-> g, lots |-> 0])
      <4>1. held[t] = 0 /\ g \in Int
        BY <2>2, LedgerAssumption DEF EaReportClosed, Gains
      <4> QED  BY <3>2, <4>1, GoneReport
    <3> QED  BY <2>2, <3>1, <3>2 DEF EaReportClosed
  <2> QED  BY <2>1, <2>2
<1>3. Growing
  BY <1>1 DEF Growing
<1> QED  BY <1>1, <1>2, <1>3, InboxStep

\* The EA answers the restore of a trade.
LEMMA RestoreTracks ==
    ASSUME IInv, TrackInv, NEW t \in Trades, Restore(t)
    PROVE  TrackInv'
<1>1. UNCHANGED <<held, deals, fills, st, rem, stamp, taken, pc, job>>
  BY DEF Restore, rowVars, taskVars
<1>2. /\ \A e : InBox(e) => InBox(e)'
      /\ \A e : InBox(e)' => InBox(e) \/ TrueReport(e)
  <2>1. CASE UNCHANGED inbox
    BY <2>1 DEF InBox
  <2>2. CASE held[t] = 0 /\ inbox' = Append(inbox, [type |-> "gone", trade |-> t, level |-> 0,
                                                    gain |-> Loss, lots |-> 0])
    BY <2>2, GoneReport, LedgerAssumption
  <2> QED  BY <2>1, <2>2 DEF Restore
<1>3. /\ UNCHANGED raced \/ Mark(t, {"rearmed"})
      /\ \/ UNCHANGED armed
         \/ /\ armed' = [armed EXCEPT ![t] = Uncovered(t)]
            /\ (\A n \in Uncovered(t) : ~(fills[t][n] > 0)) \/ Mark(t, {"rearmed"})
  BY DEF Restore
<1>4. Growing
  BY <1>3, MarkGrows DEF Growing, IInv
<1>5. Mark(t, {"rearmed"}) => ~Sure(t)'
  <2>1. raced \in [Trades -> SUBSET Races]
    BY DEF IInv, TypeOK
  <2> QED  BY <2>1 DEF Mark, Sure
<1>6. ASSUME NEW u \in Trades, Sure(u)', NEW n \in armed'[u]
      PROVE  n \in armed[u] \/ fills[u][n] = 0
  <2>1. CASE UNCHANGED armed
    BY <1>6, <2>1
  <2>2. CASE /\ armed' = [armed EXCEPT ![t] = Uncovered(t)]
             /\ (\A i \in Uncovered(t) : ~(fills[t][i] > 0)) \/ Mark(t, {"rearmed"})
    <3>0. armed \in [Trades -> SUBSET (1..Levels)] /\ fills \in [Trades -> [1..Levels -> Nat]]
      BY DEF IInv, TypeOK
    <3>1. CASE u # t
      BY <1>6, <2>2, <3>0, <3>1
    <3>2. CASE u = t
      <4>1. n \in Uncovered(t) /\ ~(fills[t][n] > 0)
        BY <1>5, <1>6, <2>2, <3>0, <3>2
      <4>2. n \in 1..Levels /\ fills[t] \in [1..Levels -> Nat]
        BY <3>0, <4>1 DEF Uncovered
      <4>3. fills[t][n] \in Nat
        BY <4>2
      <4> QED  BY <3>2, <4>1, <4>3
    <3> QED  BY <3>1, <3>2
  <2> QED  BY <1>3, <2>1, <2>2
<1> QED  BY <1>1, <1>2, <1>4, <1>6, InboxStep

\* The link to the EA breaks: a report that does not arrive leaves its mark.
LEMMA LinkLostTracks ==
    ASSUME IInv, TrackInv, LinkLost
    PROVE  TrackInv'
<1>1. UNCHANGED <<held, deals, fills, armed, st, rem, stamp, taken, pc, job>>
  BY DEF LinkLost, rowVars, taskVars
<1>2. PICK k \in 0..Len(inbox) :
         /\ inbox' = SubSeq(inbox, 1, k)
         /\ raced' = [t \in Trades |->
               IF \E i \in (k + 1)..Len(inbox) : inbox[i].trade = t
               THEN raced[t] \cup {"lost"} ELSE raced[t]]
  BY DEF LinkLost
<1>3. Growing
  BY <1>2 DEF Growing, IInv, TypeOK
<1>4. /\ Len(inbox') = k /\ Len(inbox) \in Nat /\ k \in Nat
      /\ \A i \in 1..k : inbox'[i] = inbox[i]
  <2>1. inbox \in Seq(Events)
    BY DEF IInv, TypeOK
  <2>2. Len(inbox) \in Nat /\ 1 \in 1..(Len(inbox) + 1) /\ k \in (1 - 1)..Len(inbox) /\ k \in Nat
    BY <2>1, LenProperties
  <2>3. /\ Len(inbox') = IF 1 <= k THEN k - 1 + 1 ELSE 0
        /\ \A i \in 1..(k - 1 + 1) : inbox'[i] = inbox[1 + i - 1]
    BY <1>2, <2>1, <2>2, SubSeqProperties
  <2>4. \A i \in 1..k : i \in 1..(k - 1 + 1) /\ 1 + i - 1 = i
    BY <2>2
  <2>5. \A i \in 1..k : inbox'[i] = inbox[i]
    BY <2>3, <2>4
  <2> QED  BY <2>2, <2>3, <2>5
<1>5. \A e : InBox(e)' => InBox(e)
  BY <1>4 DEF InBox
<1>6. ASSUME NEW u \in Trades, NEW n \in 1..Levels, Sure(u)', InBox(TpHit(u, n, 1))
      PROVE  InBox(TpHit(u, n, 1))'
  <2>1. PICK e : e = TpHit(u, n, 1)
    OBVIOUS
  <2>2. e.trade = u
    BY <2>1 DEF TpHit
  <2>3. PICK i \in 1..Len(inbox) : inbox[i] = e
    BY <1>6, <2>1 DEF InBox
  <2>4. ~(i \in (k + 1)..Len(inbox))
    <3>1. "lost" \notin raced'[u]
      BY <1>6 DEF Sure
    <3> QED  BY <1>2, <2>2, <2>3, <3>1
  <2>5. i \in 1..k
    BY <1>4, <2>4
  <2>6. InBox(e)'
    BY <1>4, <2>3, <2>5 DEF InBox
  <2> QED  BY <2>1, <2>6
<1> QED  BY <1>1, <1>3, <1>5, <1>6, InboxStep

\* A hand in MT5 closes a part, and leaves its mark.
LEMMA ByHandTracks ==
    ASSUME IInv, TrackInv, NEW t \in Trades, NEW g \in Gains, ByHand(t, g)
    PROVE  TrackInv'
<1>1. /\ UNCHANGED <<fills, armed, inbox, st, rem, stamp, taken, pc, job>>
      /\ held[t] > 1 /\ BrokerClose(t, 1, g) /\ Mark(t, {"byhand"})
  BY DEF ByHand, eaVars, rowVars, taskVars
<1>2. ~Sure(t)' /\ Growing
  <2>1. raced \in [Trades -> SUBSET Races]
    BY DEF IInv, TypeOK
  <2> QED  BY <1>1, <2>1, MarkGrows DEF Mark, Sure, IInv
<1>3. \A u \in Trades : u # t => held'[u] = held[u] /\ deals'[u] = deals[u]
  BY <1>1, BrokerCloseElsewhere
<1>4. held[t] \in Nat /\ held[t] # 0 /\ held[t] > 0
  BY <1>1, Volumes
<1>5. Evidence'
  <2>1. \A u \in Trades : held[u] = 0 => held'[u] = 0
    BY <1>3, <1>4
  <2>2. \A e : InBox(e)' => InBox(e)
    BY <1>1 DEF InBox
  <2> QED  BY <1>1, <2>1, <2>2, EvidenceFrame DEF TrackInv
<1>6. ASSUME NEW u \in Trades PROVE Follows(u)'
  <2>1. CASE u = t
    BY <1>2, <2>1, FollowsLost
  <2>2. CASE u # t
    <3>1. Follows(u) /\ Same(u)
      BY <1>1, <1>2, <1>3, <2>2 DEF TrackInv, Tracked, Same, Growing
    <3> QED  BY <1>1, <3>1, FollowsFrame DEF Closing, InBox, TpHit
  <2> QED  BY <2>1, <2>2
<1>7. ASSUME NEW u \in Trades PROVE Stamped(u)'
  <2>1. Stamped(u) /\ raced[u] \subseteq raced'[u]
    BY <1>2 DEF TrackInv, Tracked, Growing
  <2>2. CASE u = t
    BY <1>1, <1>4, <2>1, <2>2, StampedClose DEF Stamping
  <2>3. CASE u # t
    BY <1>1, <1>3, <2>1, <2>3, StampedFrame DEF Stamping
  <2> QED  BY <2>2, <2>3
<1> QED  BY <1>5, <1>6, <1>7 DEF TrackInv, Tracked

\* The EA takes a profit of its own: all that was left, or one tranche, which
\* is one level more to be booked, with its report on the way or a mark.
LEMMA EaTakeProfitTracks ==
    ASSUME IInv, TrackInv, NEW t \in Trades, NEW n \in 1..Levels, NEW q \in 1..Lots,
           EaTakeProfit(t, n, q)
    PROVE  TrackInv'
<1> DEFINE m == TpHit(t, n, q)
<1>1. /\ UNCHANGED <<st, rem, stamp, taken, pc, job>>
      /\ held[t] > 0 /\ q \in {1, held[t]} /\ n \in armed[t]
      /\ fills' = [fills EXCEPT ![t][n] = @ + 1] /\ BrokerClose(t, q, Win)
      /\ armed' = [armed EXCEPT ![t] = @ \ {n}]
      /\ \/ inbox' = Append(inbox, m) /\ UNCHANGED raced
         \/ UNCHANGED inbox /\ Mark(t, {"lost"})
  BY DEF EaTakeProfit, rowVars, taskVars
<1>0. Managed[t] = "ea"
  BY DEF EaTakeProfit, IInv, TypeOK, ByEa
<1>2. m \in Events /\ m.type = "tp_hit" /\ m.trade = t /\ m.level = n
  BY LedgerAssumption DEF TpHit, Events
<1>3. /\ \A e : InBox(e) => InBox(e)'
      /\ \A e : InBox(e)' => InBox(e) \/ e = m
      /\ InBox(m)' \/ ~Sure(t)'
  <2>1. CASE inbox' = Append(inbox, m)
    BY <1>2, <2>1, InBoxAppend
  <2>2. CASE UNCHANGED inbox /\ Mark(t, {"lost"})
    <3>1. ~Sure(t)'
      BY <2>2 DEF Mark, Sure, IInv, TypeOK
    <3> QED  BY <2>2, <3>1 DEF InBox
  <2> QED  BY <1>1, <2>1, <2>2
<1>g. Growing
  BY <1>1, MarkGrows DEF Growing, IInv
<1>4. /\ fills[t][n] \in Nat /\ fills'[t][n] = fills[t][n] + 1
      /\ \A k \in 1..Levels : k # n => fills'[t][k] = fills[t][k]
      /\ \A u \in Trades : u # t => fills'[u] = fills[u]
  <2>1. fills \in [Trades -> [1..Levels -> Nat]]
    BY DEF IInv, TypeOK
  <2>2. fills[t] \in [1..Levels -> Nat]
    BY <2>1
  <2>3. fills[t][n] \in Nat
    BY <2>2
  <2>4. \A u \in Trades : u # t => fills'[u] = fills[u]
    BY <1>1, <2>1
  <2> QED  BY <1>1, <2>1, <2>3, <2>4, FillUpdate
<1>a. /\ armed'[t] = armed[t] \ {n} /\ armed[t] \subseteq 1..Levels
      /\ \A u \in Trades : u # t => armed'[u] = armed[u]
  BY <1>1 DEF IInv, TypeOK
<1>5. held[t] \in Nat /\ held'[t] = held[t] - q /\ held[t] # 0
  <2>1. held'[t] = held[t] - q
    BY <1>1 DEF BrokerClose, IInv, TypeOK
  <2> QED  BY <1>1, <2>1, Volumes
<1>6. \A u \in Trades : u # t => held'[u] = held[u] /\ deals'[u] = deals[u]
  BY <1>1, BrokerCloseElsewhere
<1>h. held'[t] = 0 \/ q = 1
  BY <1>1, <1>5
<1> HIDE DEF m
<1>7. Evidence'
  <2>1. \A u \in Trades : held[u] = 0 => held'[u] = 0
    BY <1>5, <1>6
  <2>2. \A u \in Trades, k \in 1..Levels : fills[u][k] > 0 => fills'[u][k] > 0
    BY <1>4
  <2>3. TrueReport(m)'
    <3>1. fills'[t][n] > 0
      BY <1>4
    <3>2. q = 1 => m = TpHit(m.trade, m.level, 1)
      BY <1>2 DEF m
    <3> QED  BY <1>2, <1>h, <3>1, <3>2 DEF TrueReport
  <2>4. \A e \in Events : InBox(e)' => InBox(e) \/ TrueReport(e)'
    BY <1>3, <2>3
  <2> QED  BY <1>1, <2>1, <2>2, <2>4, EvidenceFrame DEF TrackInv
<1>8. ASSUME NEW u \in Trades, u # t PROVE Follows(u)'
  <2>1. Follows(u) /\ Same(u)
    BY <1>1, <1>g, <1>4, <1>a, <1>6, <1>8 DEF TrackInv, Tracked, Same, Growing
  <2>2. \A k \in 1..Levels : InBox(TpHit(u, k, 1)) => InBox(TpHit(u, k, 1))'
    <3> SUFFICES ASSUME NEW k \in 1..Levels, InBox(TpHit(u, k, 1)) PROVE InBox(TpHit(u, k, 1))'
      OBVIOUS
    <3>1. PICK e : e = TpHit(u, k, 1)
      OBVIOUS
    <3> QED  BY <1>3, <3>1
  <2> QED  BY <1>1, <2>1, <2>2, FollowsFrame DEF Closing
<1>9. Follows(t)'
  <2> SUFFICES ASSUME Sure(t)'
               PROVE  /\ \A p \in Tasks : Closing(p, t)' => held'[t] = 0
                      /\ \A p \in Tasks : Booking(p, t)' => job'[p].level > 0
                      /\ held'[t] > 0 => st'[t] = "open" /\ ByReader(t)'
    BY <1>0 DEF Follows
  <2>1. Sure(t) /\ held[t] > 0 /\ held[t] # 0
    BY <1>1, <1>g, <1>5 DEF Sure, Growing
  <2>2. /\ \A p \in Tasks : ~Closing(p, t)
        /\ \A p \in Tasks : Booking(p, t) => job[p].level > 0
        /\ st[t] = "open" /\ ByReader(t)
    BY <1>0, <2>1 DEF TrackInv, Tracked, Follows
  <2>6. \A p \in Tasks : /\ Booking(p, t)' <=> Booking(p, t)
                         /\ Closing(p, t)' <=> Closing(p, t)
    BY <1>1 DEF Booking, Closing
  <2>b. ASSUME held'[t] > 0 PROVE ByReader(t)'
    <3>0. q = 1 /\ fills[t][n] = 0
      BY <1>1, <1>h, <2>2, <2>b DEF ByReader
    <3>3. n \notin Triggered(t)
      <4>1. \A x \in taken[t] : fills[t][x[1]] > 0
        BY <1>0 DEF TrackInv, Evidence, TrueMarks
      <4> QED  BY <3>0, <4>1 DEF Triggered
    <3>4. n \notin Unbooked(t) /\ Unbooked(t)' = Unbooked(t) \cup {n}
      <4>1. Triggered(t)' = Triggered(t)
        BY <1>1 DEF Triggered
      <4> QED  BY <1>4, <3>0, <3>3, <4>1 DEF Unbooked
    <3>5. Expected(t)' = Expected(t)
      <4>1. Cardinality(Unbooked(t) \cup {n}) = Cardinality(Unbooked(t)) + 1
            /\ Cardinality(Unbooked(t)) \in Nat
        BY <3>4, Volumes, FS_AddElement
      <4>2. Cardinality(Unbooked(t)') = Cardinality(Unbooked(t)) + 1
        BY <3>4, <4>1
      <4>3. held'[t] = held[t] - 1
        BY <1>5, <3>0
      <4> QED  BY <1>5, <4>1, <4>2, <4>3 DEF Expected
    <3>7. ASSUME NEW k \in Unbooked(t)'
          PROVE  InBox(TpHit(t, k, 1))' \/ \E p \in Tasks : Booking(p, t)' /\ job'[p].level = k
      <4>1. CASE k = n
        <5>1. InBox(m)' /\ m = TpHit(t, k, 1)
          BY <1>3, <3>0, <4>1 DEF m
        <5> QED  BY <5>1
      <4>2. CASE k \in Unbooked(t)
        <5>1. InBox(TpHit(t, k, 1)) => InBox(TpHit(t, k, 1))'
          <6>1. PICK e : e = TpHit(t, k, 1)
            OBVIOUS
          <6> QED  BY <1>3, <6>1
        <5> QED  BY <1>1, <2>2, <2>6, <4>2, <5>1 DEF ByReader
      <4> QED  BY <3>4, <3>7, <4>1, <4>2
    <3>8. \A k \in armed'[t] : fills'[t][k] = 0
      <4>1. \A k \in armed[t] : fills[t][k] = 0
        BY <2>2 DEF ByReader
      <4> QED  BY <1>4, <1>a, <4>1
    <3> QED  BY <1>1, <2>2, <3>5, <2>6, <3>7, <3>8 DEF ByReader
  <2> QED  BY <1>1, <2>2, <2>6, <2>b
<1>10. ASSUME NEW u \in Trades PROVE Stamped(u)'
  <2>1. Stamped(u) /\ raced[u] \subseteq raced'[u]
    BY <1>g DEF TrackInv, Tracked, Growing
  <2>2. CASE u = t
    BY <1>1, <2>1, <2>2, StampedClose DEF Stamping
  <2>3. CASE u # t
    BY <1>1, <1>6, <2>1, <2>3, StampedFrame DEF Stamping
  <2> QED  BY <2>2, <2>3
<1> QED  BY <1>7, <1>8, <1>9, <1>10 DEF TrackInv, Tracked

\* Who books a level of whose trade.
LEMMA Bookers ==
    ASSUME IInv, NEW t \in Trades, Sure(t), Follows(t), NEW p \in Tasks, Booking(p, t)
    PROVE  /\ Managed[t] = "python" => KindOf[p] = "ladder"
           /\ Managed[t] = "ea" => KindOf[p] = "ea"
<1>1. job[p].level > 0 /\ pc[p] # "idle" /\ job[p].trade = t
  BY DEF Follows, Booking
<1>2. Owns(p, pc[p], job[p])
  BY DEF IInv, Owners
<1> QED  BY <1>1, <1>2 DEF Owns

\* The reader takes the next event: what was announced in the inbox is now in
\* its hands.
LEMMA EaEventTracks ==
    ASSUME IInv, TrackInv, NEW p \in Tasks, EaEvent(p)
    PROVE  TrackInv'
<1>1. /\ UNCHANGED <<held, deals, fills, armed, st, rem, stamp, taken>>
      /\ inbox' = Tail(inbox) /\ inbox # <<>> /\ KindOf[p] = "ea" /\ pc[p] = "idle"
  BY DEF EaEvent, brokerVars, eaVars, rowVars
<1>2. PICK m \in Events : m = Head(inbox) /\ Managed[m.trade] = "ea"
  <2>1. Head(inbox) \in EaEvents
    BY <1>1, HeadTailProperties DEF IInv, Owners
  <2> QED  BY <2>1 DEF EaEvents
<1>3. /\ InBox(m)
      /\ \A e : InBox(e)' => InBox(e)
      /\ \A e : InBox(e) => e = m \/ InBox(e)'
  BY <1>1, <1>2, InBoxTail
<1>4. TrueReport(m)
  BY <1>3 DEF TrackInv, Evidence
<1>5. m.trade \in Trades /\ m.level \in 0..Levels /\ m.gain \in Int /\ m.lots \in Int
  BY LedgerAssumption DEF Events
<1>6. PICK j \in Jobs : /\ j.trade = m.trade /\ j.level = m.level /\ j.gain = m.gain /\ j.lots = m.lots
                        /\ \/ /\ m.type = "tp_hit" /\ Begin(p, "partRead", j)
                              /\ IF \E q \in Others(p) : job[q].trade = m.trade
                                 THEN Mark(m.trade, {"overlap"}) ELSE UNCHANGED raced
                           \/ m.type # "tp_hit" /\ Begin(p, "fullRead", j) /\ UNCHANGED raced
                           \/ m.type # "tp_hit" /\ UNCHANGED taskVars /\ Mark(m.trade, {"unverified"})
  <2>1. /\ WorkOn(m) \in Jobs /\ WorkOn(m).trade = m.trade /\ WorkOn(m).level = m.level
        /\ WorkOn(m).gain = m.gain /\ WorkOn(m).lots = m.lots
    BY <1>5, NoJobTypes DEF Jobs, WorkOn
  <2>2. \/ /\ m.type = "tp_hit" /\ Begin(p, "partRead", WorkOn(m))
           /\ IF \E q \in Others(p) : job[q].trade = m.trade
              THEN Mark(m.trade, {"overlap"}) ELSE UNCHANGED raced
        \/ m.type # "tp_hit" /\ Begin(p, "fullRead", WorkOn(m)) /\ UNCHANGED raced
        \/ m.type # "tp_hit" /\ UNCHANGED taskVars /\ Mark(m.trade, {"unverified"})
    BY <1>2 DEF EaEvent
  <2> QED  BY <2>1, <2>2
<1>7. PICK t \in Trades : t = m.trade
  BY <1>5
<1>8. /\ \A q \in Tasks : q # p => pc'[q] = pc[q] /\ job'[q] = job[q]
      /\ \/ m.type = "tp_hit" /\ pc'[p] = "partRead" /\ job'[p] = j
         \/ m.type # "tp_hit" /\ pc'[p] = "fullRead" /\ job'[p] = j
         \/ m.type # "tp_hit" /\ pc'[p] = "idle" /\ job'[p] = job[p]
  BY <1>1, <1>6, BeginMoves DEF IInv, taskVars
<1>9. m.type = "tp_hit" => /\ m.level \in 1..Levels /\ fills[t][m.level] > 0
                           /\ (m.gain = Win /\ m.lots = 1) \/ held[t] = 0
  BY <1>4, <1>7 DEF TrueReport, TpHit
<1>g. Growing
  BY <1>6, <1>7, MarkGrows DEF Growing, IInv
<1>10. m.type # "tp_hit" => held[t] = 0
  BY <1>4, <1>7 DEF TrueReport
<1>11. Evidence'
  <2>1. \A q \in Tasks : KindOf[q] = "ea" /\ pc'[q] \in {"partRead", "partApply"} =>
           TrueWork(q)' \/ (pc[q] \in {"partRead", "partApply"} /\ job'[q] = job[q])
    BY <1>1, <1>6, <1>7, <1>8, <1>9 DEF TrueWork
  <2>2. \A e \in Events : InBox(e)' => InBox(e) \/ TrueReport(e)'
    BY <1>3
  <2> QED  BY <1>1, <2>1, <2>2, EvidenceFrame DEF TrackInv
<1>12. \A u \in Trades : Follows(u) /\ Same(u) /\ Stamped(u)
  BY <1>1, <1>g DEF TrackInv, Tracked, Same, Growing
<1>13. \A u \in Trades, q \in Tasks :
          /\ Stamping(q, u)' => Stamping(q, u) /\ job'[q] = job[q]
          /\ Closing(q, u)' => Closing(q, u) \/ held[u] = 0
  BY <1>1, <1>6, <1>7, <1>8, <1>10 DEF Stamping, Closing
<1>14. ASSUME NEW u \in Trades PROVE Stamped(u)'
  BY <1>1, <1>12, <1>13, StampedFrame DEF Same
<1>15. ASSUME NEW u \in Trades, u # t \/ m.type # "tp_hit" PROVE Follows(u)'
  <2>1. \A q \in Tasks : Booking(q, u) \/ Booking(q, u)' =>
           pc'[q] = pc[q] /\ job'[q] = job[q]
    BY <1>1, <1>6, <1>7, <1>8, <1>15 DEF Booking
  <2>2. ASSUME NEW n \in 1..Levels, InBox(TpHit(u, n, 1)) PROVE InBox(TpHit(u, n, 1))'
    <3>1. PICK e : e = TpHit(u, n, 1)
      OBVIOUS
    <3>2. e.type = "tp_hit" /\ e.trade = u /\ InBox(e)
      BY <2>2, <3>1 DEF TpHit
    <3>3. InBox(e)'
      BY <1>3, <1>7, <1>15, <3>2
    <3> QED  BY <3>1, <3>3
  <2> QED  BY <1>12, <1>13, <2>1, <2>2, FollowsFrame
<1>16. ASSUME m.type = "tp_hit" PROVE Follows(t)'
  <2> SUFFICES ASSUME Sure(t)'
               PROVE  /\ \A q \in Tasks : Closing(q, t)' => held'[t] = 0
                      /\ \A q \in Tasks : Booking(q, t)' => job'[q].level > 0
                      /\ held'[t] > 0 => st'[t] = "open" /\ ByReader(t)'
    BY <1>2, <1>7 DEF Follows
  <2>1. Sure(t)
    BY <1>g DEF Sure, Growing
  <2>2. /\ \A q \in Tasks : Closing(q, t) => held[t] = 0
        /\ \A q \in Tasks : Booking(q, t) => job[q].level > 0
        /\ held[t] > 0 => st[t] = "open" /\ ByReader(t)
    BY <1>2, <1>7, <1>12, <2>1 DEF Follows
  <2>3. \A q \in Tasks : /\ q # p => (Booking(q, t)' <=> Booking(q, t))
                         /\ Booking(q, t)' /\ q # p => job'[q] = job[q] /\ pc'[q] = pc[q]
    BY <1>8 DEF Booking
  <2>4. Booking(p, t)' /\ ~Booking(p, t) /\ job'[p] = j /\ pc'[p] = "partRead"
    BY <1>1, <1>6, <1>7, <1>8, <1>16 DEF Booking
  <2>5. \A q \in Tasks : Closing(q, t)' => held'[t] = 0
    BY <1>1, <1>13, <2>2
  <2>6. \A q \in Tasks : Booking(q, t)' => job'[q].level > 0
    BY <1>6, <1>9, <1>16, <2>2, <2>3, <2>4
  <2>7. ASSUME held'[t] > 0 PROVE st'[t] = "open" /\ ByReader(t)'
    <3>1. st[t] = "open" /\ ByReader(t)
      BY <1>1, <2>2, <2>7
    <3>2. Unbooked(t)' = Unbooked(t) /\ Expected(t)' = Expected(t)
      BY <1>1 DEF Unbooked, Expected, Triggered
    <3>3. ASSUME NEW n \in Unbooked(t)
          PROVE  InBox(TpHit(t, n, 1))' \/ \E q \in Tasks : Booking(q, t)' /\ job'[q].level = n
      <4>1. CASE InBox(TpHit(t, n, 1))
        <5>1. PICK e : e = TpHit(t, n, 1)
          OBVIOUS
        <5>2. e.level = n /\ InBox(e)
          BY <4>1, <5>1 DEF TpHit
        <5>3. e = m \/ InBox(e)'
          BY <1>3, <5>2
        <5>4. CASE e = m
          BY <1>6, <2>4, <5>2, <5>4
        <5>5. CASE InBox(e)'
          BY <5>1, <5>5
        <5> QED  BY <5>3, <5>4, <5>5
      <4>2. CASE \E q \in Tasks : Booking(q, t) /\ job[q].level = n
        BY <2>3, <2>4, <4>2
      <4> QED  BY <3>1, <3>3, <4>1, <4>2 DEF ByReader
    <3>4. \A q \in Tasks : Booking(q, t)' /\ pc'[q] = "partApply" =>
             Booking(q, t) /\ pc[q] = "partApply" /\ job'[q] = job[q]
      BY <2>3, <2>4
    <3>5. \A q \in Tasks : Booking(q, t)' => q = p
      <4>1. ASSUME NEW q \in Tasks, Booking(q, t)', q # p PROVE FALSE
        <5>1. Booking(q, t)
          BY <2>3, <4>1
        <5>2. KindOf[q] = "ea" /\ pc[q] # "idle" /\ job[q].trade = m.trade
          BY <1>2, <1>7, <1>12, <2>1, <5>1, Bookers DEF Booking
        <5>3. Mark(t, {"overlap"})
          BY <1>6, <1>7, <1>16, <4>1, <5>2 DEF Others
        <5>4. "overlap" \in raced'[t]
          BY <5>3 DEF Mark, IInv, TypeOK
        <5> QED  BY <5>4 DEF Sure, Unsure
      <4> QED  BY <4>1
    <3>6. \A n \in armed'[t] : fills'[t][n] = 0
      BY <1>1, <3>1 DEF ByReader
    <3>7. rem'[t] = Expected(t)'
      BY <1>1, <3>1, <3>2 DEF ByReader
    <3>8. \A q \in Tasks : Booking(q, t)' /\ pc'[q] = "partApply" => job'[q].rem = Expected(t)'
      BY <3>1, <3>2, <3>4 DEF ByReader
    <3>9. ByReader(t)'
      BY <3>2, <3>3, <3>5, <3>6, <3>7, <3>8 DEF ByReader
    <3> QED  BY <1>1, <3>1, <3>9
  <2> QED  BY <2>5, <2>6, <2>7
<1> QED  BY <1>11, <1>14, <1>15, <1>16 DEF TrackInv, Tracked

-----------------------------------------------------------------------------
(* Steps that write a row, or lose everything in hand.                      *)

\* A task that carries no partial close lets go of its trade.
LEMMA LetGo ==
    ASSUME IInv, NEW p \in Tasks, NEW u \in Trades, Begin(p, "idle", NoJob)
    PROVE  /\ pc[p] \notin {"partRead", "partApply"} =>
                 \A q \in Tasks : Booking(q, u) \/ Booking(q, u)' =>
                    pc'[q] = pc[q] /\ job'[q] = job[q]
           /\ \A q \in Tasks : Closing(q, u)' => Closing(q, u)
           /\ \A q \in Tasks : Stamping(q, u)' => Stamping(q, u) /\ job'[q] = job[q]
           /\ \A q \in Tasks : Booking(q, u)' => q # p /\ Booking(q, u) /\ job'[q] = job[q] /\ pc'[q] = pc[q]
           /\ \A q \in Tasks : pc'[q] \in {"partRead", "partApply"} =>
                 q # p /\ pc[q] \in {"partRead", "partApply"} /\ job'[q] = job[q]
<1>1. /\ pc'[p] = "idle" /\ job'[p] = NoJob
      /\ \A q \in Tasks : q # p => pc'[q] = pc[q] /\ job'[q] = job[q]
  BY BeginMoves, NoJobTypes DEF IInv
<1> QED  BY <1>1 DEF Booking, Closing, Stamping

\* The process dies: a trade that comes out unmarked was in nobody's hands.
LEMMA CrashTracks ==
    ASSUME IInv, TrackInv, Crash
    PROVE  TrackInv'
<1>1. /\ UNCHANGED <<held, deals, fills, armed, st, rem, stamp, taken>> /\ inbox' = <<>>
      /\ \A p \in Tasks : pc'[p] = "idle" /\ job'[p] = NoJob
  BY DEF Crash, rowVars
<1>2. /\ Growing
      /\ \A t \in Trades, p \in Tasks : job[p].trade = t => "torn" \in raced'[t]
      /\ \A t \in Trades, i \in 1..Len(inbox) : inbox[i].trade = t => "torn" \in raced'[t]
  BY DEF Crash, Growing, IInv, TypeOK
<1>3. \A e : ~InBox(e)'
  BY <1>1 DEF InBox
<1>4. Evidence'
  BY <1>1, <1>3, EvidenceFrame DEF TrackInv
<1>5. ASSUME NEW u \in Trades PROVE Follows(u)' /\ Stamped(u)'
  <2>1. Follows(u) /\ Stamped(u) /\ Same(u)
    BY <1>1, <1>2 DEF TrackInv, Tracked, Same, Growing
  <2>2. Stamped(u)'
    BY <1>1, <2>1, StampedFrame DEF Stamping, Same
  <2>3. CASE ~Sure(u)'
    BY <2>2, <2>3, FollowsLost
  <2>4. CASE Sure(u)'
    <3>1. "torn" \notin raced'[u]
      BY <2>4 DEF Sure
    <3>2. \A p \in Tasks : Booking(p, u) \/ Booking(p, u)' => pc'[p] = pc[p] /\ job'[p] = job[p]
      BY <1>1, <1>2, <3>1 DEF Booking
    <3>3. \A n \in 1..Levels : ~InBox(TpHit(u, n, 1))
      BY <1>2, <3>1 DEF InBox, TpHit
    <3>4. \A p \in Tasks : ~Closing(p, u)'
      BY <1>1 DEF Closing
    <3> QED  BY <2>1, <2>2, <3>2, <3>3, <3>4, FollowsFrame
  <2> QED  BY <2>3, <2>4
<1> QED  BY <1>4, <1>5 DEF TrackInv, Tracked

\* apply_full_close: the position whose row is closed is gone.
LEMMA FullApplyTracks ==
    ASSUME IInv, TrackInv, NEW p \in Tasks, FullApply(p)
    PROVE  TrackInv'
<1>1. /\ Begin(p, "idle", NoJob) /\ UNCHANGED <<held, deals, fills, armed, inbox, stamp, taken>>
      /\ pc[p] = "fullApply" /\ job[p].trade \in Trades
  BY DEF FullApply, Finish, brokerVars, eaVars, IInv, InHand, Fits
<1>2. PICK t \in Trades : t = job[p].trade
  BY <1>1
<1>3. PICK tags \in SUBSET Races :
         \/ UNCHANGED <<st, rem, raced>>
         \/ /\ st' = [st EXCEPT ![t] = "closed"] /\ rem' = [rem EXCEPT ![t] = 0]
            /\ Mark(t, tags)
  <2> DEFINE tags == (IF net[t] # job[p].net THEN {"overwrite"} ELSE {})
                     \cup (IF stamp[t] # NoStamp THEN {"late"} ELSE {})
  <2>1. tags \in SUBSET Races
    OBVIOUS
  <2>2. \/ UNCHANGED <<st, rem, raced>>
        \/ /\ st' = [st EXCEPT ![t] = "closed"] /\ rem' = [rem EXCEPT ![t] = 0]
           /\ Mark(t, tags)
    BY <1>2 DEF FullApply, tallyVars
  <2> HIDE DEF tags
  <2> QED  BY <2>1, <2>2
<1>4. Growing
  BY <1>3, MarkGrows DEF Growing, IInv
<1>5. /\ st'[t] = "closed" \/ (st'[t] = st[t] /\ rem'[t] = rem[t])
      /\ \A u \in Trades : u # t => st'[u] = st[u] /\ rem'[u] = rem[u]
  BY <1>3 DEF IInv, TypeOK
<1>6. \A e : InBox(e)' <=> InBox(e)
  BY <1>1 DEF InBox
<1>7. Evidence'
  <2>1. \A u \in Trades : st'[u] = "open" => (st[u] = "open" /\ rem'[u] = rem[u])
    BY <1>5
  <2>2. \A q \in Tasks : pc'[q] \in {"partRead", "partApply"} =>
           pc[q] \in {"partRead", "partApply"} /\ job'[q] = job[q]
    BY <1>1, <1>2, LetGo
  <2> QED  BY <1>1, <1>6, <2>1, <2>2, EvidenceFrame DEF TrackInv
<1>8. ASSUME NEW u \in Trades PROVE Follows(u)' /\ Stamped(u)'
  <2>1. Follows(u) /\ Stamped(u) /\ raced[u] \subseteq raced'[u]
    BY <1>4 DEF TrackInv, Tracked, Growing
  <2>2. Stamped(u)'
    BY <1>1, <2>1, LetGo, StampedFrame
  <2>3. CASE u # t
    <3>1. Same(u)
      BY <1>1, <1>5, <2>1, <2>3 DEF Same
    <3>2. \A n \in 1..Levels : InBox(TpHit(u, n, 1)) => InBox(TpHit(u, n, 1))'
      BY <1>1 DEF InBox, TpHit
    <3> QED  BY <1>1, <2>1, <2>2, <3>1, <3>2, LetGo, FollowsFrame
  <2>4. CASE u = t
    <3>1. CASE ~Sure(u)'
      BY <2>2, <3>1, FollowsLost
    <3>2. CASE Sure(u)'
      <4>1. Sure(u) /\ Closing(p, u)
        BY <1>1, <1>2, <2>1, <2>4, <3>2 DEF Sure, Closing
      <4>2. held'[u] = 0
        BY <1>1, <2>1, <4>1 DEF Follows
      <4>3. \A q \in Tasks : Booking(q, u)' => job'[q].level > 0
        BY <1>1, <2>1, <4>1, LetGo DEF Follows
      <4> QED  BY <2>2, <4>2, <4>3, FollowsGone
    <3> QED  BY <3>1, <3>2
  <2> QED  BY <2>3, <2>4
<1> QED  BY <1>7, <1>8 DEF TrackInv, Tracked

\* apply_profit_sync: what is stamped is the figure of a position that is gone.
LEMMA SyncApplyTracks ==
    ASSUME IInv, TrackInv, NEW p \in Tasks, SyncApply(p)
    PROVE  TrackInv'
<1>1. /\ Begin(p, "idle", NoJob)
      /\ UNCHANGED <<held, deals, fills, armed, inbox, st, rem, taken>>
      /\ pc[p] = "syncApply" /\ job[p] \in Jobs /\ job[p].trade \in Trades
  BY DEF SyncApply, Finish, brokerVars, eaVars, IInv, TypeOK, InHand, Fits
<1>2. PICK t \in Trades, s \in Int : t = job[p].trade /\ s = job[p].net
  BY <1>1, JobFields
<1>3. /\ stamp' = [stamp EXCEPT ![t] = s]
      /\ UNCHANGED raced \/ Mark(t, {"restamp"})
  BY <1>2 DEF SyncApply
<1>4. Growing
  BY <1>3, MarkGrows DEF Growing, IInv
<1>5. \A e : InBox(e)' <=> InBox(e)
  BY <1>1 DEF InBox
<1>6. Evidence'
  <2>1. \A q \in Tasks : pc'[q] \in {"partRead", "partApply"} =>
           pc[q] \in {"partRead", "partApply"} /\ job'[q] = job[q]
    BY <1>1, <1>2, LetGo
  <2> QED  BY <1>1, <1>5, <2>1, EvidenceFrame DEF TrackInv
<1>7. ASSUME NEW u \in Trades PROVE Follows(u)' /\ Stamped(u)'
  <2>1. Follows(u) /\ Stamped(u) /\ Same(u) /\ raced[u] \subseteq raced'[u]
    BY <1>1, <1>4 DEF TrackInv, Tracked, Growing, Same
  <2>2. Follows(u)'
    <3>1. \A n \in 1..Levels : InBox(TpHit(u, n, 1)) => InBox(TpHit(u, n, 1))'
      BY <1>1 DEF InBox, TpHit
    <3> QED  BY <1>1, <2>1, <3>1, LetGo, FollowsFrame
  <2>3. \A q \in Tasks : Stamping(q, u)' => Stamping(q, u) /\ job'[q] = job[q]
    BY <1>1, LetGo
  <2>4. CASE u # t
    <3>1. stamp'[u] = stamp[u]
      BY <1>3, <2>4 DEF IInv, TypeOK
    <3> QED  BY <1>1, <2>1, <2>2, <2>3, <3>1, StampedFrame
  <2>5. CASE u = t
    <3>1. stamp'[u] = s
      BY <1>3, <2>5 DEF IInv, TypeOK
    <3>2. Stamping(p, u)
      BY <1>1, <1>2, <2>5 DEF Stamping
    <3>3. Firm(u)' => Firm(u)
      BY <2>1 DEF Firm
    <3>4. Firm(u)' => held[u] = 0 /\ s = deals[u]
      BY <1>2, <2>1, <3>2, <3>3 DEF Stamped
    <3>5. Stamped(u)'
      BY <1>1, <2>1, <2>3, <3>1, <3>3, <3>4 DEF Stamped
    <3> QED  BY <2>2, <3>5
  <2> QED  BY <2>4, <2>5
<1> QED  BY <1>6, <1>7 DEF TrackInv, Tracked

\* _close_full_after_tps finds lots the closed row knows nothing of only after
\* a guess, a lost answer, a blind close or a death.
LEMMA ResidualTracks ==
    ASSUME IInv, TrackInv, NEW p \in Tasks, NEW t \in Trades, Residual(p, t)
    PROVE  TrackInv'
<1>1. /\ UNCHANGED <<held, deals, fills, armed, inbox, stamp, taken>>
      /\ pc[p] = "idle" /\ st[t] = "closed"
  BY DEF Residual, brokerVars, eaVars, rowVars, IInv, Owners
<1>2. \A e : InBox(e)' <=> InBox(e)
  BY <1>1 DEF InBox
<1>3. CASE /\ held[t] > 0 /\ rem' = [rem EXCEPT ![t] = held[t]]
           /\ st' = [st EXCEPT ![t] = "open"] /\ Mark(t, {"reopened"})
           /\ pc' = [pc EXCEPT ![p] = "residualSend"]
           /\ job' = [job EXCEPT ![p] = [NoJob EXCEPT !.trade = t, !.gain = Win]]
  <2>1. pc'[p] = "residualSend" /\ \A q \in Tasks : q # p => pc'[q] = pc[q] /\ job'[q] = job[q]
    BY <1>3 DEF IInv, TypeOK
  <2>2. Growing
    BY <1>3, MarkGrows DEF IInv
  <2>3. /\ rem'[t] > 0
        /\ \A u \in Trades : u # t => st'[u] = st[u] /\ rem'[u] = rem[u]
    BY <1>3 DEF IInv, TypeOK
  <2>4. Evidence'
    BY <1>1, <1>2, <2>1, <2>3, EvidenceFrame DEF TrackInv
  <2>5. ASSUME NEW u \in Trades PROVE Follows(u)' /\ Stamped(u)'
    <3>1. Follows(u) /\ Stamped(u) /\ raced[u] \subseteq raced'[u]
      BY <2>2 DEF TrackInv, Tracked, Growing
    <3>2. Stamped(u)'
      BY <1>1, <2>1, <3>1, StampedFrame DEF Stamping
    <3>3. CASE u # t
      <4>1. Same(u)
        BY <1>1, <2>3, <3>1, <3>3 DEF Same
      <4>2. \A n \in 1..Levels : InBox(TpHit(u, n, 1)) => InBox(TpHit(u, n, 1))'
        BY <1>1 DEF InBox, TpHit
      <4> QED  BY <1>1, <2>1, <3>1, <3>2, <4>1, <4>2, FollowsFrame DEF Booking, Closing
    <3>4. CASE u = t
      <4>1. ~Sure(u)
        BY <1>1, <1>3, <3>1, <3>4 DEF Follows
      <4>2. ~Sure(u)'
        BY <3>1, <4>1 DEF Sure
      <4> QED  BY <3>2, <4>2, FollowsLost
    <3> QED  BY <3>3, <3>4
  <2> QED  BY <2>4, <2>5 DEF TrackInv, Tracked
<1>4. CASE UNCHANGED <<st, rem, pc, job>> /\ (UNCHANGED raced \/ Mark(t, {"blind"}))
  <2>1. Growing
    BY <1>4, MarkGrows DEF Growing, IInv
  <2>2. Evidence'
    BY <1>1, <1>2, <1>4, EvidenceFrame DEF TrackInv
  <2>3. ASSUME NEW u \in Trades PROVE Follows(u)' /\ Stamped(u)'
    <3>1. Follows(u) /\ Stamped(u) /\ Same(u) /\ raced[u] \subseteq raced'[u]
      BY <1>1, <1>4, <2>1 DEF TrackInv, Tracked, Growing, Same
    <3>2. Stamped(u)'
      BY <1>1, <1>4, <3>1, StampedFrame DEF Stamping
    <3>3. \A n \in 1..Levels : InBox(TpHit(u, n, 1)) => InBox(TpHit(u, n, 1))'
      BY <1>1 DEF InBox, TpHit
    <3> QED  BY <1>4, <3>1, <3>2, <3>3, FollowsFrame DEF Closing
  <2> QED  BY <2>2, <2>3 DEF TrackInv, Tracked
<1> QED  BY <1>3, <1>4 DEF Residual, rowVars

\* The ladder's partial close: the row leads by the tranche in its hands.
LEMMA LadderSendTracks ==
    ASSUME IInv, TrackInv, NEW p \in Tasks, LadderSend(p)
    PROVE  TrackInv'
<1>1. /\ UNCHANGED <<eaVars, armed, inbox, rowVars>> /\ pc[p] = "tpSend" /\ KindOf[p] = "ladder"
      /\ job[p] \in Jobs /\ job[p].trade \in Trades /\ job[p].lots \in Nat
      /\ job[p].level \in 1..Levels
  BY DEF IInv, TypeOK, InHand, Fits, Owners, Owns, LadderSend, eaVars
<1>2. PICK t \in Trades, n \in 1..Levels, g \in Int, q \in Nat :
         /\ t = job[p].trade /\ n = job[p].level /\ g = job[p].gain
         /\ q = Lesser(job[p].lots, held[t]) /\ q \in 0..held[t]
  BY <1>1, JobFields, Volumes, LesserBounds
<1>3. Managed[t] = "python"
  <2>1. Owns(p, pc[p], job[p])
    BY DEF IInv, Owners
  <2>2. n > 0
    BY LedgerAssumption
  <2> QED  BY <1>1, <1>2, <2>1, <2>2 DEF Owns
<1>4. PICK j \in Jobs : /\ j.trade = t /\ j.level = n /\ j.lots = q
                        /\ j = [job[p] EXCEPT !.lots = q]
  <2>1. q \in Int
    OBVIOUS
  <2> QED  BY <1>1, <1>2, <2>1 DEF Jobs
<1>5. \/ /\ held[t] > 0 /\ BrokerClose(t, q, g)
         /\ fills' = [fills EXCEPT ![t][n] = @ + 1]
         /\ \/ Begin(p, "partRead", j) /\ UNCHANGED raced
            \/ Begin(p, "idle", NoJob) /\ Mark(t, {"unanswered"})
      \/ Begin(p, "idle", NoJob) /\ UNCHANGED <<brokerVars, raced>>
  BY <1>1, <1>2, <1>4 DEF LadderSend, Finish, brokerVars
<1>6. CASE Begin(p, "idle", NoJob) /\ UNCHANGED <<brokerVars, raced>>
  <2>1. Growing
    BY <1>6 DEF Growing
  <2> QED  BY <1>1, <1>6, <2>1, HandStep, NoJobTypes
<1>7. CASE /\ held[t] > 0 /\ BrokerClose(t, q, g)
           /\ fills' = [fills EXCEPT ![t][n] = @ + 1]
           /\ \/ Begin(p, "partRead", j) /\ UNCHANGED raced
              \/ Begin(p, "idle", NoJob) /\ Mark(t, {"unanswered"})
  <2>1. UNCHANGED <<st, rem, stamp, taken>> /\ \A e : InBox(e)' <=> InBox(e)
    BY <1>1 DEF rowVars, InBox
  <2>2. Growing
    BY <1>7, MarkGrows DEF Growing, IInv
  <2>3. Mark(t, {"unanswered"}) => ~Sure(t)'
    <3>1. raced \in [Trades -> SUBSET Races]
      BY DEF IInv, TypeOK
    <3> QED  BY <3>1 DEF Mark, Sure
  <2>4. /\ \A r \in Tasks : r # p => pc'[r] = pc[r] /\ job'[r] = job[r]
        /\ \/ pc'[p] = "partRead" /\ job'[p] = j
           \/ pc'[p] = "idle" /\ job'[p] = NoJob /\ ~Sure(t)'
    BY <1>7, <2>3, BeginMoves, NoJobTypes DEF IInv
  <2>5. /\ fills'[t][n] = fills[t][n] + 1 /\ fills[t][n] \in Nat
        /\ \A u \in Trades, k \in 1..Levels : u # t \/ k # n => fills'[u][k] = fills[u][k]
        /\ \A u \in Trades : u # t => fills'[u] = fills[u]
    <3>1. fills \in [Trades -> [1..Levels -> Nat]]
      BY DEF IInv, TypeOK
    <3>2. fills[t] \in [1..Levels -> Nat]
      BY <3>1
    <3>3. fills[t][n] \in Nat
      BY <3>2
    <3>4. \A u \in Trades : u # t => fills'[u] = fills[u]
      BY <1>7, <3>1
    <3> QED  BY <1>7, <3>1, <3>3, <3>4, FillUpdate
  <2>6. held[t] \in Nat /\ held'[t] = held[t] - q /\ held'[t] \in Nat
    <3>1. held'[t] = held[t] - q
      BY <1>7 DEF BrokerClose, IInv, TypeOK
    <3>2. held[t] \in Nat
      BY Volumes
    <3> QED  BY <1>2, <3>1, <3>2
  <2>7. \A u \in Trades : u # t => held'[u] = held[u] /\ deals'[u] = deals[u]
    BY <1>7, BrokerCloseElsewhere
  <2>8. Evidence'
    <3>1. \A u \in Trades : held[u] = 0 => held'[u] = 0
      BY <1>7, <2>6, <2>7
    <3>2. \A u \in Trades, k \in 1..Levels : fills[u][k] > 0 => fills'[u][k] > 0
      BY <2>5
    <3>3. \A r \in Tasks : KindOf[r] = "ea" /\ pc'[r] \in {"partRead", "partApply"} =>
             pc[r] \in {"partRead", "partApply"} /\ job'[r] = job[r]
      BY <1>1, <2>4
    <3> QED  BY <2>1, <3>1, <3>2, <3>3, EvidenceFrame DEF TrackInv
  <2>9. ASSUME NEW u \in Trades PROVE Stamped(u)'
    <3>1. Stamped(u) /\ raced[u] \subseteq raced'[u]
      BY <2>2 DEF TrackInv, Tracked, Growing
    <3>2. \A r \in Tasks : Stamping(r, u)' => Stamping(r, u) /\ job'[r] = job[r]
      BY <2>4 DEF Stamping
    <3>3. CASE u = t
      BY <1>7, <2>1, <3>1, <3>2, <3>3, StampedClose
    <3>4. CASE u # t
      BY <2>1, <2>7, <3>1, <3>2, <3>4, StampedFrame
    <3> QED  BY <3>3, <3>4
  <2>10. ASSUME NEW u \in Trades, u # t PROVE Follows(u)'
    <3>1. Follows(u) /\ Same(u)
      BY <1>1, <2>1, <2>2, <2>5, <2>7, <2>10 DEF TrackInv, Tracked, Same, Growing
    <3>2. u # NoTrade
      BY LedgerAssumption
    <3>3. \A r \in Tasks : Booking(r, u) \/ Booking(r, u)' => pc'[r] = pc[r] /\ job'[r] = job[r]
      BY <1>1, <1>4, <2>4, <2>10 DEF Booking
    <3>4. \A r \in Tasks : Closing(r, u)' => Closing(r, u)
      BY <2>4 DEF Closing
    <3>5. \A k \in 1..Levels : InBox(TpHit(u, k, 1)) => InBox(TpHit(u, k, 1))'
      BY <1>1 DEF InBox, TpHit
    <3> QED  BY <3>1, <3>3, <3>4, <3>5, FollowsFrame
  <2>11. Follows(t)'
    <3> SUFFICES ASSUME Sure(t)'
                 PROVE  /\ \A r \in Tasks : Closing(r, t)' => held'[t] = 0
                        /\ \A r \in Tasks : Booking(r, t)' => job'[r].level > 0
                        /\ st'[t] = "open" /\ ByLadder(t)'
      BY <1>3 DEF Follows
    <3>1. Sure(t) /\ pc'[p] = "partRead" /\ job'[p] = j
      BY <2>2, <2>4 DEF Sure, Growing
    <3>2. Follows(t)
      BY DEF TrackInv, Tracked
    <3>3. \A r \in Tasks : ~Booking(r, t)
      <4>1. ASSUME NEW r \in Tasks, Booking(r, t) PROVE FALSE
        <5>1. KindOf[r] = "ladder"
          BY <1>3, <3>1, <3>2, <4>1, Bookers
        <5>2. r = p
          BY <1>1, <5>1, LedgerAssumption
        <5> QED  BY <1>1, <4>1, <5>2 DEF Booking
      <4> QED  BY <4>1
    <3>4. st[t] = "open" /\ rem[t] = held[t] /\ \A r \in Tasks : ~Closing(r, t)
      <4>1. held[t] > 0 /\ held[t] # 0
        BY <1>7, <2>6
      <4> QED  BY <1>3, <3>1, <3>2, <3>3, <4>1 DEF Follows, ByLadder
    <3>5. /\ \A r \in Tasks : Booking(r, t)' <=> r = p
          /\ \A r \in Tasks : ~Closing(r, t)'
      BY <1>4, <2>4, <3>1, <3>3, <3>4 DEF Booking, Closing
    <3>6. rem'[t] = held'[t] + job'[p].lots
      BY <1>4, <2>1, <2>6, <3>1, <3>4
    <3>7. ByLadder(t)'
      BY <3>1, <3>5, <3>6 DEF ByLadder
    <3>8. job'[p].level > 0
      BY <1>4, <3>1, LedgerAssumption
    <3> QED  BY <2>1, <3>4, <3>5, <3>7, <3>8
  <2> QED  BY <2>8, <2>9, <2>10, <2>11 DEF TrackInv, Tracked
<1> QED  BY <1>5, <1>6, <1>7

\* partial_close_trade reads the row: the tranche is not cut, because the row
\* leads by it.
LEMMA PartialReadTracks ==
    ASSUME IInv, TrackInv, NEW p \in Tasks, PartialRead(p)
    PROVE  TrackInv'
<1>1. /\ UNCHANGED <<held, deals, fills, armed, inbox, st, rem, stamp, taken, raced>>
      /\ pc[p] = "partRead" /\ job[p] \in Jobs /\ job[p].trade \in Trades /\ job[p].lots \in Nat
  BY DEF IInv, TypeOK, InHand, Fits, PartialRead, brokerVars, eaVars, rowVars, tallyVars
<1>2. PICK t \in Trades : t = job[p].trade
  BY <1>1
<1>3. rem[t] \in Nat /\ held[t] \in Nat
  BY Volumes
<1>4. PICK q \in Nat : q = Lesser(job[p].lots, rem[t])
  BY <1>1, <1>3, LesserBounds
<1>5. PICK j \in Jobs : /\ j.trade = t /\ j.level = job[p].level /\ j.gain = job[p].gain
                        /\ j.lots = q /\ j.rem = rem[t]
                        /\ j = [job[p] EXCEPT !.lots = q, !.rem = rem[t]]
  <2>1. q \in Int /\ rem[t] \in Int
    BY <1>3
  <2> QED  BY <1>1, <1>2, <2>1 DEF Jobs
<1>6. \/ st[t] = "open" /\ Begin(p, "partApply", j)
      \/ st[t] # "open" /\ Begin(p, "idle", NoJob)
  BY <1>2, <1>4, <1>5 DEF PartialRead, Finish
<1>7. \A e : InBox(e)' <=> InBox(e)
  BY <1>1 DEF InBox
<1>8. \A u \in Trades : Follows(u) /\ Same(u) /\ Stamped(u)
  BY <1>1 DEF TrackInv, Tracked, Same
<1>9. \A u \in Trades, k \in 1..Levels : InBox(TpHit(u, k, 1)) => InBox(TpHit(u, k, 1))'
  BY <1>1 DEF InBox, TpHit
<1>10. CASE st[t] # "open" /\ Begin(p, "idle", NoJob)
  <2>1. Evidence'
    <3>1. \A q1 \in Tasks : pc'[q1] \in {"partRead", "partApply"} =>
             pc[q1] \in {"partRead", "partApply"} /\ job'[q1] = job[q1]
      BY <1>10, LetGo
    <3> QED  BY <1>1, <1>7, <3>1, EvidenceFrame DEF TrackInv
  <2>2. ASSUME NEW u \in Trades PROVE Follows(u)' /\ Stamped(u)'
    <3>1. Stamped(u)'
      BY <1>1, <1>8, <1>10, LetGo, StampedFrame
    <3>2. CASE u # t
      <4>1. \A r \in Tasks : Booking(r, u) \/ Booking(r, u)' => pc'[r] = pc[r] /\ job'[r] = job[r]
        <5>1. ~Booking(p, u)
          BY <1>2, <3>2 DEF Booking
        <5>2. \A r \in Tasks : r # p => pc'[r] = pc[r] /\ job'[r] = job[r]
          BY <1>10, BeginMoves, NoJobTypes DEF IInv
        <5> QED  BY <1>10, <5>1, <5>2, LetGo
      <4>2. \A r \in Tasks : Closing(r, u)' => Closing(r, u)
        BY <1>10, LetGo
      <4> QED  BY <1>8, <1>9, <3>1, <4>1, <4>2, FollowsFrame
    <3>3. CASE u = t
      <4>1. CASE ~Sure(u)'
        BY <3>1, <4>1, FollowsLost
      <4>2. CASE Sure(u)'
        <5>1. Sure(u)
          BY <1>1, <4>2 DEF Sure
        <5>2. held[u] = 0
          <6>1. ~(held[u] > 0)
            BY <1>8, <1>10, <3>3, <5>1 DEF Follows
          <6> QED  BY <1>3, <3>3, <6>1
        <5>3. \A r \in Tasks : Booking(r, u)' => job'[r].level > 0
          BY <1>8, <1>10, <5>1, LetGo DEF Follows
        <5> QED  BY <1>1, <3>1, <5>2, <5>3, FollowsGone
      <4> QED  BY <4>1, <4>2
    <3> QED  BY <3>2, <3>3
  <2> QED  BY <2>1, <2>2 DEF TrackInv, Tracked
<1>11. CASE st[t] = "open" /\ Begin(p, "partApply", j)
  <2>1. /\ pc'[p] = "partApply" /\ job'[p] = j
        /\ \A r \in Tasks : r # p => pc'[r] = pc[r] /\ job'[r] = job[r]
    BY <1>11, BeginMoves DEF IInv
  <2>2. rem[t] > 0
    BY <1>11 DEF TrackInv, Evidence
  <2>3. Evidence'
    <3>1. ASSUME KindOf[p] = "ea" PROVE TrueWork(p)'
      <4>1. TrueWork(p)
        BY <1>1, <3>1 DEF TrackInv, Evidence
      <4>2. job[p].lots = 1 => q = 1
        BY <1>3, <1>4, <2>2 DEF Lesser
      <4> QED  BY <1>1, <1>2, <1>5, <2>1, <4>1, <4>2 DEF TrueWork
    <3>2. \A r \in Tasks : KindOf[r] = "ea" /\ pc'[r] \in {"partRead", "partApply"} =>
             TrueWork(r)' \/ (pc[r] \in {"partRead", "partApply"} /\ job'[r] = job[r])
      BY <2>1, <3>1
    <3> QED  BY <1>1, <1>7, <3>2, EvidenceFrame DEF TrackInv
  <2>4. ASSUME NEW u \in Trades PROVE Stamped(u)'
    <3>1. \A r \in Tasks : Stamping(r, u)' => Stamping(r, u) /\ job'[r] = job[r]
      BY <2>1 DEF Stamping
    <3> QED  BY <1>1, <1>8, <3>1, StampedFrame DEF Same
  <2>5. ASSUME NEW u \in Trades, u # t PROVE Follows(u)'
    <3>1. \A r \in Tasks : Booking(r, u) \/ Booking(r, u)' => pc'[r] = pc[r] /\ job'[r] = job[r]
      BY <1>2, <1>5, <2>1, <2>5 DEF Booking
    <3>2. \A r \in Tasks : Closing(r, u)' => Closing(r, u)
      BY <2>1 DEF Closing
    <3> QED  BY <1>8, <1>9, <3>1, <3>2, FollowsFrame
  <2>6. Follows(t)'
    <3> SUFFICES ASSUME Sure(t)'
                 PROVE  /\ \A r \in Tasks : Closing(r, t)' => held'[t] = 0
                        /\ \A r \in Tasks : Booking(r, t)' => job'[r].level > 0
                        /\ held'[t] > 0 => /\ st'[t] = "open"
                                           /\ Managed[t] = "python" => ByLadder(t)'
                                           /\ Managed[t] = "ea" => ByReader(t)'
      BY DEF Follows
    <3>1. Sure(t) /\ Follows(t)
      BY <1>1, <1>8 DEF Sure
    <3>2. /\ Booking(p, t) /\ Booking(p, t)'
          /\ \A r \in Tasks : Booking(r, t)' <=> Booking(r, t)
          /\ \A r \in Tasks : Closing(r, t)' => Closing(r, t)
      BY <1>1, <1>2, <1>5, <2>1 DEF Booking, Closing
    <3>3. /\ \A r \in Tasks : Closing(r, t)' => held'[t] = 0
          /\ \A r \in Tasks : Booking(r, t)' => job'[r].level > 0
      BY <1>1, <1>5, <2>1, <3>1, <3>2 DEF Follows
    <3>4. ASSUME held'[t] > 0, Managed[t] = "python" PROVE ByLadder(t)'
      <4>1. ByLadder(t)
        BY <1>1, <3>1, <3>4 DEF Follows
      <4>2. q = job[p].lots
        <5>1. rem[t] = held[t] + job[p].lots
          BY <3>2, <4>1 DEF ByLadder
        <5> QED  BY <1>1, <1>3, <1>4, <5>1 DEF Lesser
      <4>3. \A r \in Tasks : Booking(r, t)' => job'[r].lots = job[r].lots
        BY <1>5, <2>1, <4>2
      <4>4. \A r \in Tasks : Booking(r, t)' /\ pc'[r] = "partApply" => job'[r].rem = rem[t]
        <5>1. \A r \in Tasks : Booking(r, t) /\ pc[r] = "partApply" => job[r].rem = rem[t]
          BY <4>1 DEF ByLadder
        <5> QED  BY <1>5, <2>1, <3>2, <5>1
      <4>5. \A r \in Tasks : Booking(r, t)' => rem[t] = held[t] + job'[r].lots
        BY <3>2, <4>1, <4>3 DEF ByLadder
      <4> QED  BY <1>1, <3>2, <4>4, <4>5 DEF ByLadder
    <3>5. ASSUME held'[t] > 0, Managed[t] = "ea" PROVE ByReader(t)'
      <4>1. ByReader(t)
        BY <1>1, <3>1, <3>5 DEF Follows
      <4>2. Unbooked(t)' = Unbooked(t) /\ Expected(t)' = Expected(t)
        BY <1>1 DEF Unbooked, Expected, Triggered
      <4>3. \A r \in Tasks : job'[r].level = job[r].level
        BY <1>5, <2>1
      <4>4. ASSUME NEW n \in Unbooked(t)
            PROVE  InBox(TpHit(t, n, 1))' \/ \E r \in Tasks : Booking(r, t)' /\ job'[r].level = n
        <5>1. n \in 1..Levels
          BY DEF Unbooked
        <5> QED  BY <1>9, <3>2, <4>1, <4>3, <4>4, <5>1 DEF ByReader
      <4>5. \A r \in Tasks : Booking(r, t)' /\ pc'[r] = "partApply" =>
               \/ r = p /\ job'[r].rem = rem[t]
               \/ Booking(r, t) /\ pc[r] = "partApply" /\ job'[r] = job[r]
        BY <1>5, <2>1, <3>2
      <4>6. \A r \in Tasks : Booking(r, t)' /\ pc'[r] = "partApply" => job'[r].rem = Expected(t)'
        BY <4>1, <4>2, <4>5 DEF ByReader
      <4>7. \A r, i \in Tasks : Booking(r, t)' /\ Booking(i, t)' => r = i
        BY <3>2, <4>1 DEF ByReader
      <4>8. rem'[t] = Expected(t)' /\ \A i \in armed'[t] : fills'[t][i] = 0
        BY <1>1, <4>1, <4>2 DEF ByReader
      <4> QED  BY <4>2, <4>4, <4>6, <4>7, <4>8 DEF ByReader
    <3>6. held'[t] > 0 => st'[t] = "open"
      BY <1>1, <1>11
    <3> QED  BY <3>3, <3>4, <3>5, <3>6
  <2> QED  BY <2>3, <2>4, <2>5, <2>6 DEF TrackInv, Tracked
<1> QED  BY <1>6, <1>10, <1>11

\* apply_partial_close_with_reason: a level is booked once, and the row comes
\* down to what the broker holds.
LEMMA PartialApplyTracks ==
    ASSUME IInv, TrackInv, NEW p \in Tasks, PartialApply(p)
    PROVE  TrackInv'
<1>1. /\ UNCHANGED <<held, deals, fills, armed, inbox>>
      /\ pc[p] = "partApply" /\ job[p] \in Jobs /\ job[p].trade \in Trades
      /\ job[p].rem \in 0..Lots /\ job[p].lots \in 0..job[p].rem
      /\ pc' = [pc EXCEPT ![p] = "idle"] /\ job' = [job EXCEPT ![p] = NoJob]
  BY DEF IInv, TypeOK, InHand, Fits, PartialApply, brokerVars, eaVars
<1>2. PICK t \in Trades, n \in 0..Levels, k \in Nat, g \in Int, r \in Nat :
         /\ t = job[p].trade /\ n = job[p].level /\ k = job[p].lots /\ g = job[p].gain
         /\ r = job[p].rem
  <2>1. job[p].rem \in Nat /\ job[p].lots \in Nat
    BY <1>1, LedgerAssumption
  <2> QED  BY <1>1, <2>1, JobFields
<1>3. /\ pc'[p] = "idle" /\ job'[p] = NoJob
      /\ \A q \in Tasks : q # p => pc'[q] = pc[q] /\ job'[q] = job[q]
  BY <1>1 DEF IInv, TypeOK
<1>4. /\ Booking(p, t)
      /\ \A u \in Trades, q \in Tasks :
            /\ Booking(q, u)' <=> q # p /\ Booking(q, u)
            /\ Closing(q, u)' => Closing(q, u)
            /\ Stamping(q, u)' => Stamping(q, u) /\ job'[q] = job[q]
  BY <1>1, <1>2, <1>3 DEF Booking, Closing, Stamping
<1>5. \A e : InBox(e)' <=> InBox(e)
  BY <1>1 DEF InBox
<1>6. \A u \in Trades, i \in 1..Levels : InBox(TpHit(u, i, 1)) => InBox(TpHit(u, i, 1))'
  BY <1>1 DEF InBox, TpHit
<1>7. Growing /\ stamp' = stamp
  <2>1. UNCHANGED raced \/ Mark(t, {"late"})
    BY <1>2 DEF PartialApply, tallyVars
  <2>2. Growing
    BY <2>1, MarkGrows DEF Growing, IInv
  <2> QED  BY <2>2 DEF PartialApply, rowVars
<1>8. /\ \A e \in Events : InBox(e)' => TrueReport(e)'
      /\ \A q \in Tasks : KindOf[q] = "ea" /\ pc'[q] \in {"partRead", "partApply"} =>
            TrueWork(q)'
  <2>1. \A q \in Tasks : pc'[q] \in {"partRead", "partApply"} =>
           pc[q] \in {"partRead", "partApply"} /\ job'[q] = job[q]
    BY <1>3
  <2> QED  BY <1>1, <1>5, <2>1, ReportsStay DEF TrackInv
<1>9. ASSUME NEW u \in Trades PROVE Stamped(u)'
  BY <1>1, <1>4, <1>7, StampedFrame DEF TrackInv, Tracked, Growing
<1>10. \A u \in Trades : Follows(u) /\ raced[u] \subseteq raced'[u]
  BY <1>7 DEF TrackInv, Tracked, Growing
<1>11. \/ UNCHANGED <<st, rem, taken>> /\ n > 0 /\ <<n, k, g>> \in taken[t]
       \/ /\ ~(n > 0 /\ <<n, k, g>> \in taken[t])
          /\ rem' = [rem EXCEPT ![t] = r - k]
          /\ taken' = IF n = 0 THEN taken ELSE [taken EXCEPT ![t] = @ \cup {<<n, k, g>>}]
          /\ st' = IF r - k <= 0 THEN [st EXCEPT ![t] = "closed"] ELSE st
  BY <1>2 DEF PartialApply, AlreadyBooked, rowVars
<1>12. \A u \in Trades : u # t => rem'[u] = rem[u] /\ st'[u] = st[u] /\ taken'[u] = taken[u]
  <2>1. /\ st \in [Trades -> {"open", "closed"}] /\ rem \in [Trades -> 0..Lots]
        /\ taken \in [Trades -> SUBSET ((1..Levels) \X Int \X Int)]
    BY DEF IInv, TypeOK
  <2>2. \A u \in Trades : u # t => rem'[u] = rem[u]
    BY <1>11, <2>1
  <2>3. \A u \in Trades : u # t => st'[u] = st[u]
    BY <1>11, <2>1
  <2>4. \A u \in Trades : u # t => taken'[u] = taken[u]
    BY <1>11, <2>1
  <2> QED  BY <2>2, <2>3, <2>4
<1>13. Managed[t] = "ea" /\ n > 0 => /\ KindOf[p] = "ea" /\ ((k = 1 /\ g = Win) \/ held[t] = 0)
                                    /\ n \in 1..Levels /\ fills[t][n] > 0
  <2>1. Owns(p, pc[p], job[p])
    BY DEF IInv, Owners
  <2>2. Managed[t] = "ea" /\ n > 0 => KindOf[p] = "ea"
    BY <1>1, <1>2, <2>1 DEF Owns
  <2>3. KindOf[p] = "ea" => TrueWork(p)
    BY <1>1 DEF TrackInv, Evidence
  <2> QED  BY <1>2, <2>2, <2>3 DEF TrueWork
<1>14. Evidence'
  <2>1. ASSUME NEW u \in Trades, st'[u] = "open" PROVE rem'[u] > 0
    <3>1. st[u] = "open" => rem[u] > 0
      BY DEF TrackInv, Evidence
    <3>2. CASE u # t
      BY <1>12, <2>1, <3>1, <3>2
    <3>3. CASE u = t
      <4>1. CASE UNCHANGED <<st, rem, taken>>
        BY <2>1, <3>1, <4>1
      <4>2. CASE /\ rem' = [rem EXCEPT ![t] = r - k]
                 /\ st' = IF r - k <= 0 THEN [st EXCEPT ![t] = "closed"] ELSE st
        <5>1. rem'[t] = r - k /\ (r - k <= 0 => st'[t] = "closed")
          BY <4>2 DEF IInv, TypeOK
        <5> QED  BY <2>1, <3>3, <5>1
      <4> QED  BY <1>11, <4>1, <4>2
    <3> QED  BY <3>2, <3>3
  <2>2. ASSUME NEW u \in Trades, Managed[u] = "ea" PROVE TrueMarks(u)'
    <3>1. CASE taken'[u] = taken[u]
      BY <1>1, <2>2, <3>1, MarksStay DEF TrackInv
    <3>2. CASE taken'[u] # taken[u]
      <4>1. u = t /\ n # 0 /\ taken'[t] = taken[t] \cup {<<n, k, g>>}
        <5>1. u = t /\ n # 0 /\ taken' = [taken EXCEPT ![t] = @ \cup {<<n, k, g>>}]
          BY <1>11, <1>12, <3>2
        <5> QED  BY <5>1 DEF IInv, TypeOK
      <4>2. n > 0
        BY <4>1, LedgerAssumption
      <4>3. TrueMarks(t)
        BY <2>2, <4>1 DEF TrackInv, Evidence
      <4>4. PICK x : x = <<n, k, g>>
        OBVIOUS
      <4>5. (x = <<n, 1, Win>> \/ held[t] = 0) /\ x[1] = n /\ fills[t][n] > 0
        BY <1>13, <2>2, <4>1, <4>2, <4>4
      <4>6. taken'[t] = taken[t] \cup {x}
        BY <4>1, <4>4
      <4> QED  BY <1>1, <4>1, <4>3, <4>5, <4>6 DEF TrueMarks
    <3> QED  BY <3>1, <3>2
  <2> QED  BY <1>8, <2>1, <2>2 DEF Evidence
<1>15. ASSUME NEW u \in Trades, u # t PROVE Follows(u)'
  <2>1. Same(u)
    BY <1>1, <1>10, <1>12, <1>15 DEF Same
  <2>2. \A q \in Tasks : Booking(q, u) \/ Booking(q, u)' => pc'[q] = pc[q] /\ job'[q] = job[q]
    <3>1. ~Booking(p, u)
      BY <1>2, <1>15 DEF Booking
    <3> QED  BY <1>3, <1>4, <3>1
  <2> QED  BY <1>4, <1>6, <1>10, <2>1, <2>2, FollowsFrame
<1>16. Follows(t)'
  <2> SUFFICES ASSUME Sure(t)'
               PROVE  /\ \A q \in Tasks : Closing(q, t)' => held'[t] = 0
                      /\ \A q \in Tasks : Booking(q, t)' => job'[q].level > 0
                      /\ held'[t] > 0 => /\ st'[t] = "open"
                                         /\ Managed[t] = "python" => ByLadder(t)'
                                         /\ Managed[t] = "ea" => ByReader(t)'
    BY DEF Follows
  <2>1. Sure(t) /\ Follows(t)
    BY <1>10 DEF Sure
  <2>2. /\ \A q \in Tasks : Closing(q, t)' => held'[t] = 0
        /\ \A q \in Tasks : Booking(q, t)' => job'[q].level > 0
    BY <1>1, <1>3, <1>4, <2>1 DEF Follows
  <2>3. n > 0
    BY <1>2, <1>4, <2>1 DEF Follows
  <2>4. held[t] \in Nat /\ rem[t] \in Nat /\ Expected(t) \in Nat
    BY Volumes
  <2>5. ASSUME held'[t] > 0, Managed[t] = "python" PROVE st'[t] = "open" /\ ByLadder(t)'
    \* The ladder is the only one to book here, and books a level once.
    <3>1. st[t] = "open" /\ ByLadder(t)
      BY <1>1, <2>1, <2>5 DEF Follows
    <3>2. KindOf[p] = "ladder"
      BY <1>4, <2>1, <2>5, Bookers
    <3>3. ASSUME NEW q \in Tasks, q # p, Booking(q, t) PROVE FALSE
      <4>1. KindOf[q] = "ladder"
        BY <2>1, <2>5, <3>3, Bookers
      <4> QED  BY <3>2, <3>3, <4>1, LedgerAssumption
    <3>4. n \notin Triggered(t)
      <4>1. Owns(p, pc[p], job[p])
        BY DEF IInv, Owners
      <4> QED  BY <1>1, <1>2, <3>2, <4>1 DEF Owns
    <3>5. <<n, k, g>> \notin taken[t]
      <4>1. PICK x : x = <<n, k, g>>
        OBVIOUS
      <4>2. x[1] = n
        BY <4>1
      <4>3. x \notin taken[t]
        BY <3>4, <4>2 DEF Triggered
      <4> QED  BY <4>1, <4>3
    <3>6. r = rem[t] /\ rem[t] = held[t] + k
      BY <1>1, <1>2, <1>4, <3>1 DEF ByLadder
    <3>7. r - k = held[t] /\ ~(r - k <= 0)
      BY <1>1, <2>4, <2>5, <3>6
    <3>8. rem'[t] = r - k /\ st' = st
      BY <1>11, <3>5, <3>7 DEF IInv, TypeOK
    <3>9. \A q \in Tasks : ~Booking(q, t)'
      BY <1>4, <3>3
    <3>10. ByLadder(t)'
      BY <1>1, <3>7, <3>8, <3>9 DEF ByLadder
    <3> QED  BY <3>1, <3>8, <3>10
  <2>6. ASSUME held'[t] > 0, Managed[t] = "ea" PROVE st'[t] = "open" /\ ByReader(t)'
    <3>1. st[t] = "open" /\ ByReader(t) /\ held[t] > 0
      BY <1>1, <2>1, <2>6 DEF Follows
    <3>2. KindOf[p] = "ea" /\ k = 1 /\ g = Win /\ n \in 1..Levels /\ fills[t][n] > 0
      BY <1>13, <2>3, <2>6, <3>1
    <3>3. \A q \in Tasks : ~Booking(q, t)'
      BY <1>4, <3>1 DEF ByReader
    <3>a. \A i \in armed'[t] : fills'[t][i] = 0
      BY <1>1, <3>1 DEF ByReader
    <3>5. CASE UNCHANGED <<st, rem, taken>> /\ <<n, k, g>> \in taken[t]
      \* A report come twice: the level has its marker already.
      <4>1. n \in Triggered(t)
        <5>1. PICK x \in taken[t] : x = <<n, k, g>>
          BY <3>5
        <5>2. x[1] = n
          BY <5>1
        <5> QED  BY <5>2 DEF Triggered
      <4>2. Unbooked(t)' = Unbooked(t) /\ Expected(t)' = Expected(t) /\ n \notin Unbooked(t)
        BY <1>1, <3>5, <4>1 DEF Unbooked, Expected, Triggered
      <4>3. ASSUME NEW i \in Unbooked(t)
            PROVE  InBox(TpHit(t, i, 1))' \/ \E q \in Tasks : Booking(q, t)' /\ job'[q].level = i
        <5>1. i # n /\ i \in 1..Levels
          BY <4>2, <4>3 DEF Unbooked
        <5>2. CASE InBox(TpHit(t, i, 1))
          BY <1>6, <5>1, <5>2
        <5>3. CASE \E q \in Tasks : Booking(q, t) /\ job[q].level = i
          <6>1. PICK q \in Tasks : Booking(q, t) /\ job[q].level = i
            BY <5>3
          <6>2. q # p
            BY <1>2, <5>1, <6>1
          <6> QED  BY <1>3, <1>4, <6>1, <6>2
        <5> QED  BY <3>1, <4>3, <5>2, <5>3 DEF ByReader
      <4>4. ByReader(t)'
        BY <3>1, <3>3, <3>5, <3>a, <4>2, <4>3 DEF ByReader
      <4> QED  BY <3>1, <3>5, <4>4
    <3>6. CASE /\ ~(n > 0 /\ <<n, k, g>> \in taken[t])
               /\ rem' = [rem EXCEPT ![t] = r - k]
               /\ taken' = IF n = 0 THEN taken ELSE [taken EXCEPT ![t] = @ \cup {<<n, k, g>>}]
               /\ st' = IF r - k <= 0 THEN [st EXCEPT ![t] = "closed"] ELSE st
      <4>1. n \notin Triggered(t)
        <5>1. \A x \in taken[t] : x = <<x[1], 1, Win>>
          BY <2>4, <2>6, <3>1 DEF TrackInv, Evidence, TrueMarks
        <5>2. <<n, 1, Win>> \notin taken[t]
          BY <2>3, <3>2, <3>6
        <5> QED  BY <5>1, <5>2 DEF Triggered
      <4>2. Triggered(t)' = Triggered(t) \cup {n}
        <5>1. PICK x : x = <<n, k, g>>
          OBVIOUS
        <5>2. x[1] = n
          BY <5>1
        <5>3. taken'[t] = taken[t] \cup {x}
          <6>1. taken' = [taken EXCEPT ![t] = @ \cup {<<n, k, g>>}]
            BY <2>3, <3>6
          <6> QED  BY <5>1, <6>1 DEF IInv, TypeOK
        <5> QED  BY <5>2, <5>3 DEF Triggered
      <4>3. n \in Unbooked(t) /\ Unbooked(t)' = Unbooked(t) \ {n}
        BY <1>1, <3>2, <4>1, <4>2 DEF Unbooked
      <4>4. /\ Expected(t)' = Expected(t) - 1 /\ Expected(t)' >= held[t]
            /\ Expected(t)' \in Nat
        <5>1. /\ Cardinality(Unbooked(t)') = Cardinality(Unbooked(t)) - 1
              /\ Cardinality(Unbooked(t)) \in Nat
          BY <4>3, Volumes, FS_RemoveElement
        <5>2. Cardinality(Unbooked(t)) # 0
          <6>1. IsFiniteSet(Unbooked(t)) /\ Unbooked(t) # {}
            BY <4>3, Volumes
          <6> QED  BY <6>1, FS_EmptySet
        <5> QED  BY <1>1, <2>4, <5>1, <5>2 DEF Expected
      <4>5. r = Expected(t)
        BY <1>1, <1>2, <1>4, <3>1 DEF ByReader
      <4>6. r - k = Expected(t)'
        BY <2>4, <3>2, <4>4, <4>5
      <4>7. ~(r - k <= 0)
        BY <2>4, <3>1, <4>4, <4>6
      <4>8. rem'[t] = r - k /\ st' = st
        BY <3>6, <4>7 DEF IInv, TypeOK
      <4>9. ASSUME NEW i \in Unbooked(t)'
            PROVE  InBox(TpHit(t, i, 1))' \/ \E q \in Tasks : Booking(q, t)' /\ job'[q].level = i
        <5>1. i # n /\ i \in Unbooked(t) /\ i \in 1..Levels
          BY <4>3, <4>9 DEF Unbooked
        <5>2. CASE InBox(TpHit(t, i, 1))
          BY <1>6, <5>1, <5>2
        <5>3. CASE \E q \in Tasks : Booking(q, t) /\ job[q].level = i
          <6>1. PICK q \in Tasks : Booking(q, t) /\ job[q].level = i
            BY <5>3
          <6>2. q # p
            BY <1>2, <5>1, <6>1
          <6> QED  BY <1>3, <1>4, <6>1, <6>2
        <5> QED  BY <3>1, <5>1, <5>2, <5>3 DEF ByReader
      <4>11. ByReader(t)'
        BY <3>3, <3>a, <4>6, <4>8, <4>9 DEF ByReader
      <4> QED  BY <3>1, <4>8, <4>11
    <3> QED  BY <1>11, <3>5, <3>6
  <2>7. Managed[t] \in {"ea", "python"}
    BY LedgerAssumption
  <2> QED  BY <2>2, <2>5, <2>6, <2>7
<1> QED  BY <1>9, <1>14, <1>15, <1>16 DEF TrackInv, Tracked

-----------------------------------------------------------------------------
(* The second invariant, and what it says of the row and of the stamp.      *)

\* The initial states satisfy it.
LEMMA InitTracks == Init => TrackInv
<1> SUFFICES ASSUME Init PROVE TrackInv
  OBVIOUS
<1>0. IInv
  BY InitHolds
<1>1. /\ \A t \in Trades : held[t] = Lots /\ rem[t] = Lots /\ st[t] = "open" /\ taken[t] = {}
      /\ \A t \in Trades : raced[t] = {} /\ deals[t] = 0 /\ stamp[t] = NoStamp
      /\ \A t \in Trades, n \in 1..Levels : fills[t][n] = 0
      /\ \A t \in Trades : armed[t] = 1..Levels
      /\ \A p \in Tasks : pc[p] = "idle"
      /\ inbox = <<>>
  BY DEF Init
<1>2. \A e : ~InBox(e)
  BY <1>1 DEF InBox
<1>3. Evidence
  BY <1>1, <1>2, LedgerAssumption DEF Evidence, TrueMarks
<1>4. ASSUME NEW t \in Trades PROVE Follows(t)
  <2>1. Unbooked(t) = {}
    BY <1>1 DEF Unbooked
  <2>2. Expected(t) = Lots
    BY <1>1, <2>1, FS_EmptySet, LedgerAssumption DEF Expected
  <2>3. ByLadder(t) /\ ByReader(t)
    BY <1>1, <2>1, <2>2, LedgerAssumption DEF ByLadder, ByReader, Booking
  <2> QED  BY <1>1, <2>3 DEF Follows, Closing, Booking
<1>5. ASSUME NEW t \in Trades PROVE Stamped(t)
  <2>1. Lots - held[t] = 0
    BY <1>1, LedgerAssumption
  <2> QED  BY <1>1, <2>1 DEF Stamped, Stamping
<1> QED  BY <1>3, <1>4, <1>5 DEF TrackInv, Tracked

\* Every step preserves it.
LEMMA NextTracks == IInv /\ TrackInv /\ [Next]_vars => TrackInv'
<1> SUFFICES ASSUME IInv, TrackInv, [Next]_vars PROVE TrackInv'
  OBVIOUS
<1>1. CASE UNCHANGED vars
  <2>1. UNCHANGED <<held, deals, fills, armed, inbox, st, rem, stamp, taken, pc, job, raced>>
    BY <1>1 DEF vars
  <2>2. Growing /\ \A e : InBox(e)' <=> InBox(e)
    BY <2>1 DEF Growing, InBox
  <2> QED  BY <2>1, <2>2, InboxStep
<1>2. ASSUME NEW t \in Trades, Outside(t) PROVE TrackInv'
  BY <1>2, EaTakeProfitTracks, ReportsTrack, BrokerExitTracks, ByHandTracks,
     RestoreTracks, HistoryTracks DEF Outside
<1>3. ASSUME NEW p \in Tasks, Start(p) PROVE TrackInv'
  BY <1>3, EaEventTracks, TakeUpTracks, SyncReadTracks, ResidualTracks DEF Start
<1>4. ASSUME NEW p \in Tasks, Continue(p) PROVE TrackInv'
  BY <1>4, LadderSendTracks, CheckTracks, CloseSendTracks, PartialReadTracks,
     PartialApplyTracks, FullReadTracks, FullApplyTracks, SyncApplyTracks DEF Continue
<1> QED  BY <1>1, <1>2, <1>3, <1>4, LinkLostTracks, CrashTracks DEF Next

\* Both invariants hold in every reachable state.
LEMMA TrackingHolds == Spec => [](IInv /\ TrackInv)
<1>1. Init => IInv /\ TrackInv
  BY InitHolds, InitTracks
<1>2. (IInv /\ TrackInv) /\ [Next]_vars => (IInv /\ TrackInv)'
  BY NextHolds, NextTracks
<1> QED  BY <1>1, <1>2, PTL DEF Spec

\* remaining_lots after partial_close_trade, record_close, the EA's reports and
\* its restore: when nobody has a trade in hand its row agrees with the broker,
\* whatever tasks have raced and however often the EA's link broke, unless the
\* trade has been through one of the events RowTracksBroker names.
THEOREM RowFollowsBroker == Spec => []RowTracksBroker
<1>1. IInv /\ TrackInv => RowTracksBroker
  <2> SUFFICES ASSUME IInv, TrackInv, NEW t \in Trades, Quiet(t), Sure(t)
               PROVE  \/ st[t] = "open" /\ held[t] \in {rem[t], 0}
                      \/ st[t] = "closed" /\ held[t] = 0
    BY DEF RowTracksBroker, Sure
  <2>1. Follows(t) /\ held[t] \in Nat /\ st[t] \in {"open", "closed"}
    BY Volumes DEF TrackInv, Tracked, IInv, TypeOK
  <2>2. \A p \in Tasks : ~Booking(p, t)
    BY DEF Quiet, Booking
  <2>3. \A n : ~InBox(TpHit(t, n, 1))
    BY DEF Quiet, InBox, TpHit
  <2>4. CASE held[t] = 0
    BY <2>1, <2>4
  <2>5. CASE held[t] > 0
    <3>1. st[t] = "open" /\ (Managed[t] = "python" => ByLadder(t)) /\ (Managed[t] = "ea" => ByReader(t))
      BY <2>1, <2>5 DEF Follows
    <3>2. CASE Managed[t] = "python"
      BY <2>2, <3>1, <3>2 DEF ByLadder
    <3>3. CASE Managed[t] = "ea"
      <4>1. Unbooked(t) = {} /\ rem[t] = Expected(t)
        BY <2>2, <2>3, <3>1, <3>3 DEF ByReader
      <4>2. rem[t] = held[t]
        BY <2>1, <4>1, FS_EmptySet DEF Expected
      <4> QED  BY <3>1, <4>2
    <3> QED  BY <3>2, <3>3, LedgerAssumption
  <2> QED  BY <2>1, <2>4, <2>5
<1> QED  BY <1>1, TrackingHolds, PTL

\* sync_profit: whether or not the history lags behind the position list, a
\* figure read off a history that was complete at that moment is the broker's
\* last word on a row that was never in doubt, for any number of sweeps,
\* retries and closers.
THEOREM StampsAreFinal == Spec => []StampIsFinal
<1>1. IInv /\ TrackInv => StampIsFinal
  <2> SUFFICES ASSUME TrackInv, NEW t \in Trades, stamp[t] # NoStamp, Firm(t)
               PROVE  stamp[t] = deals[t]
    BY DEF StampIsFinal, Firm
  <2> QED  BY DEF TrackInv, Tracked, Stamped
<1> QED  BY <1>1, TrackingHolds, PTL
=============================================================================
