------------------------- MODULE OrderDispatchProofs -------------------------
(***************************************************************************)
(* Machine-checked safety of OrderDispatch, for any number of signals,     *)
(* trade ids and tasks, any assignment of routes, any cap, any number of   *)
(* crashes, and an EA that may act on a command however late.              *)
(*                                                                         *)
(* One inductive invariant carries every result.  TaskIds and IdStages say *)
(* where a trade id can be; Orders counts the sends made under an id;      *)
(* Standing says what a signal's status can be while a task is opening it, *)
(* which is what makes the claim exclusive; Parked says that a signal with *)
(* an order nobody recorded is out of every route's reach.                 *)
(***************************************************************************)
EXTENDS OrderDispatch, FiniteSetTheorems, TLAPS

USE DEF Kinds, Claimers, Unclaimed, Statuses, InFlightPcs, Pcs, Errors

\* A working task has its own id; a resolving task is a claimer.
TaskIds ==
    /\ \A p \in Tasks : pc[p] = "idle" => job[p] = NoSignal /\ tid[p] = NoTrade
    /\ \A p \in Tasks : pc[p] # "idle" => job[p] \in Signals /\ tid[p] \in Trades
    /\ \A p, q \in Tasks : tid[p] = tid[q] /\ tid[p] # NoTrade => p = q
    /\ \A p \in Tasks : pc[p] = "resolve" => KindOf[p] \in Claimers

\* An id belongs to a signal from the moment it may have left the process.
IdStages ==
    /\ \A p \in Tasks : pc[p] \in {"resolve", "gates", "handoff"} => owner[tid[p]] = NoSignal
    /\ \A p \in Tasks : pc[p] \in {"eaWait", "tplWait", "ask", "place", "record"}
                            => owner[tid[p]] = job[p]
    /\ \A p \in Tasks : pc[p] = "failed" => owner[tid[p]] \in {NoSignal, job[p]}
    /\ \A t \in Trades : owner[t] = NoSignal
                            => placed[t] = 0 /\ ea[t] = "none" /\ row[t] = "none"
    /\ \A p \in Tasks : pc[p] # "idle" => row[tid[p]] = "none"

\* How many orders an id can have behind it, by where its task is.
ByEa(t) == IF ea[t] = "opened" THEN 1 ELSE 0

Orders ==
    /\ \A t \in Trades : placed[t] <= 1 + ByEa(t)
    /\ \A p \in Tasks : pc[p] \in {"eaWait", "tplWait", "ask", "place"}
                            => placed[tid[p]] = ByEa(tid[p])
    /\ \A p \in Tasks : pc[p] = "place" /\ placed[tid[p]] > 0 => tid[p] \in late
    /\ \A p \in Tasks : pc[p] = "failed" /\ why[p] # "unknown" /\ placed[tid[p]] > 0
                            => tid[p] \in late
    /\ OneOrderPerTrade

\* A signal being opened is never in a status another route could take it from.
Standing ==
    /\ \A p \in Tasks : pc[p] \in InFlightPcs /\ KindOf[p] \in Claimers
            => status[job[p]] \notin {"none", "pending", "active", "unknown"}
    /\ \A p \in Tasks : pc[p] \in InFlightPcs /\ KindOf[p] \in Unclaimed
            => /\ status[job[p]] = "active"
               /\ job[p] \notin queue
               /\ \A q \in Tasks : job[q] = job[p] => q = p
               /\ \A t \in Trades : owner[t] = job[p] => t = tid[p]
    /\ \A s \in Signals : status[s] = "none"
            => /\ s \notin queue
               /\ \A p \in Tasks : job[p] # s
               /\ \A t \in Trades : owner[t] # s
    /\ ClaimExclusive

\* An order with no row and no task: nothing opens its signal any more.
Unrecorded(t) == placed[t] > 0 /\ row[t] = "none" /\ ~Held(t) /\ t \notin late \cup orphan

Parked ==
    \A t \in Trades : Unrecorded(t) =>
        /\ owner[t] \in Signals
        /\ \A p \in Tasks : job[p] = owner[t] => pc[p] = "resolve"
        /\ \/ status[owner[t]] \in {"unknown", "cancelled", "expired", "activated",
                                    "closed", "deleted"}
           \/ /\ status[owner[t]] = "active"
              /\ owner[t] \notin queue
              /\ \A p \in Tasks : job[p] # owner[t]
              /\ \A u \in Trades : owner[u] = owner[t] => row[u] = "none"

IInv == TypeOK /\ TaskIds /\ IdStages /\ Orders /\ Standing /\ Parked

-----------------------------------------------------------------------------

\* CreateSignal preserves the invariant.
LEMMA CreateSignalStep ==
    ASSUME IInv, NEW s \in Signals, CreateSignal(s) PROVE IInv'
<1>1. TypeOK'
  BY ConstantsAssumption DEF IInv, TypeOK, TaskIds, CreateSignal, sigVars,
      taskVars, bookVars, histVars
<1>2. TaskIds'
  BY ConstantsAssumption DEF IInv, TypeOK, TaskIds, CreateSignal, sigVars,
      taskVars, bookVars, histVars
<1>3. IdStages'
  BY ConstantsAssumption DEF IInv, TypeOK, TaskIds, IdStages, CreateSignal,
      sigVars, taskVars, bookVars, histVars
<1>4. Orders'
  BY ConstantsAssumption DEF IInv, TypeOK, TaskIds, IdStages, Orders, ByEa,
      OneOrderPerTrade, CreateSignal, sigVars, taskVars, bookVars, histVars
<1>5. Standing'
  BY ConstantsAssumption DEF IInv, TypeOK, TaskIds, IdStages, Standing,
      ClaimExclusive, CreateSignal, sigVars, taskVars, bookVars, histVars
<1>6. Parked'
  BY ConstantsAssumption DEF IInv, TypeOK, TaskIds, IdStages, Orders, ByEa,
      OneOrderPerTrade, Standing, ClaimExclusive, Parked, Unrecorded, Held,
      CreateSignal, sigVars, taskVars, bookVars, histVars
<1> QED  BY <1>1, <1>2, <1>3, <1>4, <1>5, <1>6 DEF IInv

\* Cancel preserves the invariant.
LEMMA CancelStep ==
    ASSUME IInv, NEW s \in Signals, Cancel(s) PROVE IInv'
<1>1. TypeOK'
  BY ConstantsAssumption DEF IInv, TypeOK, TaskIds, Cancel, Overrule, Opening,
      sigVars, taskVars, bookVars, histVars
<1>2. TaskIds'
  BY ConstantsAssumption DEF IInv, TypeOK, TaskIds, Cancel, Overrule, Opening,
      sigVars, taskVars, bookVars, histVars
<1>3. IdStages'
  BY ConstantsAssumption DEF IInv, TypeOK, TaskIds, IdStages, Cancel, Overrule,
      Opening, sigVars, taskVars, bookVars, histVars
<1>4. Orders'
  BY ConstantsAssumption DEF IInv, TypeOK, TaskIds, IdStages, Orders, ByEa,
      OneOrderPerTrade, Cancel, Overrule, Opening, sigVars, taskVars, bookVars,
      histVars
<1>5. Standing'
  BY ConstantsAssumption DEF IInv, TypeOK, TaskIds, IdStages, Standing,
      ClaimExclusive, Cancel, Overrule, Opening, sigVars, taskVars, bookVars,
      histVars
<1>6. Parked'
  BY ConstantsAssumption DEF IInv, TypeOK, TaskIds, IdStages, Orders, ByEa,
      OneOrderPerTrade, Standing, ClaimExclusive, Parked, Unrecorded, Held,
      Cancel, Overrule, Opening, sigVars, taskVars, bookVars, histVars
<1> QED  BY <1>1, <1>2, <1>3, <1>4, <1>5, <1>6 DEF IInv

\* Release preserves the invariant.
LEMMA ReleaseStep ==
    ASSUME IInv, NEW s \in Signals, Release(s) PROVE IInv'
<1>1. TypeOK'
  BY ConstantsAssumption DEF IInv, TypeOK, TaskIds, Release, sigVars, taskVars,
      bookVars, histVars
<1>2. TaskIds'
  BY ConstantsAssumption DEF IInv, TypeOK, TaskIds, Release, sigVars, taskVars,
      bookVars, histVars
<1>3. IdStages'
  BY ConstantsAssumption DEF IInv, TypeOK, TaskIds, IdStages, Release, sigVars,
      taskVars, bookVars, histVars
<1>4. Orders'
  BY ConstantsAssumption DEF IInv, TypeOK, TaskIds, IdStages, Orders, ByEa,
      OneOrderPerTrade, Release, sigVars, taskVars, bookVars, histVars
<1>5. Standing'
  BY ConstantsAssumption DEF IInv, TypeOK, TaskIds, IdStages, Standing,
      ClaimExclusive, Release, sigVars, taskVars, bookVars, histVars
<1>6. Parked'
  BY ConstantsAssumption DEF IInv, TypeOK, TaskIds, IdStages, Orders, ByEa,
      OneOrderPerTrade, Standing, ClaimExclusive, Parked, Unrecorded, Held,
      Release, sigVars, taskVars, bookVars, histVars
<1> QED  BY <1>1, <1>2, <1>3, <1>4, <1>5, <1>6 DEF IInv

\* Close preserves the invariant.
LEMMA CloseStep ==
    ASSUME IInv, NEW t \in Trades, Close(t) PROVE IInv'
<1>0. owner[t] \in Signals
  BY DEF IInv, TypeOK, IdStages, Close
<1>1. TypeOK'
  <2>1. status' \in [Signals -> Statuses] /\ row' \in [Trades -> {"none", "open", "closed"}]
    BY <1>0 DEF IInv, TypeOK, Close
  <2>2. uncharged' \subseteq Trades
    BY DEF IInv, TypeOK, TaskIds, Close, Overrule, Opening
  <2> QED  BY <2>1, <2>2 DEF IInv, TypeOK, Close, Overrule, taskVars
<1>2. TaskIds'
  BY ConstantsAssumption DEF IInv, TypeOK, TaskIds, Close, Overrule, Opening,
      sigVars, taskVars, bookVars, histVars
<1>3. IdStages'
  BY ConstantsAssumption DEF IInv, TypeOK, TaskIds, IdStages, Close, Overrule,
      Opening, sigVars, taskVars, bookVars, histVars
<1>4. Orders'
  BY ConstantsAssumption DEF IInv, TypeOK, TaskIds, IdStages, Orders, ByEa,
      OneOrderPerTrade, Close, Overrule, Opening, sigVars, taskVars, bookVars,
      histVars
<1>5. Standing'
  BY ConstantsAssumption DEF IInv, TypeOK, TaskIds, IdStages, Standing,
      ClaimExclusive, Close, Overrule, Opening, sigVars, taskVars, bookVars,
      histVars
<1>6. Parked'
  BY ConstantsAssumption DEF IInv, TypeOK, TaskIds, IdStages, Orders, ByEa,
      OneOrderPerTrade, Standing, ClaimExclusive, Parked, Unrecorded, Held,
      Close, Overrule, Opening, sigVars, taskVars, bookVars, histVars
<1> QED  BY <1>1, <1>2, <1>3, <1>4, <1>5, <1>6 DEF IInv

\* EaExecute preserves the invariant.
LEMMA EaExecuteStep ==
    ASSUME IInv, NEW t \in Trades, EaExecute(t) PROVE IInv'
<1>1. TypeOK'
  BY ConstantsAssumption DEF IInv, TypeOK, TaskIds, Orders, ByEa,
      OneOrderPerTrade, EaExecute, sigVars, taskVars, bookVars,
      histVars
<1>2. TaskIds'
  BY ConstantsAssumption DEF IInv, TypeOK, TaskIds, EaExecute,
      sigVars, taskVars, bookVars, histVars
<1>3. IdStages'
  BY ConstantsAssumption DEF IInv, TypeOK, TaskIds, IdStages, EaExecute,
      sigVars, taskVars, bookVars, histVars
<1>4. Orders'
  BY ConstantsAssumption DEF IInv, TypeOK, TaskIds, IdStages, Orders, ByEa,
      OneOrderPerTrade, EaExecute, sigVars, taskVars, bookVars,
      histVars
<1>5. Standing'
  BY ConstantsAssumption DEF IInv, TypeOK, TaskIds, IdStages, Standing,
      ClaimExclusive, EaExecute, sigVars, taskVars, bookVars,
      histVars
<1>6. Parked'
  BY ConstantsAssumption DEF IInv, TypeOK, TaskIds, IdStages, Orders, ByEa,
      OneOrderPerTrade, Standing, ClaimExclusive, Parked, Unrecorded, Held,
      EaExecute, sigVars, taskVars, bookVars, histVars
<1> QED  BY <1>1, <1>2, <1>3, <1>4, <1>5, <1>6 DEF IInv

\* WatcherScan preserves the invariant.
LEMMA WatcherScanStep ==
    ASSUME IInv, NEW p \in Tasks, WatcherScan(p) PROVE IInv'
<1>1. TypeOK'
  BY ConstantsAssumption DEF IInv, TypeOK, TaskIds, WatcherScan, sigVars,
      taskVars, bookVars, histVars
<1>2. TaskIds'
  BY ConstantsAssumption DEF IInv, TypeOK, TaskIds, WatcherScan, sigVars,
      taskVars, bookVars, histVars
<1>3. IdStages'
  BY ConstantsAssumption DEF IInv, TypeOK, TaskIds, IdStages, WatcherScan,
      sigVars, taskVars, bookVars, histVars
<1>4. Orders'
  BY ConstantsAssumption DEF IInv, TypeOK, TaskIds, IdStages, Orders, ByEa,
      OneOrderPerTrade, WatcherScan, sigVars, taskVars, bookVars, histVars
<1>5. Standing'
  BY ConstantsAssumption DEF IInv, TypeOK, TaskIds, IdStages, Standing,
      ClaimExclusive, WatcherScan, sigVars, taskVars, bookVars, histVars
<1>6. Parked'
  BY ConstantsAssumption DEF IInv, TypeOK, TaskIds, IdStages, Orders, ByEa,
      OneOrderPerTrade, Standing, ClaimExclusive, Parked, Unrecorded, Held,
      WatcherScan, sigVars, taskVars, bookVars, histVars
<1> QED  BY <1>1, <1>2, <1>3, <1>4, <1>5, <1>6 DEF IInv

\* WatcherExpire preserves the invariant.
LEMMA WatcherExpireStep ==
    ASSUME IInv, NEW p \in Tasks, NEW s \in Signals, WatcherExpire(p, s) PROVE IInv'
<1>1. TypeOK'
  BY ConstantsAssumption DEF IInv, TypeOK, TaskIds, WatcherExpire, Overrule,
      Opening, sigVars, taskVars, bookVars, histVars
<1>2. TaskIds'
  BY ConstantsAssumption DEF IInv, TypeOK, TaskIds, WatcherExpire, Overrule,
      Opening, sigVars, taskVars, bookVars, histVars
<1>3. IdStages'
  BY ConstantsAssumption DEF IInv, TypeOK, TaskIds, IdStages, WatcherExpire,
      Overrule, Opening, sigVars, taskVars, bookVars, histVars
<1>4. Orders'
  BY ConstantsAssumption DEF IInv, TypeOK, TaskIds, IdStages, Orders, ByEa,
      OneOrderPerTrade, WatcherExpire, Overrule, Opening, sigVars, taskVars,
      bookVars, histVars
<1>5. Standing'
  BY ConstantsAssumption DEF IInv, TypeOK, TaskIds, IdStages, Standing,
      ClaimExclusive, WatcherExpire, Overrule, Opening, sigVars, taskVars,
      bookVars, histVars
<1>6. Parked'
  BY ConstantsAssumption DEF IInv, TypeOK, TaskIds, IdStages, Orders, ByEa,
      OneOrderPerTrade, Standing, ClaimExclusive, Parked, Unrecorded, Held,
      WatcherExpire, Overrule, Opening, sigVars, taskVars, bookVars, histVars
<1> QED  BY <1>1, <1>2, <1>3, <1>4, <1>5, <1>6 DEF IInv

\* WatcherSkip preserves the invariant.
LEMMA WatcherSkipStep ==
    ASSUME IInv, NEW p \in Tasks, NEW s \in Signals, WatcherSkip(p, s) PROVE IInv'
<1>1. TypeOK'
  BY ConstantsAssumption DEF IInv, TypeOK, TaskIds, WatcherSkip, sigVars,
      taskVars, bookVars, histVars
<1>2. TaskIds'
  BY ConstantsAssumption DEF IInv, TypeOK, TaskIds, WatcherSkip, sigVars,
      taskVars, bookVars, histVars
<1>3. IdStages'
  BY ConstantsAssumption DEF IInv, TypeOK, TaskIds, IdStages, WatcherSkip,
      sigVars, taskVars, bookVars, histVars
<1>4. Orders'
  BY ConstantsAssumption DEF IInv, TypeOK, TaskIds, IdStages, Orders, ByEa,
      OneOrderPerTrade, WatcherSkip, sigVars, taskVars, bookVars, histVars
<1>5. Standing'
  BY ConstantsAssumption DEF IInv, TypeOK, TaskIds, IdStages, Standing,
      ClaimExclusive, WatcherSkip, sigVars, taskVars, bookVars, histVars
<1>6. Parked'
  BY ConstantsAssumption DEF IInv, TypeOK, TaskIds, IdStages, Orders, ByEa,
      OneOrderPerTrade, Standing, ClaimExclusive, Parked, Unrecorded, Held,
      WatcherSkip, sigVars, taskVars, bookVars, histVars
<1> QED  BY <1>1, <1>2, <1>3, <1>4, <1>5, <1>6 DEF IInv

\* WatcherMarkActivated preserves the invariant.
LEMMA WatcherMarkActivatedStep ==
    ASSUME IInv, NEW p \in Tasks, NEW s \in Signals, WatcherMarkActivated(p, s) PROVE IInv'
<1>1. TypeOK'
  BY ConstantsAssumption DEF IInv, TypeOK, TaskIds, WatcherMarkActivated,
      OpenTradeFor, OpenRows, Overrule, Opening, sigVars, taskVars, bookVars,
      histVars
<1>2. TaskIds'
  BY ConstantsAssumption DEF IInv, TypeOK, TaskIds, WatcherMarkActivated,
      OpenTradeFor, OpenRows, Overrule, Opening, sigVars, taskVars, bookVars,
      histVars
<1>3. IdStages'
  BY ConstantsAssumption DEF IInv, TypeOK, TaskIds, IdStages,
      WatcherMarkActivated, OpenTradeFor, OpenRows, Overrule, Opening, sigVars,
      taskVars, bookVars, histVars
<1>4. Orders'
  BY ConstantsAssumption DEF IInv, TypeOK, TaskIds, IdStages, Orders, ByEa,
      OneOrderPerTrade, WatcherMarkActivated, OpenTradeFor, OpenRows, Overrule,
      Opening, sigVars, taskVars, bookVars, histVars
<1>5. Standing'
  BY ConstantsAssumption DEF IInv, TypeOK, TaskIds, IdStages, Standing,
      ClaimExclusive, WatcherMarkActivated, OpenTradeFor, OpenRows, Overrule,
      Opening, sigVars, taskVars, bookVars, histVars
<1>6. Parked'
  BY ConstantsAssumption DEF IInv, TypeOK, TaskIds, IdStages, Orders, ByEa,
      OneOrderPerTrade, Standing, ClaimExclusive, Parked, Unrecorded, Held,
      WatcherMarkActivated, OpenTradeFor, OpenRows, Overrule, Opening, sigVars,
      taskVars, bookVars, histVars
<1> QED  BY <1>1, <1>2, <1>3, <1>4, <1>5, <1>6 DEF IInv

\* WatcherOpen preserves the invariant.
LEMMA WatcherOpenStep ==
    ASSUME IInv, NEW p \in Tasks, NEW s \in Signals, WatcherOpen(p, s) PROVE IInv'
<1>1. TypeOK'
  BY ConstantsAssumption DEF IInv, TypeOK, TaskIds, WatcherOpen, CountFailure,
      Overrule, Opening, Resolvable, Take, FreshIds, Held, sigVars, taskVars,
      bookVars, histVars
<1>2. TaskIds'
  BY ConstantsAssumption DEF IInv, TypeOK, TaskIds, WatcherOpen, CountFailure,
      Overrule, Opening, Resolvable, Take, FreshIds, Held, sigVars, taskVars,
      bookVars, histVars
<1>3. IdStages'
  BY ConstantsAssumption DEF IInv, TypeOK, TaskIds, IdStages, WatcherOpen,
      CountFailure, Overrule, Opening, Resolvable, Take, FreshIds, Held,
      sigVars, taskVars, bookVars, histVars
<1>4. Orders'
  BY ConstantsAssumption DEF IInv, TypeOK, TaskIds, IdStages, Orders, ByEa,
      OneOrderPerTrade, WatcherOpen, CountFailure, Overrule, Opening,
      Resolvable, Take, FreshIds, Held, sigVars, taskVars, bookVars, histVars
<1>5. Standing'
  BY ConstantsAssumption DEF IInv, TypeOK, TaskIds, IdStages, Standing,
      ClaimExclusive, WatcherOpen, CountFailure, Overrule, Opening, Resolvable,
      Take, FreshIds, Held, sigVars, taskVars, bookVars, histVars
<1>6. Parked'
  BY ConstantsAssumption DEF IInv, TypeOK, TaskIds, IdStages, Orders, ByEa,
      OneOrderPerTrade, Standing, ClaimExclusive, Parked, Unrecorded, Held,
      WatcherOpen, CountFailure, Overrule, Opening, Resolvable, Take, FreshIds,
      sigVars, taskVars, bookVars, histVars
<1> QED  BY <1>1, <1>2, <1>3, <1>4, <1>5, <1>6 DEF IInv

\* DirectOpen preserves the invariant.
LEMMA DirectOpenStep ==
    ASSUME IInv, NEW p \in Tasks, NEW s \in Signals, DirectOpen(p, s) PROVE IInv'
<1>1. TypeOK'
  BY ConstantsAssumption DEF IInv, TypeOK, TaskIds, DirectOpen, Take, FreshIds,
      Held, sigVars, taskVars, bookVars, histVars
<1>2. TaskIds'
  BY ConstantsAssumption DEF IInv, TypeOK, TaskIds, DirectOpen, Take, FreshIds,
      Held, sigVars, taskVars, bookVars, histVars
<1>3. IdStages'
  BY ConstantsAssumption DEF IInv, TypeOK, TaskIds, IdStages, DirectOpen, Take,
      FreshIds, Held, sigVars, taskVars, bookVars, histVars
<1>4. Orders'
  BY ConstantsAssumption DEF IInv, TypeOK, TaskIds, IdStages, Orders, ByEa,
      OneOrderPerTrade, DirectOpen, Take, FreshIds, Held, sigVars, taskVars,
      bookVars, histVars
<1>5. Standing'
  BY ConstantsAssumption DEF IInv, TypeOK, TaskIds, IdStages, Standing,
      ClaimExclusive, DirectOpen, Take, FreshIds, Held, sigVars, taskVars,
      bookVars, histVars
<1>6. Parked'
  BY ConstantsAssumption DEF IInv, TypeOK, TaskIds, IdStages, Orders, ByEa,
      OneOrderPerTrade, Standing, ClaimExclusive, Parked, Unrecorded, Held,
      DirectOpen, Take, FreshIds, sigVars, taskVars, bookVars, histVars
<1> QED  BY <1>1, <1>2, <1>3, <1>4, <1>5, <1>6 DEF IInv

\* ClaimWon preserves the invariant.
LEMMA ClaimWonStep ==
    ASSUME IInv, NEW p \in Tasks, ClaimWon(p) PROVE IInv'
<1>1. TypeOK'
  BY ConstantsAssumption DEF IInv, TypeOK, TaskIds, ClaimWon, CanClaim, Goto,
      sigVars, taskVars, bookVars, histVars
<1>2. TaskIds'
  BY ConstantsAssumption DEF IInv, TypeOK, TaskIds, ClaimWon, CanClaim, Goto,
      sigVars, taskVars, bookVars, histVars
<1>3. IdStages'
  BY ConstantsAssumption DEF IInv, TypeOK, TaskIds, IdStages, ClaimWon,
      CanClaim, Goto, sigVars, taskVars, bookVars, histVars
<1>4. Orders'
  BY ConstantsAssumption DEF IInv, TypeOK, TaskIds, IdStages, Orders, ByEa,
      OneOrderPerTrade, ClaimWon, CanClaim, Goto, sigVars, taskVars, bookVars,
      histVars
<1>5. Standing'
  <2>1. pc[p] = "resolve" /\ KindOf[p] \in Claimers /\ job[p] \in Signals
    BY DEF IInv, TypeOK, TaskIds, ClaimWon
  <2>2. \A q \in Tasks : pc[q] \in InFlightPcs => job[q] # job[p]
    BY <2>1, ConstantsAssumption DEF IInv, TypeOK, Standing, ClaimWon, CanClaim
  <2> QED
    BY <2>1, <2>2, ConstantsAssumption DEF IInv, TypeOK, TaskIds, Standing,
       ClaimExclusive, ClaimWon, Goto, bookVars
<1>6. Parked'
  BY ConstantsAssumption DEF IInv, TypeOK, TaskIds, IdStages, Orders, ByEa,
      OneOrderPerTrade, Standing, ClaimExclusive, Parked, Unrecorded, Held,
      ClaimWon, CanClaim, Goto, sigVars, taskVars, bookVars, histVars
<1> QED  BY <1>1, <1>2, <1>3, <1>4, <1>5, <1>6 DEF IInv

\* ClaimLost preserves the invariant.
LEMMA ClaimLostStep ==
    ASSUME IInv, NEW p \in Tasks, ClaimLost(p) PROVE IInv'
<1>1. TypeOK'
  BY ConstantsAssumption DEF IInv, TypeOK, TaskIds, ClaimLost, CanClaim,
      CountFailure, Overrule, Opening, Finish, sigVars, taskVars, bookVars,
      histVars
<1>2. TaskIds'
  BY ConstantsAssumption DEF IInv, TypeOK, TaskIds, ClaimLost, CanClaim,
      CountFailure, Overrule, Opening, Finish, sigVars, taskVars, bookVars,
      histVars
<1>3. IdStages'
  BY ConstantsAssumption DEF IInv, TypeOK, TaskIds, IdStages, ClaimLost,
      CanClaim, CountFailure, Overrule, Opening, Finish, sigVars, taskVars,
      bookVars, histVars
<1>4. Orders'
  BY ConstantsAssumption DEF IInv, TypeOK, TaskIds, IdStages, Orders, ByEa,
      OneOrderPerTrade, ClaimLost, CanClaim, CountFailure, Overrule, Opening,
      Finish, sigVars, taskVars, bookVars, histVars
<1>5. Standing'
  BY ConstantsAssumption DEF IInv, TypeOK, TaskIds, IdStages, Standing,
      ClaimExclusive, ClaimLost, CanClaim, CountFailure, Overrule, Opening,
      Finish, sigVars, taskVars, bookVars, histVars
<1>6. Parked'
  BY ConstantsAssumption DEF IInv, TypeOK, TaskIds, IdStages, Orders, ByEa,
      OneOrderPerTrade, Standing, ClaimExclusive, Parked, Unrecorded, Held,
      ClaimLost, CanClaim, CountFailure, Overrule, Opening, Finish, sigVars,
      taskVars, bookVars, histVars
<1> QED  BY <1>1, <1>2, <1>3, <1>4, <1>5, <1>6 DEF IInv

\* InsertActive preserves the invariant.
LEMMA InsertActiveStep ==
    ASSUME IInv, NEW p \in Tasks, NEW s \in Signals, InsertActive(p, s) PROVE IInv'
<1>1. TypeOK'
  BY ConstantsAssumption DEF IInv, TypeOK, TaskIds, InsertActive, Take,
      FreshIds, Held, sigVars, taskVars, bookVars, histVars
<1>2. TaskIds'
  BY ConstantsAssumption DEF IInv, TypeOK, TaskIds, InsertActive, Take,
      FreshIds, Held, sigVars, taskVars, bookVars, histVars
<1>3. IdStages'
  BY ConstantsAssumption DEF IInv, TypeOK, TaskIds, IdStages, InsertActive,
      Take, FreshIds, Held, sigVars, taskVars, bookVars, histVars
<1>4. Orders'
  BY ConstantsAssumption DEF IInv, TypeOK, TaskIds, IdStages, Orders, ByEa,
      OneOrderPerTrade, InsertActive, Take, FreshIds, Held, sigVars, taskVars,
      bookVars, histVars
<1>5. Standing'
  BY ConstantsAssumption DEF IInv, TypeOK, TaskIds, IdStages, Standing,
      ClaimExclusive, InsertActive, Take, FreshIds, Held, sigVars, taskVars,
      bookVars, histVars
<1>6. Parked'
  BY ConstantsAssumption DEF IInv, TypeOK, TaskIds, IdStages, Orders, ByEa,
      OneOrderPerTrade, Standing, ClaimExclusive, Parked, Unrecorded, Held,
      InsertActive, Take, FreshIds, sigVars, taskVars, bookVars, histVars
<1> QED  BY <1>1, <1>2, <1>3, <1>4, <1>5, <1>6 DEF IInv

\* Gates preserves the invariant.
LEMMA GatesStep ==
    ASSUME IInv, NEW p \in Tasks, Gates(p) PROVE IInv'
<1>1. TypeOK'
  BY ConstantsAssumption DEF IInv, TypeOK, TaskIds, Gates, Raise, Goto,
      sigVars, taskVars, bookVars, histVars
<1>2. TaskIds'
  BY ConstantsAssumption DEF IInv, TypeOK, TaskIds, Gates, Raise, Goto,
      sigVars, taskVars, bookVars, histVars
<1>3. IdStages'
  BY ConstantsAssumption DEF IInv, TypeOK, TaskIds, IdStages, Gates, Raise,
      Goto, sigVars, taskVars, bookVars, histVars
<1>4. Orders'
  BY ConstantsAssumption DEF IInv, TypeOK, TaskIds, IdStages, Orders, ByEa,
      OneOrderPerTrade, Gates, Raise, Goto, sigVars, taskVars, bookVars,
      histVars
<1>5. Standing'
  BY ConstantsAssumption DEF IInv, TypeOK, TaskIds, IdStages, Standing,
      ClaimExclusive, Gates, Raise, Goto, sigVars, taskVars, bookVars, histVars
<1>6. Parked'
  BY ConstantsAssumption DEF IInv, TypeOK, TaskIds, IdStages, Orders, ByEa,
      OneOrderPerTrade, Standing, ClaimExclusive, Parked, Unrecorded, Held,
      Gates, Raise, Goto, sigVars, taskVars, bookVars, histVars
<1> QED  BY <1>1, <1>2, <1>3, <1>4, <1>5, <1>6 DEF IInv

\* HandoffWithoutEa preserves the invariant.
LEMMA HandoffWithoutEaStep ==
    ASSUME IInv, NEW p \in Tasks, HandoffWithoutEa(p) PROVE IInv'
<1>1. TypeOK'
  BY ConstantsAssumption DEF IInv, TypeOK, TaskIds, HandoffWithoutEa, Raise,
      Goto, sigVars, taskVars, bookVars, histVars
<1>2. TaskIds'
  BY ConstantsAssumption DEF IInv, TypeOK, TaskIds, HandoffWithoutEa, Raise,
      Goto, sigVars, taskVars, bookVars, histVars
<1>3. IdStages'
  BY ConstantsAssumption DEF IInv, TypeOK, TaskIds, IdStages, HandoffWithoutEa,
      Raise, Goto, sigVars, taskVars, bookVars, histVars
<1>4. Orders'
  BY ConstantsAssumption DEF IInv, TypeOK, TaskIds, IdStages, Orders, ByEa,
      OneOrderPerTrade, HandoffWithoutEa, Raise, Goto, sigVars, taskVars,
      bookVars, histVars
<1>5. Standing'
  BY ConstantsAssumption DEF IInv, TypeOK, TaskIds, IdStages, Standing,
      ClaimExclusive, HandoffWithoutEa, Raise, Goto, sigVars, taskVars,
      bookVars, histVars
<1>6. Parked'
  BY ConstantsAssumption DEF IInv, TypeOK, TaskIds, IdStages, Orders, ByEa,
      OneOrderPerTrade, Standing, ClaimExclusive, Parked, Unrecorded, Held,
      HandoffWithoutEa, Raise, Goto, sigVars, taskVars, bookVars, histVars
<1> QED  BY <1>1, <1>2, <1>3, <1>4, <1>5, <1>6 DEF IInv

\* HandoffSend preserves the invariant.
LEMMA HandoffSendStep ==
    ASSUME IInv, NEW p \in Tasks, HandoffSend(p) PROVE IInv'
<1>1. TypeOK'
  BY ConstantsAssumption DEF IInv, TypeOK, TaskIds, HandoffSend, Goto, sigVars,
      taskVars, bookVars, histVars
<1>2. TaskIds'
  BY ConstantsAssumption DEF IInv, TypeOK, TaskIds, HandoffSend, Goto, sigVars,
      taskVars, bookVars, histVars
<1>3. IdStages'
  BY ConstantsAssumption DEF IInv, TypeOK, TaskIds, IdStages, HandoffSend,
      Goto, sigVars, taskVars, bookVars, histVars
<1>4. Orders'
  BY ConstantsAssumption DEF IInv, TypeOK, TaskIds, IdStages, Orders, ByEa,
      OneOrderPerTrade, HandoffSend, Goto, sigVars, taskVars, bookVars,
      histVars
<1>5. Standing'
  BY ConstantsAssumption DEF IInv, TypeOK, TaskIds, IdStages, Standing,
      ClaimExclusive, HandoffSend, Goto, sigVars, taskVars, bookVars, histVars
<1>6. Parked'
  BY ConstantsAssumption DEF IInv, TypeOK, TaskIds, IdStages, Orders, ByEa,
      OneOrderPerTrade, Standing, ClaimExclusive, Parked, Unrecorded, Held,
      HandoffSend, Goto, sigVars, taskVars, bookVars, histVars
<1> QED  BY <1>1, <1>2, <1>3, <1>4, <1>5, <1>6 DEF IInv

\* HandoffSendFails preserves the invariant.
LEMMA HandoffSendFailsStep ==
    ASSUME IInv, NEW p \in Tasks, HandoffSendFails(p) PROVE IInv'
<1>1. TypeOK'
  BY ConstantsAssumption DEF IInv, TypeOK, TaskIds, HandoffSendFails, Raise,
      Goto, sigVars, taskVars, bookVars, histVars
<1>2. TaskIds'
  BY ConstantsAssumption DEF IInv, TypeOK, TaskIds, HandoffSendFails, Raise,
      Goto, sigVars, taskVars, bookVars, histVars
<1>3. IdStages'
  BY ConstantsAssumption DEF IInv, TypeOK, TaskIds, IdStages, HandoffSendFails,
      Raise, Goto, sigVars, taskVars, bookVars, histVars
<1>4. Orders'
  BY ConstantsAssumption DEF IInv, TypeOK, TaskIds, IdStages, Orders, ByEa,
      OneOrderPerTrade, HandoffSendFails, Raise, Goto, sigVars, taskVars,
      bookVars, histVars
<1>5. Standing'
  BY ConstantsAssumption DEF IInv, TypeOK, TaskIds, IdStages, Standing,
      ClaimExclusive, HandoffSendFails, Raise, Goto, sigVars, taskVars,
      bookVars, histVars
<1>6. Parked'
  BY ConstantsAssumption DEF IInv, TypeOK, TaskIds, IdStages, Orders, ByEa,
      OneOrderPerTrade, Standing, ClaimExclusive, Parked, Unrecorded, Held,
      HandoffSendFails, Raise, Goto, sigVars, taskVars, bookVars, histVars
<1> QED  BY <1>1, <1>2, <1>3, <1>4, <1>5, <1>6 DEF IInv

\* EaAck preserves the invariant.
LEMMA EaAckStep ==
    ASSUME IInv, NEW p \in Tasks, EaAck(p) PROVE IInv'
<1>1. TypeOK'
  BY ConstantsAssumption DEF IInv, TypeOK, TaskIds, EaAck, Raise, Goto,
      sigVars, taskVars, bookVars, histVars
<1>2. TaskIds'
  BY ConstantsAssumption DEF IInv, TypeOK, TaskIds, EaAck, Raise, Goto,
      sigVars, taskVars, bookVars, histVars
<1>3. IdStages'
  BY ConstantsAssumption DEF IInv, TypeOK, TaskIds, IdStages, EaAck, Raise,
      Goto, sigVars, taskVars, bookVars, histVars
<1>4. Orders'
  BY ConstantsAssumption DEF IInv, TypeOK, TaskIds, IdStages, Orders, ByEa,
      OneOrderPerTrade, EaAck, Raise, Goto, sigVars, taskVars, bookVars,
      histVars
<1>5. Standing'
  BY ConstantsAssumption DEF IInv, TypeOK, TaskIds, IdStages, Standing,
      ClaimExclusive, EaAck, Raise, Goto, sigVars, taskVars, bookVars, histVars
<1>6. Parked'
  BY ConstantsAssumption DEF IInv, TypeOK, TaskIds, IdStages, Orders, ByEa,
      OneOrderPerTrade, Standing, ClaimExclusive, Parked, Unrecorded, Held,
      EaAck, Raise, Goto, sigVars, taskVars, bookVars, histVars
<1> QED  BY <1>1, <1>2, <1>3, <1>4, <1>5, <1>6 DEF IInv

\* EaTimeout preserves the invariant.
LEMMA EaTimeoutStep ==
    ASSUME IInv, NEW p \in Tasks, EaTimeout(p) PROVE IInv'
<1>1. TypeOK'
  BY ConstantsAssumption DEF IInv, TypeOK, TaskIds, EaTimeout, Goto, sigVars,
      taskVars, bookVars, histVars
<1>2. TaskIds'
  BY ConstantsAssumption DEF IInv, TypeOK, TaskIds, EaTimeout, Goto, sigVars,
      taskVars, bookVars, histVars
<1>3. IdStages'
  BY ConstantsAssumption DEF IInv, TypeOK, TaskIds, IdStages, EaTimeout, Goto,
      sigVars, taskVars, bookVars, histVars
<1>4. Orders'
  BY ConstantsAssumption DEF IInv, TypeOK, TaskIds, IdStages, Orders, ByEa,
      OneOrderPerTrade, EaTimeout, Goto, sigVars, taskVars, bookVars, histVars
<1>5. Standing'
  BY ConstantsAssumption DEF IInv, TypeOK, TaskIds, IdStages, Standing,
      ClaimExclusive, EaTimeout, Goto, sigVars, taskVars, bookVars, histVars
<1>6. Parked'
  BY ConstantsAssumption DEF IInv, TypeOK, TaskIds, IdStages, Orders, ByEa,
      OneOrderPerTrade, Standing, ClaimExclusive, Parked, Unrecorded, Held,
      EaTimeout, Goto, sigVars, taskVars, bookVars, histVars
<1> QED  BY <1>1, <1>2, <1>3, <1>4, <1>5, <1>6 DEF IInv

\* Ask preserves the invariant.
LEMMA AskStep ==
    ASSUME IInv, NEW p \in Tasks, Ask(p) PROVE IInv'
<1>1. TypeOK'
  BY ConstantsAssumption DEF IInv, TypeOK, TaskIds, Ask, BrokerHas, Raise,
      Goto, sigVars, taskVars, bookVars, histVars
<1>2. TaskIds'
  BY ConstantsAssumption DEF IInv, TypeOK, TaskIds, Ask, BrokerHas, Raise,
      Goto, sigVars, taskVars, bookVars, histVars
<1>3. IdStages'
  BY ConstantsAssumption DEF IInv, TypeOK, TaskIds, IdStages, Ask, BrokerHas,
      Raise, Goto, sigVars, taskVars, bookVars, histVars
<1>4. Orders'
  BY ConstantsAssumption DEF IInv, TypeOK, TaskIds, IdStages, Orders, ByEa,
      OneOrderPerTrade, Ask, BrokerHas, Raise, Goto, sigVars, taskVars,
      bookVars, histVars
<1>5. Standing'
  BY ConstantsAssumption DEF IInv, TypeOK, TaskIds, IdStages, Standing,
      ClaimExclusive, Ask, BrokerHas, Raise, Goto, sigVars, taskVars, bookVars,
      histVars
<1>6. Parked'
  BY ConstantsAssumption DEF IInv, TypeOK, TaskIds, IdStages, Orders, ByEa,
      OneOrderPerTrade, Standing, ClaimExclusive, Parked, Unrecorded, Held,
      Ask, BrokerHas, Raise, Goto, sigVars, taskVars, bookVars, histVars
<1> QED  BY <1>1, <1>2, <1>3, <1>4, <1>5, <1>6 DEF IInv

\* Place preserves the invariant.
LEMMA PlaceStep ==
    ASSUME IInv, NEW p \in Tasks, Place(p) PROVE IInv'
<1>1. TypeOK'
  BY ConstantsAssumption DEF IInv, TypeOK, TaskIds, Orders, ByEa,
      OneOrderPerTrade, Place, Raise, Goto, sigVars, taskVars, bookVars,
      histVars
<1>2. TaskIds'
  BY ConstantsAssumption DEF IInv, TypeOK, TaskIds, Place, Raise, Goto,
      sigVars, taskVars, bookVars, histVars
<1>3. IdStages'
  BY ConstantsAssumption DEF IInv, TypeOK, TaskIds, IdStages, Place, Raise,
      Goto, sigVars, taskVars, bookVars, histVars
<1>4. Orders'
  BY ConstantsAssumption DEF IInv, TypeOK, TaskIds, IdStages, Orders, ByEa,
      OneOrderPerTrade, Place, Raise, Goto, sigVars, taskVars, bookVars,
      histVars
<1>5. Standing'
  BY ConstantsAssumption DEF IInv, TypeOK, TaskIds, IdStages, Standing,
      ClaimExclusive, Place, Raise, Goto, sigVars, taskVars, bookVars, histVars
<1>6. Parked'
  BY ConstantsAssumption DEF IInv, TypeOK, TaskIds, IdStages, Orders, ByEa,
      OneOrderPerTrade, Standing, ClaimExclusive, Parked, Unrecorded, Held,
      Place, Raise, Goto, sigVars, taskVars, bookVars, histVars
<1> QED  BY <1>1, <1>2, <1>3, <1>4, <1>5, <1>6 DEF IInv

\* Record preserves the invariant.
LEMMA RecordStep ==
    ASSUME IInv, NEW p \in Tasks, Record(p) PROVE IInv'
<1>1. TypeOK'
  BY ConstantsAssumption DEF IInv, TypeOK, TaskIds, Record, Finish, sigVars,
      taskVars, bookVars, histVars
<1>2. TaskIds'
  BY ConstantsAssumption DEF IInv, TypeOK, TaskIds, Record, Finish, sigVars,
      taskVars, bookVars, histVars
<1>3. IdStages'
  BY ConstantsAssumption DEF IInv, TypeOK, TaskIds, IdStages, Record, Finish,
      sigVars, taskVars, bookVars, histVars
<1>4. Orders'
  BY ConstantsAssumption DEF IInv, TypeOK, TaskIds, IdStages, Orders, ByEa,
      OneOrderPerTrade, Record, Finish, sigVars, taskVars, bookVars, histVars
<1>5. Standing'
  BY ConstantsAssumption DEF IInv, TypeOK, TaskIds, IdStages, Standing,
      ClaimExclusive, Record, Finish, sigVars, taskVars, bookVars, histVars
<1>6. Parked'
  BY ConstantsAssumption DEF IInv, TypeOK, TaskIds, IdStages, Orders, ByEa,
      OneOrderPerTrade, Standing, ClaimExclusive, Parked, Unrecorded, Held,
      Record, Finish, sigVars, taskVars, bookVars, histVars
<1> QED  BY <1>1, <1>2, <1>3, <1>4, <1>5, <1>6 DEF IInv

\* RecordThenFails preserves the invariant.
LEMMA RecordThenFailsStep ==
    ASSUME IInv, NEW p \in Tasks, RecordThenFails(p) PROVE IInv'
<1>1. TypeOK'
  BY ConstantsAssumption DEF IInv, TypeOK, TaskIds, RecordThenFails, CountFailure,
      Overrule, Opening, Finish, sigVars,
      taskVars, bookVars, histVars
<1>2. TaskIds'
  BY ConstantsAssumption DEF IInv, TypeOK, TaskIds, RecordThenFails, CountFailure,
      Overrule, Opening, Finish, sigVars,
      taskVars, bookVars, histVars
<1>3. IdStages'
  BY ConstantsAssumption DEF IInv, TypeOK, TaskIds, IdStages, RecordThenFails, CountFailure,
      Overrule, Opening, Finish,
      sigVars, taskVars, bookVars, histVars
<1>4. Orders'
  BY ConstantsAssumption DEF IInv, TypeOK, TaskIds, IdStages, Orders, ByEa,
      OneOrderPerTrade, RecordThenFails, CountFailure,
      Overrule, Opening, Finish, sigVars, taskVars, bookVars, histVars
<1>5. Standing'
  BY ConstantsAssumption DEF IInv, TypeOK, TaskIds, IdStages, Standing,
      ClaimExclusive, RecordThenFails, CountFailure,
      Overrule, Opening, Finish, sigVars, taskVars, bookVars, histVars
<1>6. Parked'
  BY ConstantsAssumption DEF IInv, TypeOK, TaskIds, IdStages, Orders, ByEa,
      OneOrderPerTrade, Standing, ClaimExclusive, Parked, Unrecorded, Held,
      RecordThenFails, CountFailure,
      Overrule, Opening, Finish, sigVars, taskVars, bookVars, histVars
<1> QED  BY <1>1, <1>2, <1>3, <1>4, <1>5, <1>6 DEF IInv

\* FailDirect preserves the invariant.
LEMMA FailDirectStep ==
    ASSUME IInv, NEW p \in Tasks, FailDirect(p) PROVE IInv'
<1>1. TypeOK'
  BY ConstantsAssumption DEF IInv, TypeOK, TaskIds, FailDirect, Routed, Park,
      Restore, Finish, sigVars, taskVars, bookVars, histVars
<1>2. TaskIds'
  BY ConstantsAssumption DEF IInv, TypeOK, TaskIds, FailDirect, Routed, Park,
      Restore, Finish, sigVars, taskVars, bookVars, histVars
<1>3. IdStages'
  BY ConstantsAssumption DEF IInv, TypeOK, TaskIds, IdStages, FailDirect,
      Routed, Park, Restore, Finish, sigVars, taskVars, bookVars, histVars
<1>4. Orders'
  BY ConstantsAssumption DEF IInv, TypeOK, TaskIds, IdStages, Orders, ByEa,
      OneOrderPerTrade, FailDirect, Routed, Park, Restore, Finish, sigVars,
      taskVars, bookVars, histVars
<1>5. Standing'
  BY ConstantsAssumption DEF IInv, TypeOK, TaskIds, IdStages, Standing,
      ClaimExclusive, FailDirect, Routed, Park, Restore, Finish, sigVars,
      taskVars, bookVars, histVars
<1>6. Parked'
  BY ConstantsAssumption DEF IInv, TypeOK, TaskIds, IdStages, Orders, ByEa,
      OneOrderPerTrade, Standing, ClaimExclusive, Parked, Unrecorded, Held,
      FailDirect, Routed, Park, Restore, Finish, sigVars, taskVars, bookVars,
      histVars
<1> QED  BY <1>1, <1>2, <1>3, <1>4, <1>5, <1>6 DEF IInv

\* FailWatcher preserves the invariant.
LEMMA FailWatcherStep ==
    ASSUME IInv, NEW p \in Tasks, FailWatcher(p) PROVE IInv'
<1>1. TypeOK'
  BY ConstantsAssumption DEF IInv, TypeOK, TaskIds, FailWatcher, Routed, Park,
      Restore, CountFailure, Overrule, Opening, Finish, sigVars, taskVars,
      bookVars, histVars
<1>2. TaskIds'
  BY ConstantsAssumption DEF IInv, TypeOK, TaskIds, FailWatcher, Routed, Park,
      Restore, CountFailure, Overrule, Opening, Finish, sigVars, taskVars,
      bookVars, histVars
<1>3. IdStages'
  BY ConstantsAssumption DEF IInv, TypeOK, TaskIds, IdStages, FailWatcher,
      Routed, Park, Restore, CountFailure, Overrule, Opening, Finish, sigVars,
      taskVars, bookVars, histVars
<1>4. Orders'
  BY ConstantsAssumption DEF IInv, TypeOK, TaskIds, IdStages, Orders, ByEa,
      OneOrderPerTrade, FailWatcher, Routed, Park, Restore, CountFailure,
      Overrule, Opening, Finish, sigVars, taskVars, bookVars, histVars
<1>5. Standing'
  BY ConstantsAssumption DEF IInv, TypeOK, TaskIds, IdStages, Standing,
      ClaimExclusive, FailWatcher, Routed, Park, Restore, CountFailure,
      Overrule, Opening, Finish, sigVars, taskVars, bookVars, histVars
<1>6. Parked'
  BY ConstantsAssumption DEF IInv, TypeOK, TaskIds, IdStages, Orders, ByEa,
      OneOrderPerTrade, Standing, ClaimExclusive, Parked, Unrecorded, Held,
      FailWatcher, Routed, Park, Restore, CountFailure, Overrule, Opening,
      Finish, sigVars, taskVars, bookVars, histVars
<1> QED  BY <1>1, <1>2, <1>3, <1>4, <1>5, <1>6 DEF IInv

\* FailScan preserves the invariant.
LEMMA FailScanStep ==
    ASSUME IInv, NEW p \in Tasks, FailScan(p) PROVE IInv'
<1>1. TypeOK'
  BY ConstantsAssumption DEF IInv, TypeOK, TaskIds, FailScan, Park, Reset,
      Finish, sigVars, taskVars, bookVars, histVars
<1>2. TaskIds'
  BY ConstantsAssumption DEF IInv, TypeOK, TaskIds, FailScan, Park, Reset,
      Finish, sigVars, taskVars, bookVars, histVars
<1>3. IdStages'
  BY ConstantsAssumption DEF IInv, TypeOK, TaskIds, IdStages, FailScan,
      Park, Reset, Finish, sigVars, taskVars, bookVars, histVars
<1>4. Orders'
  BY ConstantsAssumption DEF IInv, TypeOK, TaskIds, IdStages, Orders, ByEa,
      OneOrderPerTrade, FailScan, Park, Reset, Finish, sigVars, taskVars,
      bookVars, histVars
<1>5. Standing'
  BY ConstantsAssumption DEF IInv, TypeOK, TaskIds, IdStages, Standing,
      ClaimExclusive, FailScan, Park, Reset, Finish, sigVars, taskVars,
      bookVars, histVars
<1>6. Parked'
  BY ConstantsAssumption DEF IInv, TypeOK, TaskIds, IdStages, Orders, ByEa,
      OneOrderPerTrade, Standing, ClaimExclusive, Parked, Unrecorded, Held,
      FailScan, Park, Reset, Finish, sigVars, taskVars, bookVars, histVars
<1> QED  BY <1>1, <1>2, <1>3, <1>4, <1>5, <1>6 DEF IInv

\* FailImmediate preserves the invariant.
LEMMA FailImmediateStep ==
    ASSUME IInv, NEW p \in Tasks, FailImmediate(p) PROVE IInv'
<1>1. TypeOK'
  BY ConstantsAssumption DEF IInv, TypeOK, TaskIds, FailImmediate,
      Finish, sigVars, taskVars, bookVars, histVars
<1>2. TaskIds'
  BY ConstantsAssumption DEF IInv, TypeOK, TaskIds, FailImmediate,
      Finish, sigVars, taskVars, bookVars, histVars
<1>3. IdStages'
  BY ConstantsAssumption DEF IInv, TypeOK, TaskIds, IdStages, FailImmediate,
      Finish, sigVars, taskVars, bookVars, histVars
<1>4. Orders'
  BY ConstantsAssumption DEF IInv, TypeOK, TaskIds, IdStages, Orders, ByEa,
      OneOrderPerTrade, FailImmediate, Finish, sigVars, taskVars,
      bookVars, histVars
<1>5. Standing'
  BY ConstantsAssumption DEF IInv, TypeOK, TaskIds, IdStages, Standing,
      ClaimExclusive, FailImmediate, Finish, sigVars, taskVars,
      bookVars, histVars
<1>6. Parked'
  BY ConstantsAssumption DEF IInv, TypeOK, TaskIds, IdStages, Orders, ByEa,
      OneOrderPerTrade, Standing, ClaimExclusive, Parked, Unrecorded, Held,
      FailImmediate, Finish, sigVars, taskVars, bookVars, histVars
<1> QED  BY <1>1, <1>2, <1>3, <1>4, <1>5, <1>6 DEF IInv

\* FailLeft preserves the invariant.
LEMMA FailLeftStep ==
    ASSUME IInv, NEW p \in Tasks, FailLeft(p) PROVE IInv'
<1>1. TypeOK'
  BY ConstantsAssumption DEF IInv, TypeOK, TaskIds, FailLeft,
      Finish, sigVars, taskVars, bookVars, histVars
<1>2. TaskIds'
  BY ConstantsAssumption DEF IInv, TypeOK, TaskIds, FailLeft,
      Finish, sigVars, taskVars, bookVars, histVars
<1>3. IdStages'
  BY ConstantsAssumption DEF IInv, TypeOK, TaskIds, IdStages, FailLeft,
      Finish, sigVars, taskVars, bookVars, histVars
<1>4. Orders'
  BY ConstantsAssumption DEF IInv, TypeOK, TaskIds, IdStages, Orders, ByEa,
      OneOrderPerTrade, FailLeft, Finish, sigVars, taskVars,
      bookVars, histVars
<1>5. Standing'
  BY ConstantsAssumption DEF IInv, TypeOK, TaskIds, IdStages, Standing,
      ClaimExclusive, FailLeft, Finish, sigVars, taskVars,
      bookVars, histVars
<1>6. Parked'
  BY ConstantsAssumption DEF IInv, TypeOK, TaskIds, IdStages, Orders, ByEa,
      OneOrderPerTrade, Standing, ClaimExclusive, Parked, Unrecorded, Held,
      FailLeft, Finish, sigVars, taskVars, bookVars, histVars
<1> QED  BY <1>1, <1>2, <1>3, <1>4, <1>5, <1>6 DEF IInv

\* BotWaits preserves the invariant.
LEMMA BotWaitsStep ==
    ASSUME IInv, NEW p \in Tasks, BotWaits(p) PROVE IInv'
<1>1. TypeOK'
  BY ConstantsAssumption DEF IInv, TypeOK, TaskIds, BotWaits,
      Finish, sigVars, taskVars, bookVars, histVars
<1>2. TaskIds'
  BY ConstantsAssumption DEF IInv, TypeOK, TaskIds, BotWaits,
      Finish, sigVars, taskVars, bookVars, histVars
<1>3. IdStages'
  BY ConstantsAssumption DEF IInv, TypeOK, TaskIds, IdStages, BotWaits,
      Finish, sigVars, taskVars, bookVars, histVars
<1>4. Orders'
  BY ConstantsAssumption DEF IInv, TypeOK, TaskIds, IdStages, Orders, ByEa,
      OneOrderPerTrade, BotWaits, Finish, sigVars, taskVars,
      bookVars, histVars
<1>5. Standing'
  BY ConstantsAssumption DEF IInv, TypeOK, TaskIds, IdStages, Standing,
      ClaimExclusive, BotWaits, Finish, sigVars, taskVars,
      bookVars, histVars
<1>6. Parked'
  BY ConstantsAssumption DEF IInv, TypeOK, TaskIds, IdStages, Orders, ByEa,
      OneOrderPerTrade, Standing, ClaimExclusive, Parked, Unrecorded, Held,
      BotWaits, Finish, sigVars, taskVars, bookVars, histVars
<1> QED  BY <1>1, <1>2, <1>3, <1>4, <1>5, <1>6 DEF IInv

\* Crash preserves the invariant.
LEMMA CrashStep ==
    ASSUME IInv, Crash PROVE IInv'
<1>1. TypeOK'
  BY ConstantsAssumption DEF IInv, TypeOK, TaskIds, Crash, Held, sigVars,
      taskVars, bookVars, histVars
<1>2. TaskIds'
  BY ConstantsAssumption DEF IInv, TypeOK, TaskIds, Crash, Held, sigVars,
      taskVars, bookVars, histVars
<1>3. IdStages'
  BY ConstantsAssumption DEF IInv, TypeOK, TaskIds, IdStages, Crash, Held,
      sigVars, taskVars, bookVars, histVars
<1>4. Orders'
  BY ConstantsAssumption DEF IInv, TypeOK, TaskIds, IdStages, Orders, ByEa,
      OneOrderPerTrade, Crash, Held, sigVars, taskVars, bookVars, histVars
<1>5. Standing'
  BY ConstantsAssumption DEF IInv, TypeOK, TaskIds, IdStages, Standing,
      ClaimExclusive, Crash, Held, sigVars, taskVars, bookVars, histVars
<1>6. Parked'
  BY ConstantsAssumption DEF IInv, TypeOK, TaskIds, IdStages, Orders, ByEa,
      OneOrderPerTrade, Standing, ClaimExclusive, Parked, Unrecorded, Held,
      Crash, sigVars, taskVars, bookVars, histVars
<1> QED  BY <1>1, <1>2, <1>3, <1>4, <1>5, <1>6 DEF IInv

-----------------------------------------------------------------------------
\* The invariant holds initially.
LEMMA InitIInv == Init => IInv
  BY ConstantsAssumption DEF Init, IInv, TypeOK, TaskIds, IdStages, Orders, ByEa,
     OneOrderPerTrade, Standing, ClaimExclusive, Parked, Unrecorded

\* A stuttering step keeps it.
LEMMA StutterIInv == IInv /\ UNCHANGED vars => IInv'
<1> SUFFICES ASSUME IInv, UNCHANGED vars PROVE IInv'
  OBVIOUS
<1>1. TypeOK' /\ TaskIds' /\ IdStages'
  BY DEF IInv, TypeOK, TaskIds, IdStages, vars
<1>2. Orders'
  BY DEF IInv, Orders, ByEa, OneOrderPerTrade, vars
<1>3. Standing'
  BY DEF IInv, Standing, ClaimExclusive, vars
<1>4. Parked'
  BY DEF IInv, Parked, Unrecorded, Held, vars
<1> QED  BY <1>1, <1>2, <1>3, <1>4 DEF IInv

\* Every step of every task, of the EA, of the operator and of the sweep.
LEMMA NextIInv == IInv /\ [Next]_vars => IInv'
<1> SUFFICES ASSUME IInv, Next PROVE IInv'
  BY StutterIInv
<1>1. CASE \E s \in Signals : CreateSignal(s) \/ Cancel(s) \/ Release(s)
  BY <1>1, CreateSignalStep, CancelStep, ReleaseStep
<1>2. CASE \E t \in Trades : Close(t) \/ EaExecute(t)
  BY <1>2, CloseStep, EaExecuteStep
<1>3. CASE \E p \in Tasks : WatcherScan(p) \/ WatcherPass(p) \/ Start(p)
  BY <1>3, WatcherScanStep, WatcherExpireStep, WatcherSkipStep,
     WatcherMarkActivatedStep, WatcherOpenStep, DirectOpenStep, InsertActiveStep
     DEF WatcherPass, Start, ScanOpen, GridOpen, ImmediateEntry, ManualMarketOrder,
         BotActivate
<1>4. CASE \E p \in Tasks : Continue(p)
  BY <1>4, ClaimWonStep, ClaimLostStep, GatesStep, HandoffWithoutEaStep,
     HandoffSendStep, HandoffSendFailsStep, EaAckStep, EaTimeoutStep, AskStep,
     PlaceStep, RecordStep, RecordThenFailsStep, FailDirectStep, FailWatcherStep, FailScanStep,
     FailImmediateStep, FailLeftStep, BotWaitsStep
     DEF Continue
<1>5. CASE Crash
  BY <1>5, CrashStep
<1> QED  BY <1>1, <1>2, <1>3, <1>4, <1>5 DEF Next

\* The invariant holds in every reachable state.
LEMMA InvariantHolds == Spec => []IInv
  BY InitIInv, NextIInv, PTL DEF Spec

\* Every variable keeps its type; in particular an id is never behind more than
\* two orders, and the watcher never counts past its attempt budget.
THEOREM TypeCorrect == Spec => []TypeOK
<1>1. IInv => TypeOK
  BY DEF IInv
<1> QED  BY <1>1, InvariantHolds, PTL

\* claim_signal_activation admits one opener per signal at a time, for any
\* number of tasks and routes.
THEOREM ClaimIsExclusive == Spec => []ClaimExclusive
<1>1. IInv => ClaimExclusive
  BY DEF IInv, Standing
<1> QED  BY <1>1, InvariantHolds, PTL

\* _resolve_fallback_send never lets one trade id be on the book twice unless
\* the EA acted after the broker had answered.
THEOREM FallbackDoesNotDuplicate == Spec => []OneOrderPerTrade
<1>1. IInv => OneOrderPerTrade
  BY DEF IInv, Orders
<1> QED  BY <1>1, InvariantHolds, PTL

\* No failure handler hands back a signal that has an order nobody recorded,
\* unless the EA acted late or the process died.
THEOREM RequeueIsClean == Spec => []RequeuedIsClean
<1>1. IInv => RequeuedIsClean
  BY DEF IInv, Parked, Unrecorded, RequeuedIsClean
<1> QED  BY <1>1, InvariantHolds, PTL

\* A parked signal is never put back in play by a step of this program.
LEMMA UnknownStep ==
    ASSUME IInv, Next, NEW s \in Signals, status[s] = "unknown"
    PROVE  status'[s] \notin {"pending", "activating", "active"}
<1> USE DEF IInv, TypeOK
<1>1. ASSUME NEW r \in Signals, CreateSignal(r) \/ Cancel(r) \/ Release(r)
      PROVE  status'[s] \notin {"pending", "activating", "active"}
  BY <1>1 DEF CreateSignal, Cancel, Release
<1>2. ASSUME NEW t \in Trades, Close(t) \/ EaExecute(t)
      PROVE  status'[s] \notin {"pending", "activating", "active"}
  BY <1>2 DEF Close, EaExecute, sigVars
<1>3. ASSUME NEW p \in Tasks, WatcherScan(p) \/ WatcherPass(p) \/ Start(p)
      PROVE  status'[s] \notin {"pending", "activating", "active"}
  BY <1>3 DEF WatcherScan, WatcherPass, WatcherExpire, WatcherSkip,
     WatcherMarkActivated, WatcherOpen, CountFailure, Start, DirectOpen,
     ScanOpen, GridOpen, ImmediateEntry, ManualMarketOrder, BotActivate,
     InsertActive, sigVars
<1>4. ASSUME NEW p \in Tasks, Continue(p)
      PROVE  status'[s] \notin {"pending", "activating", "active"}
  <2>1. CASE ClaimWon(p) \/ ClaimLost(p)
    BY <2>1 DEF ClaimWon, CanClaim, ClaimLost, CountFailure
  <2>2. CASE \/ Gates(p) \/ HandoffWithoutEa(p) \/ HandoffSend(p) \/ HandoffSendFails(p)
             \/ EaAck(p) \/ EaTimeout(p) \/ Ask(p) \/ Place(p)
    BY <2>2 DEF Gates, HandoffWithoutEa, HandoffSend, HandoffSendFails, EaAck,
       EaTimeout, Ask, Place, sigVars
  <2>3. CASE Record(p) \/ RecordThenFails(p)
    \* a task that is about to record is opening a signal that is not parked
    <3>1. KindOf[p] \in Kinds /\ job[p] # s
      BY <2>3, ConstantsAssumption DEF Record, RecordThenFails, Standing
    <3> QED  BY <2>3, <3>1 DEF Record, RecordThenFails, CountFailure
  <2>4. CASE FailDirect(p) \/ FailWatcher(p) \/ FailScan(p) \/ FailImmediate(p) \/ FailLeft(p)
    BY <2>4 DEF FailDirect, FailWatcher, FailScan, FailImmediate, FailLeft, Routed,
       Park, Restore, Reset, CountFailure
  <2>5. CASE BotWaits(p)
    \* the bot's own row is 'active' until its open has failed or is recorded
    <3>1. KindOf[p] \in Kinds /\ job[p] # s
      BY <2>5, ConstantsAssumption DEF BotWaits, Standing
    <3> QED  BY <2>5, <3>1 DEF BotWaits
  <2> QED  BY <1>4, <2>1, <2>2, <2>3, <2>4, <2>5 DEF Continue
<1>5. ASSUME Crash
      PROVE  status'[s] \notin {"pending", "activating", "active"}
  BY <1>5 DEF Crash
<1> QED  BY <1>1, <1>2, <1>3, <1>4, <1>5 DEF Next

\* park_signal_unknown is one-way for every actor: neither the sweep, nor a
\* failure handler, nor a claim, nor a late row insert revives the signal.
THEOREM UnknownIsOneWay == Spec => UnknownNeverRequeued
<1>1. IInv /\ [Next]_vars => [\A s \in Signals : status[s] = "unknown"
          => status'[s] \notin {"pending", "activating", "active"}]_vars
  BY UnknownStep
<1> QED  BY <1>1, InvariantHolds, PTL DEF Spec, UnknownNeverRequeued

-----------------------------------------------------------------------------
(* The cap.  Budget is what the claim's WHERE clause maintains: rows and     *)
(* claims together fit.  Kept ties it to the tasks: an open that nobody      *)
(* overruled still has its claim, so counting claims counts it.              *)

Kept == \A p \in Tasks : pc[p] \in InFlightPcs \ {"failed"} /\ tid[p] \notin uncharged
            => status[job[p]] = "activating"

Budget == /\ IsFiniteSet(OpenRows) /\ IsFiniteSet(Claims)
          /\ Cardinality(ChargedRows) + Cardinality(Claims) <= Cap

\* No step takes the claim of a task that goes on opening its signal without
\* noting the task's id as uncharged.
LEMMA KeptStep ==
    ASSUME IInv, Kept, Next PROVE Kept'
<1> USE ConstantsAssumption DEF IInv, TypeOK, TaskIds, Kept
<1>1. ASSUME NEW s \in Signals, CreateSignal(s) \/ Cancel(s) \/ Release(s)
      PROVE  Kept'
  BY <1>1 DEF CreateSignal, Cancel, Release, Overrule, Opening, taskVars, histVars
<1>2. ASSUME NEW t \in Trades, Close(t) PROVE Kept'
  BY <1>2 DEF Close, Overrule, Opening, taskVars
<1>3. ASSUME NEW t \in Trades, EaExecute(t) PROVE Kept'
  BY <1>3 DEF EaExecute, sigVars, taskVars
<1>4. ASSUME NEW p \in Tasks, NEW s \in Signals,
             WatcherExpire(p, s) \/ WatcherSkip(p, s) \/ WatcherMarkActivated(p, s)
      PROVE  Kept'
  BY <1>4 DEF WatcherExpire, WatcherSkip, WatcherMarkActivated, Overrule, Opening,
     taskVars, histVars
<1>5. ASSUME NEW p \in Tasks, NEW s \in Signals, WatcherOpen(p, s) PROVE Kept'
  <2>1. CASE UNCHANGED taskVars
    BY <1>5, <2>1 DEF WatcherOpen, CountFailure, Overrule, Opening, taskVars, histVars,
       Take
  <2>2. CASE ~UNCHANGED taskVars
    BY <1>5, <2>2 DEF WatcherOpen, Take, histVars
  <2> QED  BY <2>1, <2>2
<1>6. ASSUME NEW p \in Tasks, NEW s \in Signals, DirectOpen(p, s) \/ InsertActive(p, s)
      PROVE  Kept'
  BY <1>6 DEF DirectOpen, InsertActive, Take, sigVars, histVars, Standing
<1>7. ASSUME NEW p \in Tasks, ClaimWon(p) PROVE Kept'
  BY <1>7 DEF ClaimWon, Goto, histVars
<1>8. ASSUME NEW p \in Tasks, ClaimLost(p) PROVE Kept'
  BY <1>8 DEF ClaimLost, CountFailure, Finish, Overrule, Opening, histVars
<1>9. ASSUME NEW p \in Tasks,
             \/ Gates(p) \/ HandoffWithoutEa(p) \/ HandoffSend(p) \/ HandoffSendFails(p)
             \/ EaAck(p) \/ EaTimeout(p) \/ Ask(p) \/ Place(p)
      PROVE  Kept'
  BY <1>9 DEF Gates, HandoffWithoutEa, HandoffSend, HandoffSendFails, EaAck, EaTimeout,
     Ask, Place, Goto, Raise, sigVars, histVars
<1>10. ASSUME NEW p \in Tasks,
              \/ Record(p) \/ FailDirect(p) \/ FailScan(p) \/ FailImmediate(p)
              \/ FailLeft(p) \/ BotWaits(p)
       PROVE  Kept'
  \* the task was the only one to open its signal
  <2>1. \A q \in Tasks : q # p /\ pc[q] \in InFlightPcs => job[q] # job[p]
    BY <1>10 DEF Standing, ClaimExclusive, Record, FailDirect, FailScan, FailImmediate,
       FailLeft, BotWaits
  <2> QED  BY <1>10, <2>1 DEF Record, FailDirect, FailScan, FailImmediate, FailLeft,
              BotWaits, Finish, Routed, histVars
<1>11. ASSUME NEW p \in Tasks, FailWatcher(p) \/ RecordThenFails(p) PROVE Kept'
  <2>1. \A q \in Tasks : q # p /\ pc[q] \in InFlightPcs => job[q] # job[p]
    BY <1>11 DEF Standing, ClaimExclusive, FailWatcher, RecordThenFails
  <2> QED  BY <1>11, <2>1 DEF FailWatcher, RecordThenFails, CountFailure, Finish, Routed, Overrule,
              Opening, histVars
<1>12. CASE Crash
  BY <1>12 DEF Crash
<1>13. ASSUME NEW p \in Tasks, WatcherScan(p) PROVE Kept'
  BY <1>13 DEF WatcherScan, taskVars, histVars
<1> HIDE DEF IInv, Kept
<1> QED  BY <1>1, <1>2, <1>3, <1>4, <1>5, <1>6, <1>7, <1>8, <1>9, <1>10, <1>11, <1>12,
            <1>13
            DEF Next, WatcherPass, Start, Continue, ScanOpen, GridOpen, ImmediateEntry,
                ManualMarketOrder, BotActivate

\* Only a won claim and a recorded open move the budget up; everything else
\* leaves fewer rows, fewer claims or more uncharged ids.
LEMMA BudgetMoves ==
    ASSUME IInv, Next, ~\E p \in Tasks : ClaimWon(p) \/ Record(p) \/ RecordThenFails(p)
    PROVE  /\ OpenRows' \subseteq OpenRows /\ Claims' \subseteq Claims
           /\ uncharged \subseteq uncharged'
<1> DEFINE Shrinks == /\ OpenRows' \subseteq OpenRows /\ Claims' \subseteq Claims
                      /\ uncharged \subseteq uncharged'
<1> USE DEF IInv, TypeOK, OpenRows, Claims
<1>1. ASSUME NEW s \in Signals, CreateSignal(s) \/ Cancel(s) \/ Release(s)
      PROVE  Shrinks
  BY <1>1 DEF CreateSignal, Cancel, Release, Overrule, bookVars, histVars
<1>2. ASSUME NEW t \in Trades, Close(t) \/ EaExecute(t) PROVE Shrinks
  BY <1>2 DEF Close, EaExecute, Overrule, sigVars
<1>3. ASSUME NEW p \in Tasks, WatcherScan(p) \/ WatcherPass(p) \/ Start(p) PROVE Shrinks
  BY <1>3 DEF WatcherScan, WatcherPass, WatcherExpire, WatcherSkip,
     WatcherMarkActivated, WatcherOpen, CountFailure, Overrule, Start, DirectOpen,
     ScanOpen, GridOpen, ImmediateEntry, ManualMarketOrder, BotActivate,
     InsertActive, sigVars, bookVars, histVars
<1>4. ASSUME NEW p \in Tasks, Continue(p) PROVE Shrinks
  <2>1. CASE ClaimLost(p) \/ FailWatcher(p)
    BY <2>1 DEF ClaimLost, FailWatcher, Routed, Park, Restore, CountFailure, Overrule,
       bookVars, histVars
  <2>2. CASE \/ Gates(p) \/ HandoffWithoutEa(p) \/ HandoffSend(p) \/ HandoffSendFails(p)
             \/ EaAck(p) \/ EaTimeout(p) \/ Ask(p) \/ Place(p)
    BY <2>2 DEF Gates, HandoffWithoutEa, HandoffSend, HandoffSendFails, EaAck,
       EaTimeout, Ask, Place, sigVars, bookVars, histVars
  <2>3. CASE \/ FailDirect(p) \/ FailScan(p) \/ FailImmediate(p) \/ FailLeft(p)
             \/ BotWaits(p)
    BY <2>3 DEF FailDirect, FailScan, FailImmediate, FailLeft, BotWaits, Routed, Park,
       Restore, Reset, bookVars, histVars
  <2> QED  BY <1>4, <2>1, <2>2, <2>3 DEF Continue
<1>5. CASE Crash
  BY <1>5 DEF Crash, bookVars
<1> QED  BY <1>1, <1>2, <1>3, <1>4, <1>5 DEF Next

\* A step that moves nothing up keeps the budget.
LEMMA BudgetShrinks ==
    ASSUME Budget, OpenRows' \subseteq OpenRows, Claims' \subseteq Claims,
           uncharged \subseteq uncharged'
    PROVE  Budget'
<1>1. IsFiniteSet(OpenRows') /\ IsFiniteSet(Claims')
  BY FS_Subset DEF Budget
<1>2. IsFiniteSet(ChargedRows) /\ IsFiniteSet(ChargedRows')
  BY <1>1, FS_Subset DEF Budget, ChargedRows
<1>3. ChargedRows' \subseteq ChargedRows
  BY DEF ChargedRows
<1>4. Cardinality(ChargedRows') <= Cardinality(ChargedRows)
  BY <1>2, <1>3, FS_Subset
<1>5. Cardinality(Claims') <= Cardinality(Claims)
  BY FS_Subset DEF Budget
<1>6. /\ Cardinality(ChargedRows') \in Nat /\ Cardinality(ChargedRows) \in Nat
      /\ Cardinality(Claims') \in Nat /\ Cardinality(Claims) \in Nat
  BY <1>1, <1>2, FS_CardinalityType DEF Budget
<1> QED  BY <1>1, <1>4, <1>5, <1>6, ConstantsAssumption DEF Budget

\* claim_signal_activation adds one claim, and only below the cap.
LEMMA BudgetClaim ==
    ASSUME IInv, Budget, NEW p \in Tasks, ClaimWon(p) PROVE Budget'
<1>1. /\ job[p] \in Signals /\ NoSignal \notin Signals
      /\ OpenRows' = OpenRows /\ uncharged' = uncharged
      /\ Claims' = Claims \cup {job[p]}
      /\ SlotsUsed(NoSignal) < Cap
  BY ConstantsAssumption DEF IInv, TypeOK, TaskIds, ClaimWon, CanClaim, OpenRows, Claims,
     bookVars, histVars
<1>2. Claims \ {NoSignal} = Claims
  BY <1>1 DEF Claims
<1>3. Cardinality(OpenRows) + Cardinality(Claims) < Cap
  BY <1>1, <1>2 DEF SlotsUsed
<1>4. /\ IsFiniteSet(Claims \cup {job[p]})
      /\ Cardinality(Claims \cup {job[p]}) <= Cardinality(Claims) + 1
      /\ Cardinality(Claims) \in Nat /\ Cardinality(OpenRows) \in Nat
      /\ Cardinality(Claims \cup {job[p]}) \in Nat
  <2>1. /\ IsFiniteSet(Claims \cup {job[p]})
        /\ Cardinality(Claims \cup {job[p]})
             = IF job[p] \in Claims THEN Cardinality(Claims) ELSE Cardinality(Claims) + 1
    BY FS_AddElement DEF Budget
  <2>2. Cardinality(Claims) \in Nat /\ Cardinality(OpenRows) \in Nat
    BY FS_CardinalityType DEF Budget
  <2> QED  BY <2>1, <2>2
<1>5. /\ ChargedRows' \subseteq OpenRows
      /\ IsFiniteSet(ChargedRows') /\ Cardinality(ChargedRows') <= Cardinality(OpenRows)
  BY <1>1, FS_Subset DEF ChargedRows, Budget
<1>6. Cardinality(ChargedRows') \in Nat
  BY <1>5, FS_CardinalityType
<1>7. Cardinality(ChargedRows') + Cardinality(Claims') <= Cap
  BY <1>1, <1>3, <1>4, <1>5, <1>6, ConstantsAssumption
<1> QED  BY <1>1, <1>4, <1>7 DEF Budget

\* insert_trade_and_activate_signal turns the open's claim into its row.
LEMMA BudgetRecord ==
    ASSUME IInv, Kept, Budget, NEW p \in Tasks, Record(p) \/ RecordThenFails(p)
    PROVE  Budget'
<1>1. /\ tid[p] \in Trades /\ job[p] \in Signals
      /\ OpenRows' = OpenRows \cup {tid[p]} /\ uncharged \subseteq uncharged'
      /\ Claims' = Claims \ {job[p]}
  BY DEF IInv, TypeOK, TaskIds, Record, RecordThenFails, CountFailure, Overrule,
     OpenRows, Claims, histVars
<1>2. /\ IsFiniteSet(OpenRows') /\ IsFiniteSet(Claims') /\ IsFiniteSet(Claims)
      /\ IsFiniteSet(ChargedRows) /\ IsFiniteSet(ChargedRows')
  BY <1>1, FS_AddElement, FS_RemoveElement, FS_Subset DEF Budget, ChargedRows
<1>3. /\ Cardinality(Claims) \in Nat /\ Cardinality(ChargedRows) \in Nat
      /\ Cardinality(Claims') \in Nat /\ Cardinality(ChargedRows') \in Nat
  BY <1>2, FS_CardinalityType
<1>4. CASE tid[p] \in uncharged
  <2>1. Cardinality(ChargedRows') <= Cardinality(ChargedRows)
    <3>1. ChargedRows' \subseteq ChargedRows
      BY <1>1, <1>4 DEF ChargedRows
    <3> QED  BY <1>2, <3>1, FS_Subset
  <2>2. Cardinality(Claims') <= Cardinality(Claims)
    BY <1>1, <1>2, FS_Subset
  <2>3. Cardinality(ChargedRows') + Cardinality(Claims') <= Cap
    BY <1>3, <2>1, <2>2, ConstantsAssumption DEF Budget
  <2> QED  BY <1>2, <2>3 DEF Budget
<1>5. CASE tid[p] \notin uncharged
  <2>1. job[p] \in Claims
    BY <1>1, <1>5 DEF Kept, Record, RecordThenFails, Claims
  <2>2. Cardinality(Claims') = Cardinality(Claims) - 1
    BY <1>1, <1>2, <2>1, FS_RemoveElement
  <2>3. ChargedRows' \subseteq ChargedRows \cup {tid[p]}
    BY <1>1, <1>5 DEF ChargedRows
  <2>4. Cardinality(ChargedRows') <= Cardinality(ChargedRows) + 1
    <3>1. /\ IsFiniteSet(ChargedRows \cup {tid[p]})
          /\ Cardinality(ChargedRows \cup {tid[p]})
               = IF tid[p] \in ChargedRows THEN Cardinality(ChargedRows)
                 ELSE Cardinality(ChargedRows) + 1
      BY <1>2, FS_AddElement
    <3>2. Cardinality(ChargedRows') <= Cardinality(ChargedRows \cup {tid[p]})
      BY <2>3, <3>1, FS_Subset
    <3> QED  BY <1>3, <3>1, <3>2
  <2>5. Cardinality(ChargedRows') + Cardinality(Claims') <= Cap
    BY <1>3, <2>2, <2>4, ConstantsAssumption DEF Budget
  <2> QED  BY <1>2, <2>5 DEF Budget
<1> QED  BY <1>4, <1>5

\* Different opens hold different claims, so there are no more of them.
LEMMA ClaimsCountOpens ==
    ASSUME IInv, Kept, Budget PROVE SlotsWithinCap
<1> DEFINE claimOf == [p \in ChargedOpens |-> job[p]]
<1>1. claimOf \in [ChargedOpens -> Claims]
  BY DEF IInv, TypeOK, TaskIds, Kept, ChargedOpens, Claims
<1>2. \A p, q \in ChargedOpens : claimOf[p] = claimOf[q] => p = q
  BY DEF IInv, Standing, ClaimExclusive, ChargedOpens
<1>3. claimOf \in Injection(ChargedOpens, Claims)
  BY <1>1, <1>2 DEF Injection, IsInjective
<1>4. IsFiniteSet(ChargedOpens) /\ Cardinality(ChargedOpens) <= Cardinality(Claims)
  BY <1>3, FS_Injection DEF Budget
<1>5. IsFiniteSet(ChargedRows)
  BY FS_Subset DEF Budget, ChargedRows
<1>6. /\ Cardinality(ChargedOpens) \in Nat /\ Cardinality(ChargedRows) \in Nat
      /\ Cardinality(Claims) \in Nat
  BY <1>4, <1>5, FS_CardinalityType DEF Budget
<1> QED  BY <1>4, <1>6, ConstantsAssumption DEF Budget, SlotsWithinCap

\* The cap holds for any number of tasks racing for any number of signals: the
\* opens that kept their claim and the rows they became never exceed
\* max_open_trades.
THEOREM CapIsKept == Spec => []SlotsWithinCap
<1>1. Init => Kept /\ Budget
  <2> SUFFICES ASSUME Init PROVE Kept /\ Budget
    OBVIOUS
  <2>1. Kept /\ OpenRows = {} /\ Claims = {} /\ ChargedRows = {}
    BY DEF Init, Kept, OpenRows, Claims, ChargedRows
  <2> QED  BY <2>1, FS_EmptySet, ConstantsAssumption DEF Budget
<1>2. IInv /\ Kept /\ Budget /\ [Next]_vars => (Kept /\ Budget)'
  <2> SUFFICES ASSUME IInv, Kept, Budget, [Next]_vars PROVE Kept' /\ Budget'
    OBVIOUS
  <2>1. CASE UNCHANGED vars
    <3>1. Kept' /\ OpenRows' = OpenRows /\ Claims' = Claims /\ uncharged' = uncharged
      BY <2>1 DEF vars, Kept, OpenRows, Claims
    <3> QED  BY <3>1, BudgetShrinks
  <2>2. CASE Next
    BY <2>2, KeptStep, BudgetMoves, BudgetShrinks, BudgetClaim, BudgetRecord
  <2> QED  BY <2>1, <2>2
<1>3. IInv /\ Kept /\ Budget => SlotsWithinCap
  BY ClaimsCountOpens
<1> QED  BY <1>1, <1>2, <1>3, InvariantHolds, PTL DEF Spec
=============================================================================
