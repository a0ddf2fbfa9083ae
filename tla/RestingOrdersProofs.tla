------------------------- MODULE RestingOrdersProofs -------------------------
(***************************************************************************)
(* Machine-checked safety of RestingOrders, for any number of orders, lost *)
(* connections and queued commands.                                        *)
(*                                                                         *)
(* The argument follows the right to place an order.  It is one request,   *)
(* which is a command on its way to the EA, an answer on its way back, or  *)
(* an answer in the box of the task that waits for it (OneRequest), and it *)
(* is only given out behind the cancel of whatever is still live           *)
(* (OneLive).  That is enough for OneOrder.                                *)
(*                                                                         *)
(* For RowTellsBook a second invariant describes the setup while nothing   *)
(* has raced and nothing on its way is bound to: which ticket is current,  *)
(* what the reports on their way say of it, and who still has to hear of   *)
(* what happened to it.                                                    *)
(***************************************************************************)
EXTENDS RestingOrders, FiniteSetTheorems, TLAPS

USE DEF NoTicket, Tickets, Numbers

-----------------------------------------------------------------------------
(* Types                                                                    *)

\* The queues are sequences of messages.
LEMMA QueueTypes ==
    ASSUME NEW S, NEW q \in Seq(S)
    PROVE  /\ \A m \in S : Append(q, m) \in Seq(S)
           /\ q # <<>> => Head(q) \in S /\ Tail(q) \in Seq(S)
           /\ <<>> \in Seq(S)
  OBVIOUS

\* What travels in them.
LEMMA MessageTypes ==
    /\ \A t \in Numbers : Msg("cancel", t) \in Commands /\ Msg("restore", t) \in Commands
    /\ Msg("place", NoTicket) \in Commands /\ Msg("failed", NoTicket) \in Reports
    /\ \A t \in Numbers : Msg("placed", t) \in Reports
    /\ \A t \in Numbers : Msg("filled", t) \in Reports /\ Msg("cancelled", t) \in Reports
    /\ \A m \in Commands : m.kind \in {"place", "cancel", "restore"} /\ m.t \in Numbers
    /\ \A m \in Reports : /\ m.kind \in {"placed", "failed", "filled", "cancelled"}
                          /\ m.t \in Numbers
    /\ NoMsg.kind = "none" /\ NoMsg.t = NoTicket
    /\ \A k, t : Msg(k, t).kind = k /\ Msg(k, t).t = t
  BY DEF Msg, Commands, Reports, NoMsg

\* What a typed queue gives and takes.
LEMMA Queues ==
    ASSUME TypeOK
    PROVE  /\ \A m \in Commands : Append(toEA, m) \in Seq(Commands)
           /\ \A m \in Reports : Append(toApp, m) \in Seq(Reports)
           /\ toEA # <<>> => /\ Head(toEA) \in Commands /\ Tail(toEA) \in Seq(Commands)
                             /\ Head(toEA).t \in Numbers
           /\ toApp # <<>> => /\ Head(toApp) \in Reports /\ Tail(toApp) \in Seq(Reports)
                              /\ Head(toApp).t \in Numbers
           /\ <<>> \in Seq(Commands) /\ <<>> \in Seq(Reports)
  BY QueueTypes, MessageTypes DEF TypeOK

\* Sending keeps a queue typed.
LEMMA SendTyped ==
    ASSUME TypeOK, NEW m \in Commands, Command(m) \/ SendFails(m)
    PROVE  toEA' \in Seq(Commands)
<1>1. Append(toEA, m) \in Seq(Commands)
  BY Queues
<1> QED  BY <1>1 DEF TypeOK, Command, SendFails

\* So does reporting.
LEMMA ReportTyped ==
    ASSUME TypeOK, NEW m \in Reports, Report(m)
    PROVE  toApp' \in Seq(Reports)
<1>1. Append(toApp, m) \in Seq(Reports)
  BY Queues
<1> QED  BY <1>1 DEF TypeOK, Report

RowTypes  == /\ sig \in Signals_ /\ row \in Rows /\ ticket \in Numbers /\ filledBy \in Numbers
             /\ market \in BOOLEAN /\ called \in BOOLEAN /\ lapsed \in BOOLEAN
EaTypes   == /\ placed \in 0..MaxTickets
             /\ book \in [Tickets -> {"none", "resting", "position", "closed", "gone"}]
             /\ tracked \in [Tickets -> Nat]
LinkTypes == link \in BOOLEAN /\ drops \in 0..MaxDrops /\ restore \in BOOLEAN
TaskTypes == /\ opener \in {"idle", "first", "claimed", "done"}
             /\ ack \in Reports \cup {NoMsg}
             /\ sweep \in [pc : {"idle", "withdraw", "sent", "rearm", "await"}, t : Numbers]
             /\ op \in [pc : {"idle", "asked", "sent"}, t : Numbers]
             /\ reader \in [kind : {"none", "filled", "cancelled"}, t : Numbers, seen : Rows]

\* Every step keeps every variable within its type.
LEMMA TypesStep ==
    ASSUME TypeOK, [Next]_vars PROVE TypeOK'
<1> USE RestingAssumption DEF rowVars, eaVars, sockVars, taskVars, Signals_, Rows, Idle, At,
        NotReading
<1>1. CASE StoreSignal
  BY <1>1 DEF TypeOK, StoreSignal, Races
<1>2. CASE Place
  <2>1. toEA' \in Seq(Commands)
    BY <1>2, MessageTypes, SendTyped DEF TypeOK, Place
  <2>2. toApp' \in Seq(Reports)
    BY <1>2, Queues, MessageTypes DEF TypeOK, Place, Command
  <2>3. RowTypes'
    BY <1>2, MessageTypes DEF TypeOK, RowTypes, Place, Command
  <2>4. LinkTypes'
    BY <1>2 DEF TypeOK, LinkTypes, Place, Command
  <2>5. raced' \subseteq Races
    BY <1>2 DEF TypeOK, Races, Place, Command
  <2>6. EaTypes'
    BY <1>2, Queues DEF TypeOK, EaTypes, Place, Command
  <2>7. TaskTypes'
    BY <1>2, Queues, MessageTypes DEF TypeOK, TaskTypes, Place, Command
  <2> QED  BY <2>1, <2>2, <2>3, <2>4, <2>5, <2>6, <2>7
              DEF TypeOK, RowTypes, EaTypes, LinkTypes, TaskTypes
<1>3. CASE PlaceAck
  <2>1. toEA' \in Seq(Commands)
    BY <1>3, Queues, MessageTypes DEF TypeOK, PlaceAck
  <2>2. toApp' \in Seq(Reports)
    BY <1>3, Queues, MessageTypes DEF TypeOK, PlaceAck
  <2>3. RowTypes'
    BY <1>3, MessageTypes DEF TypeOK, RowTypes, PlaceAck
  <2>4. LinkTypes'
    BY <1>3 DEF TypeOK, LinkTypes, PlaceAck
  <2>5. raced' \subseteq Races
    BY <1>3 DEF TypeOK, Races, PlaceAck
  <2>6. EaTypes'
    BY <1>3, Queues DEF TypeOK, EaTypes, PlaceAck
  <2>7. TaskTypes'
    BY <1>3, Queues, MessageTypes DEF TypeOK, TaskTypes, PlaceAck
  <2> QED  BY <2>1, <2>2, <2>3, <2>4, <2>5, <2>6, <2>7
              DEF TypeOK, RowTypes, EaTypes, LinkTypes, TaskTypes
<1>4. CASE PlaceFails
  BY <1>4 DEF TypeOK, PlaceFails, Races
<1>5. CASE SweepRead
  BY <1>5 DEF TypeOK, SweepRead, Races
<1>6. CASE SweepWithdraw
  <2>0. Msg("cancel", sweep.t) \in Commands /\ Msg("cancel", NoTicket) \in Commands
        /\ Msg("restore", sweep.t) \in Commands
    BY MessageTypes DEF TypeOK
  <2>1. toEA' \in Seq(Commands)
    BY <1>6, <2>0, SendTyped DEF TypeOK, SweepWithdraw
  <2>2. toApp' \in Seq(Reports)
    BY <1>6, Queues, MessageTypes DEF TypeOK, SweepWithdraw, Command, SendFails
  <2>3. RowTypes'
    BY <1>6, MessageTypes DEF TypeOK, RowTypes, SweepWithdraw, Command, SendFails
  <2>4. LinkTypes'
    BY <1>6 DEF TypeOK, LinkTypes, SweepWithdraw, Command, SendFails
  <2>5. raced' \subseteq Races
    BY <1>6 DEF TypeOK, Races, SweepWithdraw, Command, SendFails
  <2>6. EaTypes'
    BY <1>6, Queues DEF TypeOK, EaTypes, SweepWithdraw, Command, SendFails
  <2>7. TaskTypes'
    BY <1>6, Queues, MessageTypes DEF TypeOK, TaskTypes, SweepWithdraw, Command, SendFails
  <2> QED  BY <2>1, <2>2, <2>3, <2>4, <2>5, <2>6, <2>7
              DEF TypeOK, RowTypes, EaTypes, LinkTypes, TaskTypes
<1>7. CASE SweepMark
  <2>1. toEA' \in Seq(Commands)
    BY <1>7, Queues, MessageTypes DEF TypeOK, SweepMark
  <2>2. toApp' \in Seq(Reports)
    BY <1>7, Queues, MessageTypes DEF TypeOK, SweepMark
  <2>3. RowTypes'
    BY <1>7, MessageTypes DEF TypeOK, RowTypes, SweepMark
  <2>4. LinkTypes'
    BY <1>7 DEF TypeOK, LinkTypes, SweepMark
  <2>5. raced' \subseteq Races
    BY <1>7 DEF TypeOK, Races, SweepMark
  <2>6. EaTypes'
    BY <1>7, Queues DEF TypeOK, EaTypes, SweepMark
  <2>7. TaskTypes'
    BY <1>7, Queues, MessageTypes DEF TypeOK, TaskTypes, SweepMark
  <2> QED  BY <2>1, <2>2, <2>3, <2>4, <2>5, <2>6, <2>7
              DEF TypeOK, RowTypes, EaTypes, LinkTypes, TaskTypes
<1>8. CASE SweepRearm
  <2>1. toEA' \in Seq(Commands)
    BY <1>8, MessageTypes, SendTyped DEF TypeOK, SweepRearm
  <2>2. toApp' \in Seq(Reports)
    BY <1>8, Queues, MessageTypes DEF TypeOK, SweepRearm, Command
  <2>3. RowTypes'
    BY <1>8, MessageTypes DEF TypeOK, RowTypes, SweepRearm, Command
  <2>4. LinkTypes'
    BY <1>8 DEF TypeOK, LinkTypes, SweepRearm, Command
  <2>5. raced' \subseteq Races
    BY <1>8 DEF TypeOK, Races, SweepRearm, Command
  <2>6. EaTypes'
    BY <1>8, Queues DEF TypeOK, EaTypes, SweepRearm, Command
  <2>7. TaskTypes'
    BY <1>8, Queues, MessageTypes DEF TypeOK, TaskTypes, SweepRearm, Command
  <2> QED  BY <2>1, <2>2, <2>3, <2>4, <2>5, <2>6, <2>7
              DEF TypeOK, RowTypes, EaTypes, LinkTypes, TaskTypes
<1>9. CASE SweepRearmed
  <2>1. toEA' \in Seq(Commands)
    BY <1>9, Queues, MessageTypes DEF TypeOK, SweepRearmed
  <2>2. toApp' \in Seq(Reports)
    BY <1>9, Queues, MessageTypes DEF TypeOK, SweepRearmed
  <2>3. RowTypes'
    BY <1>9, MessageTypes DEF TypeOK, RowTypes, SweepRearmed
  <2>4. LinkTypes'
    BY <1>9 DEF TypeOK, LinkTypes, SweepRearmed
  <2>5. raced' \subseteq Races
    BY <1>9 DEF TypeOK, Races, SweepRearmed
  <2>6. EaTypes'
    BY <1>9, Queues DEF TypeOK, EaTypes, SweepRearmed
  <2>7. TaskTypes'
    BY <1>9, Queues, MessageTypes DEF TypeOK, TaskTypes, SweepRearmed
  <2> QED  BY <2>1, <2>2, <2>3, <2>4, <2>5, <2>6, <2>7
              DEF TypeOK, RowTypes, EaTypes, LinkTypes, TaskTypes
<1>10. CASE SweepRearmFails
  BY <1>10 DEF TypeOK, SweepRearmFails, Races
<1>11. CASE CancelSignal
  BY <1>11 DEF TypeOK, CancelSignal, Races
<1>12. CASE OperatorSend
  <2>0. Msg("cancel", op.t) \in Commands /\ Msg("cancel", NoTicket) \in Commands
        /\ Msg("restore", op.t) \in Commands
    BY MessageTypes DEF TypeOK
  <2>1. toEA' \in Seq(Commands)
    BY <1>12, <2>0, SendTyped DEF TypeOK, OperatorSend
  <2>2. toApp' \in Seq(Reports)
    BY <1>12, Queues, MessageTypes DEF TypeOK, OperatorSend, Command, SendFails
  <2>3. RowTypes'
    BY <1>12, MessageTypes DEF TypeOK, RowTypes, OperatorSend, Command, SendFails
  <2>4. LinkTypes'
    BY <1>12 DEF TypeOK, LinkTypes, OperatorSend, Command, SendFails
  <2>5. raced' \subseteq Races
    BY <1>12 DEF TypeOK, Races, OperatorSend, Command, SendFails
  <2>6. EaTypes'
    BY <1>12, Queues DEF TypeOK, EaTypes, OperatorSend, Command, SendFails
  <2>7. TaskTypes'
    BY <1>12, Queues, MessageTypes DEF TypeOK, TaskTypes, OperatorSend, Command, SendFails
  <2> QED  BY <2>1, <2>2, <2>3, <2>4, <2>5, <2>6, <2>7
              DEF TypeOK, RowTypes, EaTypes, LinkTypes, TaskTypes
<1>13. CASE OperatorMark
  BY <1>13 DEF TypeOK, OperatorMark, Races
<1>14. CASE PanelCancel
  <2>0. Msg("cancel", ticket) \in Commands /\ Msg("cancel", NoTicket) \in Commands
        /\ Msg("restore", ticket) \in Commands
    BY MessageTypes DEF TypeOK
  <2>1. toEA' \in Seq(Commands)
    BY <1>14, <2>0, SendTyped DEF TypeOK, PanelCancel
  <2>2. toApp' \in Seq(Reports)
    BY <1>14, Queues, MessageTypes DEF TypeOK, PanelCancel, Command
  <2>3. RowTypes'
    BY <1>14, MessageTypes DEF TypeOK, RowTypes, PanelCancel, Command
  <2>4. LinkTypes'
    BY <1>14 DEF TypeOK, LinkTypes, PanelCancel, Command
  <2>5. raced' \subseteq Races
    BY <1>14 DEF TypeOK, Races, PanelCancel, Command
  <2>6. EaTypes'
    BY <1>14, Queues DEF TypeOK, EaTypes, PanelCancel, Command
  <2>7. TaskTypes'
    BY <1>14, Queues, MessageTypes DEF TypeOK, TaskTypes, PanelCancel, Command
  <2> QED  BY <2>1, <2>2, <2>3, <2>4, <2>5, <2>6, <2>7
              DEF TypeOK, RowTypes, EaTypes, LinkTypes, TaskTypes
<1>15. CASE WatcherExpires
  BY <1>15 DEF TypeOK, WatcherExpires, Watched, Races
<1>16. CASE WatcherOpens
  BY <1>16 DEF TypeOK, WatcherOpens, Watched, Races
<1>17. CASE ReleaseClaim
  BY <1>17 DEF TypeOK, ReleaseClaim, Races
<1>18. CASE Lapse
  BY <1>18 DEF TypeOK, Lapse, Races
<1>19. CASE ReadAnswer
  <2>1. toEA' \in Seq(Commands)
    BY <1>19, Queues, MessageTypes DEF TypeOK, ReadAnswer
  <2>2. toApp' \in Seq(Reports)
    BY <1>19, Queues, MessageTypes DEF TypeOK, ReadAnswer
  <2>3. RowTypes'
    BY <1>19, MessageTypes DEF TypeOK, RowTypes, ReadAnswer
  <2>4. LinkTypes'
    BY <1>19 DEF TypeOK, LinkTypes, ReadAnswer
  <2>5. raced' \subseteq Races
    BY <1>19 DEF TypeOK, Races, ReadAnswer
  <2>6. EaTypes'
    BY <1>19, Queues DEF TypeOK, EaTypes, ReadAnswer
  <2>7. TaskTypes'
    BY <1>19, Queues, MessageTypes DEF TypeOK, TaskTypes, ReadAnswer
  <2> QED  BY <2>1, <2>2, <2>3, <2>4, <2>5, <2>6, <2>7
              DEF TypeOK, RowTypes, EaTypes, LinkTypes, TaskTypes
<1>20. CASE ReadReport
  <2>1. toEA' \in Seq(Commands)
    BY <1>20, Queues, MessageTypes DEF TypeOK, ReadReport
  <2>2. toApp' \in Seq(Reports)
    BY <1>20, Queues, MessageTypes DEF TypeOK, ReadReport
  <2>3. RowTypes'
    BY <1>20, MessageTypes DEF TypeOK, RowTypes, ReadReport
  <2>4. LinkTypes'
    BY <1>20 DEF TypeOK, LinkTypes, ReadReport
  <2>5. raced' \subseteq Races
    BY <1>20 DEF TypeOK, Races, ReadReport
  <2>6. EaTypes'
    BY <1>20, Queues DEF TypeOK, EaTypes, ReadReport
  <2>7. TaskTypes'
    BY <1>20, Queues, MessageTypes DEF TypeOK, TaskTypes, ReadReport
  <2> QED  BY <2>1, <2>2, <2>3, <2>4, <2>5, <2>6, <2>7
              DEF TypeOK, RowTypes, EaTypes, LinkTypes, TaskTypes
<1>21. CASE ApplyCancelled
  BY <1>21 DEF TypeOK, ApplyCancelled, Races
<1>22. CASE ApplyFilled
  BY <1>22 DEF TypeOK, ApplyFilled, Races
<1>23. CASE EaPlaces
  <2>1. toEA' \in Seq(Commands)
    BY <1>23, Queues, MessageTypes DEF TypeOK, EaPlaces, Report
  <2>2. toApp' \in Seq(Reports)
    <3>1. placed < MaxTickets => Msg("placed", placed + 1) \in Reports
      BY MessageTypes DEF TypeOK
    <3> QED  BY <1>23, <3>1, MessageTypes, ReportTyped DEF EaPlaces
  <2>3. RowTypes'
    BY <1>23, MessageTypes DEF TypeOK, RowTypes, EaPlaces, Report
  <2>4. LinkTypes'
    BY <1>23 DEF TypeOK, LinkTypes, EaPlaces, Report
  <2>5. raced' \subseteq Races
    BY <1>23 DEF TypeOK, Races, EaPlaces, Report
  <2>6. EaTypes'
    <3>1. CASE UNCHANGED eaVars
      BY <3>1 DEF TypeOK, EaTypes
    <3>2. CASE /\ placed < MaxTickets /\ placed' = placed + 1
               /\ book' = [book EXCEPT ![placed + 1] = "resting"]
               /\ tracked' = [tracked EXCEPT ![placed + 1] = 1]
      <4>1. placed' \in 0..MaxTickets
        BY <3>2 DEF TypeOK
      <4>2. tracked' \in [Tickets -> Nat]
        BY <3>2 DEF TypeOK
      <4>3. book' \in [Tickets -> {"none", "resting", "position", "closed", "gone"}]
        BY <3>2 DEF TypeOK
      <4> QED  BY <4>1, <4>2, <4>3 DEF EaTypes
    <3> QED  BY <1>23, <3>1, <3>2 DEF EaPlaces
  <2>7. TaskTypes'
    BY <1>23, Queues, MessageTypes DEF TypeOK, TaskTypes, EaPlaces, Report
  <2> QED  BY <2>1, <2>2, <2>3, <2>4, <2>5, <2>6, <2>7
              DEF TypeOK, RowTypes, EaTypes, LinkTypes, TaskTypes
<1>24. CASE EaCancels
  <2>1. toEA' \in Seq(Commands)
    BY <1>24, Queues, MessageTypes DEF TypeOK, EaCancels, Report
  <2>2. toApp' \in Seq(Reports)
    <3>1. \A t \in Numbers : Msg("cancelled", t) \in Reports
      BY MessageTypes
    <3>2. Head(toEA).t \in Numbers
      BY <1>24, Queues DEF EaCancels
    <3>3. CASE UNCHANGED toApp
      BY <3>3 DEF TypeOK
    <3>4. CASE \E t \in Numbers : Report(Msg("cancelled", t))
      BY <3>1, <3>4, ReportTyped
    <3> QED  BY <1>24, <3>2, <3>3, <3>4 DEF EaCancels
  <2>3. RowTypes'
    BY <1>24, MessageTypes DEF TypeOK, RowTypes, EaCancels, Report
  <2>4. LinkTypes'
    BY <1>24 DEF TypeOK, LinkTypes, EaCancels, Report
  <2>5. raced' \subseteq Races
    BY <1>24 DEF TypeOK, Races, EaCancels, Report
  <2>6. EaTypes'
    <3>1. CASE UNCHANGED eaVars
      BY <3>1 DEF TypeOK, EaTypes
    <3>2. ASSUME NEW t, placed' = placed, book' = [book EXCEPT ![t] = "gone"],
                 tracked' = [tracked EXCEPT ![t] = IF @ > 0 THEN @ - 1 ELSE 0]
          PROVE  EaTypes'
      <4>1. tracked' \in [Tickets -> Nat]
        <5>1. CASE t \in Tickets
          <6>1. (IF tracked[t] > 0 THEN tracked[t] - 1 ELSE 0) \in Nat
            BY <5>1 DEF TypeOK
          <6> QED  BY <3>2, <5>1, <6>1 DEF TypeOK
        <5>2. CASE t \notin Tickets
          BY <3>2, <5>2 DEF TypeOK
        <5> QED  BY <5>1, <5>2
      <4>2. book' \in [Tickets -> {"none", "resting", "position", "closed", "gone"}]
        BY <3>2 DEF TypeOK
      <4> QED  BY <3>2, <4>1, <4>2 DEF EaTypes, TypeOK
    <3> QED  BY <1>24, <3>1, <3>2 DEF EaCancels
  <2>7. TaskTypes'
    BY <1>24, Queues, MessageTypes DEF TypeOK, TaskTypes, EaCancels, Report
  <2> QED  BY <2>1, <2>2, <2>3, <2>4, <2>5, <2>6, <2>7
              DEF TypeOK, RowTypes, EaTypes, LinkTypes, TaskTypes
<1>25. CASE EaRestores
  <2>1. toEA' \in Seq(Commands)
    BY <1>25, Queues, MessageTypes DEF TypeOK, EaRestores, Report
  <2>2. toApp' \in Seq(Reports)
    <3>1. /\ Msg("filled", Head(toEA).t) \in Reports
          /\ Msg("cancelled", Head(toEA).t) \in Reports
      BY <1>25, Queues, MessageTypes DEF EaRestores
    <3> QED  BY <1>25, <3>1, ReportTyped DEF EaRestores, TypeOK
  <2>3. RowTypes'
    BY <1>25, MessageTypes DEF TypeOK, RowTypes, EaRestores, Report
  <2>4. LinkTypes'
    BY <1>25 DEF TypeOK, LinkTypes, EaRestores, Report
  <2>5. raced' \subseteq Races
    BY <1>25 DEF TypeOK, Races, EaRestores, Report
  <2>6. EaTypes'
    <3> DEFINE t == Head(toEA).t
    <3>1. tracked' = tracked \/ tracked' = [tracked EXCEPT ![t] = @ + 1]
      BY <1>25 DEF EaRestores
    <3>2. CASE t \in Tickets
      <4>1. tracked[t] + 1 \in Nat
        BY <3>2 DEF TypeOK
      <4>2. tracked' \in [Tickets -> Nat]
        BY <3>1, <3>2, <4>1 DEF TypeOK
      <4> QED  BY <1>25, <4>2 DEF TypeOK, EaTypes, EaRestores
    <3>3. CASE t \notin Tickets
      <4> HIDE DEF t
      <4>1. tracked' \in [Tickets -> Nat]
        BY <3>1, <3>3 DEF TypeOK
      <4> QED  BY <1>25, <4>1 DEF TypeOK, EaTypes, EaRestores
    <3> QED  BY <3>2, <3>3
  <2>7. TaskTypes'
    BY <1>25, Queues, MessageTypes DEF TypeOK, TaskTypes, EaRestores, Report
  <2> QED  BY <2>1, <2>2, <2>3, <2>4, <2>5, <2>6, <2>7
              DEF TypeOK, RowTypes, EaTypes, LinkTypes, TaskTypes
<1>26. ASSUME NEW t \in Tickets, EaChecks(t) PROVE TypeOK'
  <2>1. toEA' \in Seq(Commands)
    BY <1>26, Queues, MessageTypes DEF TypeOK, EaChecks, Report
  <2>2. toApp' \in Seq(Reports)
    BY <1>26, Queues, MessageTypes DEF TypeOK, EaChecks, Report
  <2>3. RowTypes'
    BY <1>26, MessageTypes DEF TypeOK, RowTypes, EaChecks, Report
  <2>4. LinkTypes'
    BY <1>26 DEF TypeOK, LinkTypes, EaChecks, Report
  <2>5. raced' \subseteq Races
    BY <1>26 DEF TypeOK, Races, EaChecks, Report
  <2>6. EaTypes'
    <3>1. tracked' \in [Tickets -> Nat]
      BY <1>26 DEF TypeOK, EaChecks
    <3> QED  BY <1>26, <3>1 DEF TypeOK, EaTypes, EaChecks
  <2>7. TaskTypes'
    BY <1>26, Queues, MessageTypes DEF TypeOK, TaskTypes, EaChecks, Report
  <2> QED  BY <2>1, <2>2, <2>3, <2>4, <2>5, <2>6, <2>7
              DEF TypeOK, RowTypes, EaTypes, LinkTypes, TaskTypes
<1>27. ASSUME NEW t \in Tickets, Fill(t) PROVE TypeOK'
  BY <1>27 DEF TypeOK, Fill, Races
<1>28. ASSUME NEW t \in Tickets, Remove(t) PROVE TypeOK'
  BY <1>28 DEF TypeOK, Remove, Races
<1>29. ASSUME NEW t \in Tickets, Blink(t) PROVE TypeOK'
  BY <1>29 DEF TypeOK, Blink, Races
<1>30. CASE LinkDown
  <2>1. toEA' \in Seq(Commands)
    BY <1>30, Queues, MessageTypes DEF TypeOK, LinkDown, Lost
  <2>2. toApp' \in Seq(Reports)
    BY <1>30, Queues, MessageTypes DEF TypeOK, LinkDown, Lost
  <2>3. RowTypes'
    BY <1>30, MessageTypes DEF TypeOK, RowTypes, LinkDown, Lost
  <2>4. LinkTypes'
    <3>1. drops' \in 0..MaxDrops
      BY <1>30 DEF TypeOK, LinkDown
    <3>2. link' \in BOOLEAN /\ restore' \in BOOLEAN
      BY <1>30 DEF LinkDown
    <3> QED  BY <3>1, <3>2 DEF LinkTypes
  <2>5. raced' \subseteq Races
    BY <1>30 DEF TypeOK, Races, LinkDown, Lost
  <2>6. EaTypes'
    BY <1>30, Queues DEF TypeOK, EaTypes, LinkDown, Lost
  <2>7. TaskTypes'
    BY <1>30 DEF TypeOK, TaskTypes, LinkDown, NoMsg, Msg, Idle, NotReading, Rows
  <2> QED  BY <2>1, <2>2, <2>3, <2>4, <2>5, <2>6, <2>7
              DEF TypeOK, RowTypes, EaTypes, LinkTypes, TaskTypes
<1>31. CASE LinkUp
  BY <1>31 DEF TypeOK, LinkUp, Races
<1>32. CASE RestoreRow
  <2>0. Msg("cancel", ticket) \in Commands /\ Msg("cancel", NoTicket) \in Commands
        /\ Msg("restore", ticket) \in Commands
    BY MessageTypes DEF TypeOK
  <2>1. toEA' \in Seq(Commands)
    BY <1>32, <2>0, SendTyped DEF TypeOK, RestoreRow
  <2>2. toApp' \in Seq(Reports)
    BY <1>32, Queues, MessageTypes DEF TypeOK, RestoreRow, Command
  <2>3. RowTypes'
    BY <1>32, MessageTypes DEF TypeOK, RowTypes, RestoreRow, Command
  <2>4. LinkTypes'
    BY <1>32 DEF TypeOK, LinkTypes, RestoreRow, Command
  <2>5. raced' \subseteq Races
    BY <1>32 DEF TypeOK, Races, RestoreRow, Command
  <2>6. EaTypes'
    BY <1>32, Queues DEF TypeOK, EaTypes, RestoreRow, Command
  <2>7. TaskTypes'
    BY <1>32, Queues, MessageTypes DEF TypeOK, TaskTypes, RestoreRow, Command
  <2> QED  BY <2>1, <2>2, <2>3, <2>4, <2>5, <2>6, <2>7
              DEF TypeOK, RowTypes, EaTypes, LinkTypes, TaskTypes
<1>33. CASE UNCHANGED vars
  BY <1>33 DEF TypeOK, vars
<1> QED  BY <1>1, <1>2, <1>3, <1>4, <1>5, <1>6, <1>7, <1>8, <1>9, <1>10, <1>11, <1>12, <1>13,
            <1>14, <1>15, <1>16, <1>17, <1>18, <1>19, <1>20, <1>21, <1>22, <1>23, <1>24, <1>25,
            <1>26, <1>27, <1>28, <1>29, <1>30, <1>31, <1>32, <1>33
            DEF Next, AppStep, ReaderStep, EaStep, CheckStep
-----------------------------------------------------------------------------
(* One request, one live order                                              *)

\* A task waits for the answer to a placement.
Asking == opener \in {"first", "claimed"} \/ sweep.pc = "await"

Places  == {i \in 1..Len(toEA) : toEA[i].kind = "place"}
Answers == {i \in 1..Len(toApp) : toApp[i].kind \in {"placed", "failed"}}

CancelAt(j, t)  == toEA[j].kind = "cancel" /\ toEA[j].t = t
CancelQueued(t) == \E j \in 1..Len(toEA) : CancelAt(j, t)

\* Whatever is live has its cancel on the way to the EA.
Covered == \A t \in Live : CancelQueued(t)

\* The answer m speaks of the only live order.
Owned(m) == \A t \in Live : m.kind = "placed" /\ m.t = t

\* Without a connection nothing travels.
Wire == /\ ~link => toEA = <<>> /\ toApp = <<>>
        /\ restore => link

\* Before the first answer there is no row; before a row, nobody works on it.
Stage ==
    /\ opener = "idle" => /\ placed = 0 /\ row = "none" /\ ack.kind = "none"
                          /\ toEA = <<>> /\ toApp = <<>> /\ reader.kind = "none"
    /\ row = "none" => sweep.pc = "idle" /\ op.pc = "idle" /\ reader.seen = "none"
    /\ opener \in {"first", "claimed"} => row = "none"
    /\ sweep.pc \in {"rearm", "await"} => row # "working"
    /\ \A t \in Tickets : t > placed => book[t] = "none" /\ tracked[t] = 0

\* The right to place: a command, an answer, or an answer in the box.
OneRequest ==
    /\ ~Asking => Places = {} /\ Answers = {} /\ ack.kind = "none"
    /\ ack.kind # "none" => Places = {} /\ Answers = {}
    /\ Answers # {} => Places = {}
    /\ \A i, j \in Places : i = j
    /\ \A i, j \in Answers : i = j

\* A placement is queued behind the cancel of what is live, and a row that may
\* be armed again is covered.
OneLive ==
    /\ \A t, u \in Live : t = u
    /\ \A i \in Places : \A t \in Live : \E j \in 1..(i - 1) : CancelAt(j, t)
    /\ \A i \in Answers : Owned(toApp[i])
    /\ ack.kind # "none" => Owned(ack)
    /\ row = "working" => \A t \in Live : t = ticket
    /\ sweep.pc = "withdraw" => \A t \in Live : t = sweep.t
    /\ sweep.pc \in {"sent", "rearm"} => Covered
    /\ row = "withdrawn" /\ sweep.pc # "await" => Covered
    /\ opener = "done" /\ row = "none" => Live = {}

OrderInv == TypeOK /\ Wire /\ Stage /\ (raced = {} => OneRequest /\ OneLive)

\* What a sequence has after an Append.
LEMMA AppendFacts ==
    ASSUME NEW S, NEW q \in Seq(S), NEW m \in S
    PROVE  /\ Len(q) \in Nat /\ Len(Append(q, m)) = Len(q) + 1
           /\ \A i \in 1..Len(q) : Append(q, m)[i] = q[i]
           /\ Append(q, m)[Len(q) + 1] = m
  OBVIOUS

\* What is left of a sequence without its head.
LEMMA TailFacts ==
    ASSUME NEW S, NEW q \in Seq(S), q # <<>>
    PROVE  /\ Len(q) \in Nat /\ Len(q) >= 1 /\ Len(Tail(q)) = Len(q) - 1
           /\ \A i \in 1..(Len(q) - 1) : Tail(q)[i] = q[i + 1]
           /\ Head(q) = q[1]
  OBVIOUS

\* StoreSignal keeps the order invariant.
LEMMA StoreSignalOrder ==
    ASSUME OrderInv, StoreSignal, TypeOK' PROVE OrderInv'
<1> USE MessageTypes DEF OrderInv, TypeOK, rowVars, eaVars, sockVars, taskVars, Idle, At, NotReading
<1>1. Wire' /\ Stage'
  BY DEF StoreSignal, Wire, Stage
<1>2. raced' = {} => OneRequest'
  BY DEF StoreSignal, OneRequest, Stage, Asking, Places, Answers
<1>3. raced' = {} => OneLive'
  BY DEF StoreSignal, OneLive, OneRequest, Stage, Asking, Places, Answers, Live, Owned, Covered,
     CancelQueued, CancelAt
<1> QED  BY <1>1, <1>2, <1>3

\* PlaceAck keeps the order invariant.
LEMMA PlaceAckOrder ==
    ASSUME OrderInv, PlaceAck, TypeOK' PROVE OrderInv'
<1> USE MessageTypes DEF OrderInv, TypeOK, rowVars, eaVars, sockVars, taskVars, Idle, At, NotReading
<1>1. Wire' /\ Stage'
  BY DEF PlaceAck, Wire, Stage
<1>2. raced' = {} => OneRequest'
  BY DEF PlaceAck, OneRequest, Stage, Asking, Places, Answers
<1>3. raced' = {} => OneLive'
  BY DEF PlaceAck, OneLive, OneRequest, Stage, Asking, Places, Answers, Live, Owned, Covered,
     CancelQueued, CancelAt
<1> QED  BY <1>1, <1>2, <1>3

\* SweepRead keeps the order invariant.
LEMMA SweepReadOrder ==
    ASSUME OrderInv, SweepRead, TypeOK' PROVE OrderInv'
<1> USE MessageTypes DEF OrderInv, TypeOK, rowVars, eaVars, sockVars, taskVars, Idle, At, NotReading
<1>1. Wire' /\ Stage'
  BY DEF SweepRead, Wire, Stage
<1>2. raced' = {} => OneRequest'
  BY DEF SweepRead, OneRequest, Stage, Asking, Places, Answers
<1>3. raced' = {} => OneLive'
  BY DEF SweepRead, OneLive, OneRequest, Stage, Asking, Places, Answers, Live, Owned, Covered,
     CancelQueued, CancelAt
<1> QED  BY <1>1, <1>2, <1>3

\* SweepMark keeps the order invariant.
LEMMA SweepMarkOrder ==
    ASSUME OrderInv, SweepMark, TypeOK' PROVE OrderInv'
<1> USE MessageTypes DEF OrderInv, TypeOK, rowVars, eaVars, sockVars, taskVars, Idle, At, NotReading
<1>1. Wire' /\ Stage'
  BY DEF SweepMark, Wire, Stage
<1>2. raced' = {} => OneRequest'
  BY DEF SweepMark, OneRequest, Stage, Asking, Places, Answers
<1>3. raced' = {} => OneLive'
  BY DEF SweepMark, OneLive, OneRequest, Stage, Asking, Places, Answers, Live, Owned, Covered,
     CancelQueued, CancelAt
<1> QED  BY <1>1, <1>2, <1>3

\* CancelSignal keeps the order invariant.
LEMMA CancelSignalOrder ==
    ASSUME OrderInv, CancelSignal, TypeOK' PROVE OrderInv'
<1> USE MessageTypes DEF OrderInv, TypeOK, rowVars, eaVars, sockVars, taskVars, Idle, At, NotReading
<1>1. Wire' /\ Stage'
  BY DEF CancelSignal, Wire, Stage
<1>2. raced' = {} => OneRequest'
  BY DEF CancelSignal, OneRequest, Stage, Asking, Places, Answers
<1>3. raced' = {} => OneLive'
  BY DEF CancelSignal, OneLive, OneRequest, Stage, Asking, Places, Answers, Live, Owned, Covered,
     CancelQueued, CancelAt
<1> QED  BY <1>1, <1>2, <1>3

\* OperatorMark keeps the order invariant.
LEMMA OperatorMarkOrder ==
    ASSUME OrderInv, OperatorMark, TypeOK' PROVE OrderInv'
<1> USE MessageTypes DEF OrderInv, TypeOK, rowVars, eaVars, sockVars, taskVars, Idle, At, NotReading
<1>1. Wire' /\ Stage'
  BY DEF OperatorMark, Wire, Stage
<1>2. raced' = {} => OneRequest'
  BY DEF OperatorMark, OneRequest, Stage, Asking, Places, Answers
<1>3. raced' = {} => OneLive'
  BY DEF OperatorMark, OneLive, OneRequest, Stage, Asking, Places, Answers, Live, Owned, Covered,
     CancelQueued, CancelAt
<1> QED  BY <1>1, <1>2, <1>3

\* WatcherExpires keeps the order invariant.
LEMMA WatcherExpiresOrder ==
    ASSUME OrderInv, WatcherExpires, TypeOK' PROVE OrderInv'
<1> USE MessageTypes DEF OrderInv, TypeOK, rowVars, eaVars, sockVars, taskVars, Idle, At, NotReading
<1>1. Wire' /\ Stage'
  BY DEF WatcherExpires, Watched, Wire, Stage
<1>2. raced' = {} => OneRequest'
  BY DEF WatcherExpires, Watched, OneRequest, Stage, Asking, Places, Answers
<1>3. raced' = {} => OneLive'
  BY DEF WatcherExpires, Watched, OneLive, OneRequest, Stage, Asking, Places, Answers, Live,
     Owned, Covered,
     CancelQueued, CancelAt
<1> QED  BY <1>1, <1>2, <1>3

\* WatcherOpens keeps the order invariant.
LEMMA WatcherOpensOrder ==
    ASSUME OrderInv, WatcherOpens, TypeOK' PROVE OrderInv'
<1> USE MessageTypes DEF OrderInv, TypeOK, rowVars, eaVars, sockVars, taskVars, Idle, At, NotReading
<1>1. Wire' /\ Stage'
  BY DEF WatcherOpens, Watched, Wire, Stage
<1>2. raced' = {} => OneRequest'
  BY DEF WatcherOpens, Watched, OneRequest, Stage, Asking, Places, Answers
<1>3. raced' = {} => OneLive'
  BY DEF WatcherOpens, Watched, OneLive, OneRequest, Stage, Asking, Places, Answers, Live, Owned,
     Covered,
     CancelQueued, CancelAt
<1> QED  BY <1>1, <1>2, <1>3

\* ReleaseClaim keeps the order invariant.
LEMMA ReleaseClaimOrder ==
    ASSUME OrderInv, ReleaseClaim, TypeOK' PROVE OrderInv'
<1> USE MessageTypes DEF OrderInv, TypeOK, rowVars, eaVars, sockVars, taskVars, Idle, At, NotReading
<1>1. Wire' /\ Stage'
  BY DEF ReleaseClaim, Wire, Stage
<1>2. raced' = {} => OneRequest'
  BY DEF ReleaseClaim, OneRequest, Stage, Asking, Places, Answers
<1>3. raced' = {} => OneLive'
  BY DEF ReleaseClaim, OneLive, OneRequest, Stage, Asking, Places, Answers, Live, Owned, Covered,
     CancelQueued, CancelAt
<1> QED  BY <1>1, <1>2, <1>3

\* Lapse keeps the order invariant.
LEMMA LapseOrder ==
    ASSUME OrderInv, Lapse, TypeOK' PROVE OrderInv'
<1> USE MessageTypes DEF OrderInv, TypeOK, rowVars, eaVars, sockVars, taskVars, Idle, At, NotReading
<1>1. Wire' /\ Stage'
  BY DEF Lapse, Wire, Stage
<1>2. raced' = {} => OneRequest'
  BY DEF Lapse, OneRequest, Stage, Asking, Places, Answers
<1>3. raced' = {} => OneLive'
  BY DEF Lapse, OneLive, OneRequest, Stage, Asking, Places, Answers, Live, Owned, Covered,
     CancelQueued, CancelAt
<1> QED  BY <1>1, <1>2, <1>3

\* ApplyCancelled keeps the order invariant.
LEMMA ApplyCancelledOrder ==
    ASSUME OrderInv, ApplyCancelled, TypeOK' PROVE OrderInv'
<1> USE MessageTypes DEF OrderInv, TypeOK, rowVars, eaVars, sockVars, taskVars, Idle, At, NotReading
<1>0. raced' = {} => raced = {} /\ ~Overlap
  BY DEF ApplyCancelled
<1>1. Wire' /\ Stage'
  BY DEF ApplyCancelled, Wire, Stage
<1>2. raced' = {} => OneRequest'
  BY <1>0 DEF ApplyCancelled, OneRequest, Stage, Asking, Places, Answers
<1>3. raced' = {} => OneLive'
  BY <1>0 DEF ApplyCancelled, OneLive, OneRequest, Stage, Asking, Places, Answers, Live, Owned,
     Covered,
     CancelQueued, CancelAt, Overlap
<1> QED  BY <1>1, <1>2, <1>3

\* ApplyFilled keeps the order invariant.
LEMMA ApplyFilledOrder ==
    ASSUME OrderInv, ApplyFilled, TypeOK' PROVE OrderInv'
<1> USE MessageTypes DEF OrderInv, TypeOK, rowVars, eaVars, sockVars, taskVars, Idle, At, NotReading
<1>0. raced' = {} => raced = {} /\ ~Overlap
  BY DEF ApplyFilled
<1>1. Wire' /\ Stage'
  BY DEF ApplyFilled, Wire, Stage
<1>2. raced' = {} => OneRequest'
  BY <1>0 DEF ApplyFilled, OneRequest, Stage, Asking, Places, Answers
<1>3. raced' = {} => OneLive'
  BY <1>0 DEF ApplyFilled, OneLive, OneRequest, Stage, Asking, Places, Answers, Live, Owned,
     Covered,
     CancelQueued, CancelAt, Overlap
<1> QED  BY <1>1, <1>2, <1>3

\* Fill keeps the order invariant.
LEMMA FillOrder ==
    ASSUME OrderInv, NEW t \in Tickets, Fill(t), TypeOK' PROVE OrderInv'
<1> USE MessageTypes DEF OrderInv, TypeOK, rowVars, eaVars, sockVars, taskVars, Idle, At, NotReading
<1>0. Live' = Live
  BY DEF Fill, Live
<1>1. Wire' /\ Stage'
  BY DEF Fill, Wire, Stage
<1>2. raced' = {} => OneRequest'
  BY <1>0 DEF Fill, OneRequest, Stage, Asking, Places, Answers
<1>3. raced' = {} => OneLive'
  BY <1>0 DEF Fill, OneLive, OneRequest, Stage, Asking, Places, Answers, Owned, Covered,
     CancelQueued, CancelAt
<1> QED  BY <1>1, <1>2, <1>3

\* Remove keeps the order invariant.
LEMMA RemoveOrder ==
    ASSUME OrderInv, NEW t \in Tickets, Remove(t), TypeOK' PROVE OrderInv'
<1> USE MessageTypes DEF OrderInv, TypeOK, rowVars, eaVars, sockVars, taskVars, Idle, At, NotReading
<1>0. Live' \subseteq Live
  BY DEF Remove, Live
<1>1. Wire' /\ Stage'
  BY DEF Remove, Wire, Stage
<1>2. raced' = {} => OneRequest'
  BY <1>0 DEF Remove, OneRequest, Stage, Asking, Places, Answers
<1>3. raced' = {} => OneLive'
  BY <1>0 DEF Remove, OneLive, OneRequest, Stage, Asking, Places, Answers, Owned, Covered,
     CancelQueued, CancelAt
<1> QED  BY <1>1, <1>2, <1>3

\* Blink keeps the order invariant.
LEMMA BlinkOrder ==
    ASSUME OrderInv, NEW t \in Tickets, Blink(t), TypeOK' PROVE OrderInv'
<1> USE MessageTypes DEF OrderInv, TypeOK, rowVars, eaVars, sockVars, taskVars, Idle, At, NotReading
<1>0. Live' = Live
  BY DEF Blink, Live
<1>1. Wire' /\ Stage'
  BY DEF Blink, Wire, Stage
<1>2. raced' = {} => OneRequest'
  BY <1>0 DEF Blink, OneRequest, Stage, Asking, Places, Answers
<1>3. raced' = {} => OneLive'
  BY <1>0 DEF Blink, OneLive, OneRequest, Stage, Asking, Places, Answers, Live, Owned, Covered,
     CancelQueued, CancelAt
<1> QED  BY <1>1, <1>2, <1>3

\* LinkUp keeps the order invariant.
LEMMA LinkUpOrder ==
    ASSUME OrderInv, LinkUp, TypeOK' PROVE OrderInv'
<1> USE MessageTypes DEF OrderInv, TypeOK, rowVars, eaVars, sockVars, taskVars, Idle, At, NotReading
<1>1. Wire' /\ Stage'
  BY DEF LinkUp, Wire, Stage
<1>2. raced' = {} => OneRequest'
  BY DEF LinkUp, OneRequest, Stage, Asking, Places, Answers
<1>3. raced' = {} => OneLive'
  BY DEF LinkUp, OneLive, OneRequest, Stage, Asking, Places, Answers, Live, Owned, Covered,
     CancelQueued, CancelAt
<1> QED  BY <1>1, <1>2, <1>3

\* PlaceFails keeps the order invariant.
LEMMA PlaceFailsOrder ==
    ASSUME OrderInv, PlaceFails, TypeOK' PROVE OrderInv'
<1> USE MessageTypes DEF OrderInv, TypeOK, rowVars, eaVars, sockVars, taskVars, Idle, At, NotReading
<1>1. Wire' /\ Stage'
  BY DEF PlaceFails, Wire, Stage
<1>2. ASSUME raced' = {} PROVE OneRequest' /\ OneLive'
  <2>1. raced = {} /\ ack.kind = "failed"
    BY <1>2 DEF PlaceFails
  <2>2. Places = {} /\ Answers = {} /\ Live = {}
    BY <2>1 DEF OneRequest, OneLive, Owned, Stage
  <2>3. /\ UNCHANGED <<row, ticket, book, toEA, toApp, sweep>>
        /\ ack'.kind = "none" /\ opener' = "done"
    BY <2>1 DEF PlaceFails
  <2>4. Places' = Places /\ Answers' = Answers /\ Live' = Live
    BY <2>3 DEF Places, Answers, Live
  <2>5. Covered' = Covered
    BY <2>3, <2>4 DEF Covered, CancelQueued, CancelAt
  <2>6. OneRequest'
    BY <2>2, <2>3, <2>4 DEF OneRequest
  <2>7. OneLive'
    BY <2>1, <2>2, <2>3, <2>4, <2>5 DEF OneLive, Covered, Owned, Stage
  <2> QED  BY <2>6, <2>7
<1> QED  BY <1>1, <1>2

\* SweepRearmFails keeps the order invariant.
LEMMA SweepRearmFailsOrder ==
    ASSUME OrderInv, SweepRearmFails, TypeOK' PROVE OrderInv'
<1> USE MessageTypes DEF OrderInv, TypeOK, rowVars, eaVars, sockVars, taskVars, Idle, At, NotReading
<1>1. Wire' /\ Stage'
  BY DEF SweepRearmFails, Wire, Stage
<1>2. ASSUME raced' = {} PROVE OneRequest' /\ OneLive'
  <2>1. raced = {} /\ ack.kind = "failed"
    BY <1>2 DEF SweepRearmFails
  <2>2. Places = {} /\ Answers = {} /\ Live = {}
    BY <2>1 DEF OneRequest, OneLive, Owned, Stage
  <2>3. /\ UNCHANGED <<row, ticket, book, toEA, toApp, opener>>
        /\ ack'.kind = "none" /\ sweep'.pc = "idle"
    BY <2>1 DEF SweepRearmFails
  <2>4. Places' = Places /\ Answers' = Answers /\ Live' = Live
    BY <2>3 DEF Places, Answers, Live
  <2>5. Covered' = Covered
    BY <2>3, <2>4 DEF Covered, CancelQueued, CancelAt
  <2>6. OneRequest'
    BY <2>2, <2>3, <2>4 DEF OneRequest
  <2>7. OneLive'
    BY <2>1, <2>2, <2>3, <2>4, <2>5 DEF OneLive, Covered, Owned, Stage
  <2> QED  BY <2>6, <2>7
<1> QED  BY <1>1, <1>2

\* SweepRearmed keeps the order invariant.
LEMMA SweepRearmedOrder ==
    ASSUME OrderInv, SweepRearmed, TypeOK' PROVE OrderInv'
<1> USE MessageTypes DEF OrderInv, TypeOK, rowVars, eaVars, sockVars, taskVars, Idle, At, NotReading
<1>1. Wire' /\ Stage'
  BY DEF SweepRearmed, Wire, Stage
<1>2. ASSUME raced' = {} PROVE OneRequest' /\ OneLive'
  <2>1. raced = {} /\ ack.kind = "placed" /\ row' = "working" /\ ticket' = ack.t
    BY <1>2 DEF SweepRearmed
  <2>2. Places = {} /\ Answers = {} /\ row # "none" /\ \A t \in Live : t = ack.t
    BY <2>1 DEF OneRequest, OneLive, Owned, Stage, SweepRearmed
  <2>3. /\ UNCHANGED <<book, toEA, toApp, opener>>
        /\ ack'.kind = "none" /\ sweep'.pc = "idle"
    BY <2>1 DEF SweepRearmed
  <2>4. Places' = Places /\ Answers' = Answers /\ Live' = Live
    BY <2>3 DEF Places, Answers, Live
  <2>5. Covered' = Covered
    BY <2>3, <2>4 DEF Covered, CancelQueued, CancelAt
  <2>6. OneRequest'
    BY <2>2, <2>3, <2>4 DEF OneRequest
  <2>7. OneLive'
    BY <2>1, <2>2, <2>3, <2>4, <2>5 DEF OneLive, Covered, Owned, Stage
  <2> QED  BY <2>6, <2>7
<1> QED  BY <1>1, <1>2
-----------------------------------------------------------------------------
(* Steps that move a queue                                                  *)

\* What a sent command does to the queue.
LEMMA SendEffect ==
    ASSUME TypeOK, NEW m \in Commands, Command(m)
    PROVE  /\ link /\ Len(toEA) \in Nat /\ Len(toEA') = Len(toEA) + 1
           /\ \A i \in 1..Len(toEA) : toEA'[i] = toEA[i]
           /\ toEA'[Len(toEA) + 1] = m
  BY AppendFacts DEF TypeOK, Command

\* A command that places nothing, sent or not, leaves requests and covers alone.
LEMMA SendOther ==
    ASSUME TypeOK, NEW m \in Commands, m.kind # "place", Command(m) \/ SendFails(m)
    PROVE  /\ Places' = Places
           /\ \A j \in 1..Len(toEA) : j \in 1..Len(toEA') /\ toEA'[j] = toEA[j]
           /\ \A i \in Places : i - 1 <= Len(toEA)
           /\ ~link => toEA' = toEA
<1>0. Len(toEA) \in Nat
  BY DEF TypeOK
<1>1. CASE Command(m)
  <2> HIDE DEF Command
  <2>1. /\ link /\ Len(toEA') = Len(toEA) + 1
        /\ \A i \in 1..Len(toEA) : toEA'[i] = toEA[i]
        /\ toEA'[Len(toEA) + 1] = m
    BY <1>1, SendEffect
  <2> QED  BY <1>0, <2>1 DEF Places
<1>2. CASE UNCHANGED toEA
  BY <1>0, <1>2 DEF Places
<1> QED  BY <1>1, <1>2 DEF SendFails

\* What handling the first command does to the queue.
LEMMA HandleEffect ==
    ASSUME TypeOK, toEA # <<>>, toEA' = Tail(toEA)
    PROVE  /\ Len(toEA) \in Nat /\ Len(toEA) >= 1 /\ Len(toEA') = Len(toEA) - 1
           /\ \A i \in 1..(Len(toEA) - 1) : toEA'[i] = toEA[i + 1]
           /\ Head(toEA) = toEA[1]
           /\ \A i \in Places' : i + 1 \in Places /\ i \in 1..(Len(toEA) - 1)
           /\ Head(toEA).kind = "place" => 1 \in Places
<1>1. /\ Len(toEA) \in Nat /\ Len(toEA) >= 1 /\ Len(toEA') = Len(toEA) - 1
      /\ \A i \in 1..(Len(toEA) - 1) : toEA'[i] = toEA[i + 1]
      /\ Head(toEA) = toEA[1]
  BY TailFacts DEF TypeOK
<1> QED  BY <1>1 DEF Places

\* A report that answers no placement leaves the answers alone.
LEMMA ReportOther ==
    ASSUME TypeOK, NEW m \in Reports, m.kind \notin {"placed", "failed"}, Report(m)
    PROVE  /\ Answers' = Answers
           /\ \A i \in 1..Len(toApp) : i \in 1..Len(toApp') /\ toApp'[i] = toApp[i]
           /\ ~link => toApp' = toApp
<1>1. /\ Len(toApp) \in Nat /\ Len(Append(toApp, m)) = Len(toApp) + 1
      /\ \A i \in 1..Len(toApp) : Append(toApp, m)[i] = toApp[i]
      /\ Append(toApp, m)[Len(toApp) + 1] = m
  BY AppendFacts DEF TypeOK
<1>2. CASE toApp' = toApp
  BY <1>1, <1>2 DEF Answers
<1>3. CASE link /\ toApp' = Append(toApp, m)
  <2>1. /\ Len(toApp') = Len(toApp) + 1 /\ toApp'[Len(toApp) + 1] = m
        /\ \A i \in 1..Len(toApp) : toApp'[i] = toApp[i]
    BY <1>1, <1>3
  <2>2. Answers' = Answers
    BY <1>1, <2>1 DEF Answers
  <2> QED  BY <1>1, <1>3, <2>1, <2>2
<1> QED  BY <1>2, <1>3 DEF Report

\* What reading the first report does to the queue.
LEMMA ReadEffect ==
    ASSUME TypeOK, toApp # <<>>, toApp' = Tail(toApp)
    PROVE  /\ Len(toApp) \in Nat /\ Len(toApp) >= 1 /\ Len(toApp') = Len(toApp) - 1
           /\ \A i \in 1..(Len(toApp) - 1) : toApp'[i] = toApp[i + 1]
           /\ Head(toApp) = toApp[1]
           /\ \A i \in Answers' : i + 1 \in Answers /\ toApp'[i] = toApp[i + 1]
           /\ Head(toApp).kind \in {"placed", "failed"} => 1 \in Answers
<1>1. /\ Len(toApp) \in Nat /\ Len(toApp) >= 1 /\ Len(toApp') = Len(toApp) - 1
      /\ \A i \in 1..(Len(toApp) - 1) : toApp'[i] = toApp[i + 1]
      /\ Head(toApp) = toApp[1]
  BY TailFacts DEF TypeOK
<1> QED  BY <1>1 DEF Answers

\* A command that places nothing keeps OneRequest and OneLive, once the tasks'
\* new places are accounted for.
LEMMA SendKeeps ==
    ASSUME TypeOK, OneRequest, OneLive, NEW m \in Commands, m.kind # "place",
           Command(m) \/ SendFails(m),
           UNCHANGED <<book, toApp, opener, ack, row, ticket>>,
           sweep'.pc = "await" <=> sweep.pc = "await",
           sweep'.pc = "withdraw" => sweep' = sweep,
           sweep'.pc \in {"sent", "rearm"} => Covered' \/ sweep' = sweep
    PROVE  OneRequest' /\ OneLive'
<1>1. /\ Places' = Places
      /\ \A j \in 1..Len(toEA) : j \in 1..Len(toEA') /\ toEA'[j] = toEA[j]
      /\ \A i \in Places : i - 1 <= Len(toEA)
  BY SendOther
<1>2. Answers' = Answers /\ Live' = Live /\ Asking' = Asking
  BY DEF Answers, Live, Asking
<1>3. Covered => Covered'
  BY <1>1, <1>2 DEF Covered, CancelQueued, CancelAt
<1>4. OneRequest'
  BY <1>1, <1>2 DEF OneRequest
<1>5. \A i \in Places : \A t \in Live : \E j \in 1..(i - 1) : CancelAt(j, t)'
  <2> SUFFICES ASSUME NEW i \in Places, NEW t \in Live
               PROVE  \E j \in 1..(i - 1) : CancelAt(j, t)'
    OBVIOUS
  <2>1. PICK j \in 1..(i - 1) : CancelAt(j, t)
    BY DEF OneLive
  <2>2. j \in 1..Len(toEA)
    BY <1>1 DEF Places
  <2> QED  BY <1>1, <2>1, <2>2 DEF CancelAt
<1>6. \A i \in Answers : Owned(toApp[i])'
  BY <1>2 DEF OneLive, Owned
<1>7. OneLive'
  BY <1>1, <1>2, <1>3, <1>5, <1>6 DEF OneLive, Owned
<1> QED  BY <1>4, <1>7

\* Place keeps the order invariant: it is the first command ever sent.
LEMMA PlaceOrder ==
    ASSUME OrderInv, Place, TypeOK' PROVE OrderInv'
<1> USE MessageTypes DEF OrderInv
<1>1. /\ link /\ Len(toEA) = 0 /\ Len(toEA') = 1 /\ toEA'[1] = Msg("place", NoTicket)
      /\ toApp' = <<>> /\ toApp = <<>> /\ placed = 0 /\ row = "none" /\ reader.kind = "none"
  BY SendEffect DEF Place, Stage
<1>2. /\ UNCHANGED <<row, ticket, placed, book, tracked, toApp, link, sweep, op, reader,
                     restore, raced>>
      /\ opener' \in {"first", "claimed"} /\ ack'.kind = "none"
  BY DEF Place, eaVars
<1>3. Live' = {}
  BY <1>1, <1>2, RestingAssumption DEF Live, Stage, TypeOK
<1>4. Places' = {1} /\ Answers' = {}
  BY <1>1 DEF Places, Answers
<1>5. Wire' /\ Stage'
  BY <1>1, <1>2 DEF Wire, Stage
<1>6. OneRequest'
  BY <1>2, <1>4 DEF OneRequest, Asking
<1>7. OneLive'
  BY <1>2, <1>3, <1>4 DEF OneLive, Owned, Covered
<1> QED  BY <1>5, <1>6, <1>7

\* SweepRearm keeps it: the placement is queued behind the cover.
LEMMA SweepRearmOrder ==
    ASSUME OrderInv, SweepRearm, TypeOK' PROVE OrderInv'
<1> USE MessageTypes DEF OrderInv
<1>1. /\ sweep.pc = "rearm"
      /\ UNCHANGED <<ticket, placed, book, tracked, toApp, link, opener, op, reader,
                     restore, raced>>
      /\ row # "none" /\ row # "working" /\ opener = "done"
  BY DEF SweepRearm, eaVars, Stage, TypeOK
<1>2. CASE Command(Msg("place", NoTicket)) /\ sweep' = At("await", NoTicket) /\ ack' = NoMsg
           /\ UNCHANGED row
  <2>1. /\ link /\ Len(toEA) \in Nat /\ Len(toEA') = Len(toEA) + 1
        /\ \A i \in 1..Len(toEA) : toEA'[i] = toEA[i]
        /\ toEA'[Len(toEA) + 1] = Msg("place", NoTicket)
    BY <1>2, SendEffect
  <2>2. sweep'.pc = "await" /\ ack'.kind = "none"
    BY <1>2 DEF At
  <2>3. Wire' /\ Stage'
    BY <1>1, <1>2, <2>1, <2>2 DEF Wire, Stage
  <2>4. ASSUME raced' = {} PROVE OneRequest' /\ OneLive'
    <3>1. Places = {} /\ Answers = {} /\ Covered
      BY <1>1, <2>4 DEF OneRequest, OneLive, Asking
    <3>2. Places' = {Len(toEA) + 1} /\ Answers' = {} /\ Live' = Live
      BY <1>1, <2>1, <3>1 DEF Places, Answers, Live
    <3>3. OneRequest'
      BY <2>2, <3>2 DEF OneRequest, Asking
    <3>4. \A t \in Live : \E j \in 1..Len(toEA) : CancelAt(j, t)'
      BY <2>1, <3>1 DEF Covered, CancelQueued, CancelAt
    <3>5. OneLive'
      BY <1>1, <1>2, <2>1, <2>2, <2>4, <3>2, <3>4 DEF OneLive, Owned, Covered, CancelQueued
    <3> QED  BY <3>3, <3>5
  <2> QED  BY <2>3, <2>4
<1>3. CASE UNCHANGED <<toEA, ack>> /\ sweep' = Idle /\ (row' = "expired" \/ UNCHANGED row)
  <2>1. sweep'.pc = "idle"
    BY <1>3 DEF Idle
  <2>2. Wire' /\ Stage'
    BY <1>1, <1>3, <2>1 DEF Wire, Stage
  <2>3. ASSUME raced' = {} PROVE OneRequest' /\ OneLive'
    <3>1. Places' = Places /\ Answers' = Answers /\ Live' = Live
      BY <1>1, <1>3 DEF Places, Answers, Live
    <3>2. Places = {} /\ Answers = {} /\ ack.kind = "none" /\ Covered
      BY <1>1, <2>3 DEF OneRequest, OneLive, Asking
    <3>3. Covered'
      BY <1>3, <3>1, <3>2 DEF Covered, CancelQueued, CancelAt
    <3>4. OneRequest'
      BY <1>3, <3>1, <3>2 DEF OneRequest
    <3>5. OneLive'
      BY <1>1, <1>3, <2>1, <2>3, <3>1, <3>2, <3>3 DEF OneLive
    <3> QED  BY <3>4, <3>5
  <2> QED  BY <2>2, <2>3
<1> QED  BY <1>2, <1>3 DEF SweepRearm

\* SweepWithdraw keeps it: the cancel it sends covers the live order.
LEMMA SweepWithdrawOrder ==
    ASSUME OrderInv, SweepWithdraw, TypeOK' PROVE OrderInv'
<1> USE MessageTypes DEF OrderInv
<1> DEFINE m == Msg("cancel", sweep.t)
<1>1. /\ sweep.pc = "withdraw" /\ m \in Commands /\ m.kind = "cancel" /\ m.t = sweep.t
      /\ UNCHANGED <<row, ticket, placed, book, tracked, toApp, link, opener, ack, op, reader,
                     restore, raced>>
      /\ \/ Command(m) /\ sweep' = At("sent", sweep.t)
         \/ SendFails(m) /\ sweep' = Idle
  BY DEF SweepWithdraw, eaVars, rowVars, TypeOK
<1> HIDE DEF m
<1>2. Wire' /\ Stage'
  BY <1>1 DEF Wire, Stage, Command, SendFails, At, Idle
<1>3. ASSUME raced' = {} PROVE OneRequest' /\ OneLive'
  <2>1. OneRequest /\ OneLive
    BY <1>1, <1>3
  <2>2. sweep'.pc = "sent" => Covered'
    <3> SUFFICES ASSUME sweep'.pc = "sent" PROVE Covered'
      OBVIOUS
    <3>1. Command(m)
      BY <1>1 DEF Idle
    <3>2. Len(toEA) + 1 \in 1..Len(toEA') /\ toEA'[Len(toEA) + 1] = m
      BY <1>1, <3>1, SendEffect
    <3>3. \A t \in Live' : t = m.t
      BY <1>1, <2>1 DEF OneLive, Live
    <3> QED  BY <1>1, <3>2, <3>3 DEF Covered, CancelQueued, CancelAt
  <2>3. sweep'.pc \in {"sent", "idle"} /\ sweep.pc = "withdraw"
    BY <1>1 DEF At, Idle
  <2> QED  BY <1>1, <2>1, <2>2, <2>3, SendKeeps
<1> QED  BY <1>2, <1>3

\* OperatorSend keeps it.
LEMMA OperatorSendOrder ==
    ASSUME OrderInv, OperatorSend, TypeOK' PROVE OrderInv'
<1> USE MessageTypes DEF OrderInv
<1> DEFINE m == Msg("cancel", op.t)
<1>1. /\ op.pc = "asked" /\ m \in Commands /\ m.kind = "cancel"
      /\ UNCHANGED <<row, ticket, placed, book, tracked, toApp, link, opener, ack, sweep,
                     reader, restore, raced>>
      /\ Command(m) \/ SendFails(m)
  BY DEF OperatorSend, eaVars, rowVars, TypeOK
<1> HIDE DEF m
<1>2. Wire' /\ Stage'
  BY <1>1 DEF Wire, Stage, Command, SendFails
<1>3. raced' = {} => OneRequest' /\ OneLive'
  BY <1>1, SendKeeps
<1> QED  BY <1>2, <1>3

\* PanelCancel keeps it.
LEMMA PanelCancelOrder ==
    ASSUME OrderInv, PanelCancel, TypeOK' PROVE OrderInv'
<1> USE MessageTypes DEF OrderInv
<1>1. PICK t \in {ticket, NoTicket} : Command(Msg("cancel", t))
  BY DEF PanelCancel
<1> DEFINE m == Msg("cancel", t)
<1>2. /\ row = "working" /\ m \in Commands /\ m.kind = "cancel" /\ Command(m)
      /\ UNCHANGED <<row, ticket, placed, book, tracked, toApp, link, opener, ack, sweep, op,
                     reader, restore, raced>>
  BY <1>1 DEF PanelCancel, eaVars, rowVars, taskVars, TypeOK
<1> HIDE DEF m
<1>3. Wire' /\ Stage'
  BY <1>2 DEF Wire, Stage, Command
<1>4. raced' = {} => OneRequest' /\ OneLive'
  BY <1>2, SendKeeps
<1> QED  BY <1>3, <1>4

\* RestoreRow keeps it.
LEMMA RestoreRowOrder ==
    ASSUME OrderInv, RestoreRow, TypeOK' PROVE OrderInv'
<1> USE MessageTypes DEF OrderInv
<1>1. /\ restore /\ restore' = FALSE
      /\ UNCHANGED <<row, ticket, placed, book, tracked, toApp, link, opener, ack, sweep, op,
                     reader>>
      /\ raced' = {} => raced = {}
  BY DEF RestoreRow, eaVars, rowVars
<1>2. CASE row = "working" /\ Command(Msg("restore", ticket))
  <2> DEFINE m == Msg("restore", ticket)
  <2>1. m \in Commands /\ m.kind = "restore" /\ Command(m)
    BY <1>2 DEF TypeOK
  <2> HIDE DEF m
  <2>2. Wire' /\ Stage'
    BY <1>1, <1>2, <2>1 DEF Wire, Stage, Command
  <2>3. raced' = {} => OneRequest' /\ OneLive'
    BY <1>1, <2>1, SendKeeps
  <2> QED  BY <2>2, <2>3
<1>3. CASE UNCHANGED toEA
  <2>1. Wire' /\ Stage'
    BY <1>1, <1>3 DEF Wire, Stage
  <2>2. Places' = Places /\ Answers' = Answers /\ Live' = Live /\ Asking' = Asking
        /\ Covered' = Covered
    BY <1>1, <1>3 DEF Places, Answers, Live, Asking, Covered, CancelQueued, CancelAt
  <2>3. raced' = {} => OneRequest' /\ OneLive'
    BY <1>1, <1>3, <2>2 DEF OneRequest, OneLive, Owned, CancelAt
  <2> QED  BY <2>1, <2>3
<1> QED  BY <1>2, <1>3 DEF RestoreRow

\* ReadAnswer keeps it: the answer moves from the socket to the box.
LEMMA ReadAnswerOrder ==
    ASSUME OrderInv, ReadAnswer, TypeOK' PROVE OrderInv'
<1> USE MessageTypes DEF OrderInv
<1>1. /\ toApp # <<>> /\ toApp' = Tail(toApp) /\ Head(toApp).kind \in {"placed", "failed"}
      /\ ack' = IF Asking THEN Head(toApp) ELSE ack
      /\ UNCHANGED <<row, ticket, placed, book, tracked, toEA, link, opener, sweep, op, reader,
                     restore, raced>>
  BY DEF ReadAnswer, Asking, eaVars, rowVars
<1>2. /\ Len(toApp) \in Nat /\ Head(toApp) = toApp[1] /\ 1 \in Answers
      /\ \A i \in Answers' : i + 1 \in Answers /\ i \in Nat \ {0}
  BY <1>1, ReadEffect DEF Answers, TypeOK
<1>3. Wire' /\ Stage'
  BY <1>1 DEF Wire, Stage
<1>4. ASSUME raced' = {} PROVE OneRequest' /\ OneLive'
  <2>1. Asking /\ Asking' /\ Places = {} /\ ack' = toApp[1]
    BY <1>1, <1>2, <1>4 DEF OneRequest, Asking
  <2>2. Answers' = {}
    BY <1>1, <1>2, <1>4 DEF OneRequest
  <2>3. Places' = {} /\ Live' = Live /\ Covered' = Covered
    BY <1>1, <2>1 DEF Places, Live, Covered, CancelQueued, CancelAt
  <2>4. Owned(ack)'
    BY <1>1, <1>2, <1>4, <2>1, <2>3 DEF OneLive, Owned
  <2>5. OneRequest'
    BY <2>1, <2>2, <2>3 DEF OneRequest
  <2>6. OneLive'
    BY <1>1, <1>4, <2>2, <2>3, <2>4 DEF OneLive, Owned
  <2> QED  BY <2>5, <2>6
<1> QED  BY <1>3, <1>4

\* ReadReport keeps it.
LEMMA ReadReportOrder ==
    ASSUME OrderInv, ReadReport, TypeOK' PROVE OrderInv'
<1> USE MessageTypes DEF OrderInv
<1>1. /\ toApp # <<>> /\ toApp' = Tail(toApp) /\ reader'.seen = row /\ opener # "idle"
      /\ UNCHANGED <<row, ticket, placed, book, tracked, toEA, link, opener, ack, sweep, op,
                     restore>>
      /\ raced' = {} => raced = {}
  BY DEF ReadReport, eaVars, rowVars, Stage
<1>2. /\ \A i \in Answers' : i + 1 \in Answers /\ i \in Nat \ {0} /\ toApp'[i] = toApp[i + 1]
  BY <1>1, ReadEffect DEF Answers, TypeOK
<1>3. Wire' /\ Stage'
  <2>1. toApp # <<>> => link
    BY DEF Wire, TypeOK
  <2> QED  BY <1>1, <2>1 DEF Wire, Stage
<1>4. ASSUME raced' = {} PROVE OneRequest' /\ OneLive'
  <2>1. Places' = Places /\ Live' = Live /\ Covered' = Covered /\ Asking' = Asking
    BY <1>1 DEF Places, Live, Covered, CancelQueued, CancelAt, Asking
  <2>2. OneRequest'
    BY <1>1, <1>2, <1>4, <2>1 DEF OneRequest
  <2>3. \A i \in Answers' : Owned(toApp[i])'
    <3> SUFFICES ASSUME NEW i \in Answers' PROVE Owned(toApp[i])'
      OBVIOUS
    <3>1. i + 1 \in Answers /\ toApp'[i] = toApp[i + 1]
      BY <1>2
    <3>2. Owned(toApp[i + 1])
      BY <1>1, <1>4, <3>1 DEF OneLive
    <3> QED  BY <2>1, <3>1, <3>2 DEF Owned
  <2>4. /\ \A i \in Places : \A t \in Live : \E j \in 1..(i - 1) : CancelAt(j, t)'
        /\ ack.kind # "none" => Owned(ack)'
    BY <1>1, <1>4, <2>1 DEF OneLive, CancelAt, Owned
  <2>5. OneLive'
    BY <1>1, <1>4, <2>1, <2>3, <2>4 DEF OneLive
  <2> QED  BY <2>2, <2>5
<1> QED  BY <1>3, <1>4

\* A command that is no placement is handled: the request does not move, and a
\* live order loses its cancel only by being cancelled.
LEMMA HandleKeeps ==
    ASSUME TypeOK, OneRequest, OneLive, toEA # <<>>, toEA' = Tail(toEA),
           Head(toEA).kind # "place",
           Live' \subseteq Live,
           Head(toEA).kind = "cancel" => Head(toEA).t \notin Live',
           UNCHANGED <<opener, ack, row, ticket, sweep>>,
           Answers' = Answers, \A i \in Answers : toApp'[i] = toApp[i]
    PROVE  OneRequest' /\ OneLive'
<1>1. /\ Len(toEA) \in Nat /\ Len(toEA) >= 1 /\ Len(toEA') = Len(toEA) - 1
      /\ \A i \in 1..(Len(toEA) - 1) : toEA'[i] = toEA[i + 1]
      /\ Head(toEA) = toEA[1]
      /\ \A i \in Places' : i + 1 \in Places /\ i \in 1..(Len(toEA) - 1)
  BY HandleEffect
<1>2. Asking' = Asking
  BY DEF Asking
<1>3. OneRequest'
  BY <1>1, <1>2 DEF OneRequest
<1>4. ASSUME NEW t \in Live', NEW k \in 1..Len(toEA), CancelAt(k, t)
      PROVE  k - 1 \in 1..Len(toEA') /\ CancelAt(k - 1, t)'
  <2>1. k # 1
    BY <1>1, <1>4 DEF CancelAt
  <2> QED  BY <1>1, <1>4, <2>1 DEF CancelAt
<1>5. Covered => Covered'
  BY <1>4 DEF Covered, CancelQueued
<1>6. \A i \in Places' : \A t \in Live' : \E j \in 1..(i - 1) : CancelAt(j, t)'
  <2> SUFFICES ASSUME NEW i \in Places', NEW t \in Live'
               PROVE  \E j \in 1..(i - 1) : CancelAt(j, t)'
    OBVIOUS
  <2>1. PICK k \in 1..i : CancelAt(k, t)
    <3>1. i + 1 \in Places /\ i \in Nat
      BY <1>1
    <3>2. \E j \in 1..((i + 1) - 1) : CancelAt(j, t)
      BY <3>1 DEF OneLive
    <3> QED  BY <3>1, <3>2
  <2>2. k \in 1..Len(toEA) /\ i \in 1..(Len(toEA) - 1)
    BY <1>1
  <2> QED  BY <1>1, <1>4, <2>1, <2>2
<1>7. OneLive'
  BY <1>5, <1>6 DEF OneLive, Owned
<1> QED  BY <1>3, <1>7

\* EaPlaces keeps it: by its turn, every earlier order is gone.
LEMMA EaPlacesOrder ==
    ASSUME OrderInv, EaPlaces, TypeOK' PROVE OrderInv'
<1> USE MessageTypes, RestingAssumption DEF OrderInv
<1>1. /\ toEA # <<>> /\ toEA' = Tail(toEA) /\ Head(toEA).kind = "place"
      /\ UNCHANGED <<row, ticket, link, opener, ack, sweep, op, reader, restore, raced>>
      /\ link /\ opener # "idle"
  BY DEF EaPlaces, rowVars, taskVars, Wire, Stage, TypeOK
<1>2. PICK m \in Reports :
          /\ m.kind \in {"placed", "failed"} /\ toApp' = Append(toApp, m)
          /\ \/ /\ m.kind = "placed" /\ m.t = placed + 1 /\ placed < MaxTickets
                /\ placed' = placed + 1
                /\ book' = [book EXCEPT ![placed + 1] = "resting"]
                /\ tracked' = [tracked EXCEPT ![placed + 1] = 1]
             \/ UNCHANGED <<placed, book, tracked>>
  <2>1. CASE UNCHANGED eaVars /\ Report(Msg("failed", NoTicket))
    BY <1>1, <2>1 DEF Report, eaVars
  <2>2. CASE /\ placed < MaxTickets /\ placed' = placed + 1
             /\ book' = [book EXCEPT ![placed + 1] = "resting"]
             /\ tracked' = [tracked EXCEPT ![placed + 1] = 1]
             /\ Report(Msg("placed", placed + 1))
    <3>1. placed + 1 \in Numbers
      BY <2>2 DEF TypeOK
    <3>2. Msg("placed", placed + 1) \in Reports
      BY <3>1
    <3> QED  BY <1>1, <2>2, <3>2 DEF Report
  <2> QED  BY <2>1, <2>2 DEF EaPlaces
<1>3. /\ Len(toApp) \in Nat /\ Len(toApp') = Len(toApp) + 1
      /\ \A i \in 1..Len(toApp) : toApp'[i] = toApp[i]
      /\ toApp'[Len(toApp) + 1] = m
  BY <1>2, AppendFacts DEF TypeOK
<1>4. Wire' /\ Stage'
  BY <1>1, <1>2 DEF Wire, Stage, TypeOK
<1>5. ASSUME raced' = {} PROVE OneRequest' /\ OneLive'
  <2>1. /\ 1 \in Places
        /\ \A i \in Places' : i + 1 \in Places /\ i \in Nat \ {0}
    BY <1>1, HandleEffect DEF Places, TypeOK
  <2>2. Live = {} /\ Answers = {} /\ ack.kind = "none" /\ Asking /\ Asking' /\ Places' = {}
    <3>1. \A t \in Live : \E j \in 1..0 : CancelAt(j, t)
      BY <1>1, <1>5, <2>1 DEF OneLive
    <3> QED  BY <1>1, <1>5, <2>1, <3>1 DEF OneRequest, Asking
  <2>3. Answers' = {Len(toApp) + 1}
    BY <1>2, <1>3, <2>2 DEF Answers
  <2>4. \A t \in Live' : m.kind = "placed" /\ t = m.t
    <3>1. \A t \in Tickets : book[t] \notin {"resting", "position", "closed"}
      BY <2>2 DEF Live
    <3>2. \A t \in Tickets : book'[t] # book[t] => m.kind = "placed" /\ t = m.t
      <4> HIDE MessageTypes, RestingAssumption DEF OrderInv
      <4>1. book \in [Tickets -> {"none", "resting", "position", "closed", "gone"}]
        BY DEF OrderInv, TypeOK
      <4> QED  BY <1>2, <4>1
    <3> QED  BY <3>1, <3>2 DEF Live
  <2>5. OneRequest'
    BY <1>1, <2>2, <2>3 DEF OneRequest
  <2>6. \A i \in Answers' : Owned(toApp[i])'
    BY <1>3, <2>3, <2>4 DEF Owned
  <2>7. row # "working" /\ sweep.pc \notin {"withdraw", "sent", "rearm"}
        /\ (row = "withdrawn" => sweep.pc = "await")
    BY <2>2 DEF Asking, Stage
  <2>8. opener = "done" => row # "none"
    BY <2>2 DEF Asking, Stage
  <2>9. OneLive'
    BY <1>1, <2>2, <2>4, <2>6, <2>7, <2>8 DEF OneLive
  <2> QED  BY <2>5, <2>9
<1> QED  BY <1>4, <1>5

\* EaCancels keeps it: a cancelled order is gone, a cancel that deletes none is a race.
LEMMA EaCancelsOrder ==
    ASSUME OrderInv, EaCancels, TypeOK' PROVE OrderInv'
<1> USE MessageTypes, RestingAssumption DEF OrderInv
<1>1. /\ toEA # <<>> /\ toEA' = Tail(toEA) /\ Head(toEA).kind = "cancel"
      /\ Head(toEA).t \in Numbers
      /\ UNCHANGED <<row, ticket, link, opener, ack, sweep, op, reader, restore>>
      /\ link /\ opener # "idle"
  BY Queues DEF EaCancels, rowVars, taskVars, Wire, Stage, TypeOK
<1>2. CASE UNCHANGED <<placed, book, tracked, toApp>>
  <2>1. Wire' /\ Stage'
    BY <1>1, <1>2 DEF Wire, Stage
  <2>2. ASSUME raced' = {} PROVE OneRequest' /\ OneLive'
    <3>1. Live' = Live /\ Answers' = Answers
      BY <1>2 DEF Live, Answers
    <3>2. raced = {} /\ Head(toEA).t \notin Live
      <4>1. \/ Head(toEA).t = NoTicket \/ book'[Head(toEA).t] = "gone"
            \/ raced' = raced \cup {"crossed"} \/ raced' = raced \cup {"undeleted"}
        BY <1>1, <1>2 DEF EaCancels, TypeOK
      <4> QED  BY <1>2, <2>2, <4>1 DEF Live, EaCancels
    <3> QED  BY <1>1, <1>2, <2>2, <3>1, <3>2, HandleKeeps
  <2> QED  BY <2>1, <2>2
<1> DEFINE Cancels(t) ==
               /\ Head(toEA).t # NoTicket => t = Head(toEA).t
               /\ book[t] = "resting" /\ book' = [book EXCEPT ![t] = "gone"]
               /\ tracked' = [tracked EXCEPT ![t] = IF @ > 0 THEN @ - 1 ELSE 0]
               /\ Report(Msg("cancelled", t)) /\ UNCHANGED <<placed, raced>>
<1>3. ASSUME NEW t \in Tickets, Cancels(t)
      PROVE  Wire' /\ Stage' /\ (raced' = {} => OneRequest' /\ OneLive')
  <2>1. Live' \subseteq Live /\ t \notin Live'
    BY <1>3 DEF Live, TypeOK
  <2>2. /\ Answers' = Answers /\ \A i \in Answers : toApp'[i] = toApp[i]
    <3>1. Msg("cancelled", t) \in Reports /\ Msg("cancelled", t).kind = "cancelled"
      OBVIOUS
    <3> QED  BY <1>3, <3>1, ReportOther DEF Answers
  <2>3. Wire' /\ Stage'
    <3>1. t <= placed
      BY <1>3 DEF Stage, TypeOK
    <3>2. \A u \in Tickets : u # t => book'[u] = book[u] /\ tracked'[u] = tracked[u]
      BY <1>3 DEF TypeOK
    <3>3. \A u \in Tickets : u > placed' => book'[u] = "none" /\ tracked'[u] = 0
      BY <1>3, <3>1, <3>2 DEF Stage, TypeOK
    <3> QED  BY <1>1, <3>3 DEF Wire, Stage
  <2>4. raced' = {} => OneRequest' /\ OneLive'
    <3>1. Head(toEA).t \notin Live'
      BY <1>3, <2>1 DEF Live
    <3> QED  BY <1>1, <1>3, <2>1, <2>2, <3>1, HandleKeeps
  <2> QED  BY <2>3, <2>4
<1>4. UNCHANGED <<placed, book, tracked, toApp>> \/ \E t \in Tickets : Cancels(t)
  <2>1. Head(toEA).t # NoTicket => Head(toEA).t \in Tickets
    BY <1>1
  <2> QED  BY <2>1 DEF EaCancels, eaVars
<1> HIDE DEF Cancels
<1> QED  BY <1>2, <1>3, <1>4

\* EaRestores keeps it.
LEMMA EaRestoresOrder ==
    ASSUME OrderInv, EaRestores, TypeOK' PROVE OrderInv'
<1> USE MessageTypes, RestingAssumption DEF OrderInv
<1> DEFINE t == Head(toEA).t
<1>1. /\ toEA # <<>> /\ toEA' = Tail(toEA) /\ Head(toEA).kind = "restore" /\ t \in Numbers
      /\ UNCHANGED <<row, ticket, placed, book, link, opener, ack, sweep, op, reader, restore>>
      /\ link /\ opener # "idle"
  BY Queues DEF EaRestores, rowVars, taskVars, Wire, Stage, TypeOK
<1>2. /\ raced' = {} => raced = {}
      /\ \/ UNCHANGED toApp
         \/ Report(Msg("filled", t)) \/ Report(Msg("cancelled", t))
      /\ \/ UNCHANGED tracked
         \/ book[t] = "resting" /\ tracked' = [tracked EXCEPT ![t] = @ + 1]
  BY DEF EaRestores
<1>3. /\ Answers' = Answers /\ \A i \in Answers : toApp'[i] = toApp[i]
  <2>1. CASE UNCHANGED toApp
    BY <2>1 DEF Answers
  <2>2. /\ Msg("filled", t) \in Reports /\ Msg("filled", t).kind = "filled"
        /\ Msg("cancelled", t) \in Reports /\ Msg("cancelled", t).kind = "cancelled"
    BY <1>1
  <2> HIDE DEF t
  <2> QED  BY <1>2, <2>1, <2>2, ReportOther DEF Answers
<1>4. Wire' /\ Stage'
  <2> HIDE DEF t
  <2>1. \A u \in Tickets : u > placed => tracked'[u] = tracked[u]
    BY <1>2 DEF Stage, TypeOK
  <2> QED  BY <1>1, <2>1 DEF Wire, Stage
<1>5. raced' = {} => OneRequest' /\ OneLive'
  <2>1. Live' = Live
    BY <1>1 DEF Live
  <2> QED  BY <1>1, <1>2, <1>3, <2>1, HandleKeeps
<1> QED  BY <1>4, <1>5

\* EaChecks keeps it.
LEMMA EaChecksOrder ==
    ASSUME OrderInv, NEW t \in Tickets, EaChecks(t), TypeOK' PROVE OrderInv'
<1> USE MessageTypes, RestingAssumption DEF OrderInv
<1>1. /\ UNCHANGED <<row, ticket, placed, book, toEA, link, opener, ack, sweep, op, reader,
                     restore, raced>>
      /\ Report(Msg("filled", t)) \/ Report(Msg("cancelled", t))
      /\ tracked[t] > 0 /\ tracked' = [tracked EXCEPT ![t] = @ - 1]
  BY DEF EaChecks, rowVars, taskVars
<1>2. /\ Answers' = Answers /\ \A i \in Answers : toApp'[i] = toApp[i]
      /\ ~link => toApp' = toApp
  <2>1. /\ Msg("filled", t) \in Reports /\ Msg("filled", t).kind = "filled"
        /\ Msg("cancelled", t) \in Reports /\ Msg("cancelled", t).kind = "cancelled"
    OBVIOUS
  <2> QED  BY <1>1, <2>1, ReportOther DEF Answers
<1>3. opener # "idle" /\ t <= placed
  BY <1>1 DEF Stage, TypeOK
<1>4. Wire' /\ Stage'
  BY <1>1, <1>2, <1>3 DEF Wire, Stage, TypeOK
<1>5. raced' = {} => OneRequest' /\ OneLive'
  <2>1. Live' = Live /\ Places' = Places /\ Asking' = Asking /\ Covered' = Covered
    BY <1>1 DEF Live, Places, Asking, Covered, CancelQueued, CancelAt
  <2> QED  BY <1>1, <1>2, <2>1 DEF OneRequest, OneLive, Owned, CancelAt
<1> QED  BY <1>4, <1>5

\* LinkDown keeps it: what travelled is lost; a lost cancel is a race.
LEMMA LinkDownOrder ==
    ASSUME OrderInv, LinkDown, TypeOK' PROVE OrderInv'
<1> USE MessageTypes DEF OrderInv
<1>1. /\ link' = FALSE /\ toEA' = <<>> /\ toApp' = <<>> /\ restore' = FALSE
      /\ UNCHANGED <<row, ticket, placed, book>>
      /\ opener' \in {opener, "done"} /\ (opener' = "idle" <=> opener = "idle")
      /\ raced' = {} => raced = {} /\ Lost = {}
  BY DEF LinkDown, rowVars
<1>2. \/ UNCHANGED <<opener, ack, sweep, op, reader>>
      \/ /\ ack' = NoMsg /\ sweep' = Idle /\ op' = Idle /\ reader' = NotReading
         /\ opener' = IF opener \in {"first", "claimed"} THEN "done" ELSE opener
         /\ opener \in {"first", "claimed"} \/ sweep.pc = "await" => raced' # {}
  BY DEF LinkDown
<1>3. tracked' = tracked \/ tracked' = [t \in Tickets |-> 0]
  BY DEF LinkDown
<1>4. Wire'
  BY <1>1 DEF Wire
<1>5. Stage'
  <2>1. \A t \in Tickets : t > placed => book[t] = "none" /\ tracked'[t] = 0
    <3>1. CASE tracked' = tracked
      BY <3>1 DEF Stage
    <3>2. CASE tracked' = [t \in Tickets |-> 0]
      <4>1. \A t \in Tickets : tracked'[t] = 0
        BY <3>2
      <4> QED  BY <4>1 DEF Stage
    <3> QED  BY <1>3, <3>1, <3>2
  <2>2. CASE UNCHANGED <<opener, ack, sweep, op, reader>>
    BY <1>1, <2>1, <2>2 DEF Stage
  <2>3. CASE /\ ack' = NoMsg /\ sweep' = Idle /\ op' = Idle /\ reader' = NotReading
             /\ opener' = IF opener \in {"first", "claimed"} THEN "done" ELSE opener
    <3>1. /\ ack'.kind = "none" /\ sweep'.pc = "idle" /\ op'.pc = "idle"
          /\ reader'.kind = "none" /\ reader'.seen = "none"
          /\ opener' \notin {"first", "claimed"} /\ (opener' = "idle" => opener = "idle")
      BY <2>3 DEF Idle, NotReading
    <3> QED  BY <1>1, <2>1, <3>1 DEF Stage
  <2> QED  BY <1>2, <2>2, <2>3
<1>6. ASSUME raced' = {} PROVE OneRequest' /\ OneLive'
  <2>1. Places' = {} /\ Answers' = {} /\ Live' = Live
    BY <1>1 DEF Places, Answers, Live
  <2>2. \A t \in Tickets : ~CancelQueued(t)
    BY <1>1, <1>6 DEF CancelQueued, CancelAt, Lost
  <2>3. Covered => Live = {}
    BY <2>2 DEF Covered, Live
  <2>4. CASE UNCHANGED <<opener, ack, sweep, op, reader>>
    <3>1. Asking' = Asking
      BY <2>4 DEF Asking
    <3> QED  BY <1>1, <1>6, <2>1, <2>3, <2>4, <3>1 DEF OneRequest, OneLive, Owned, Covered
  <2>5. CASE /\ ack' = NoMsg /\ sweep' = Idle /\ UNCHANGED opener
             /\ opener \notin {"first", "claimed"} /\ sweep.pc # "await"
    <3>1. ack'.kind = "none" /\ sweep'.pc = "idle"
      BY <2>5 DEF Idle
    <3> QED  BY <1>1, <1>6, <2>1, <2>3, <2>5, <3>1 DEF OneRequest, OneLive, Owned, Covered
  <2> QED  BY <1>2, <1>6, <2>4, <2>5
<1> QED  BY <1>4, <1>5, <1>6

\* The order invariant holds in every reachable state.
LEMMA OrderInvHolds == Spec => []OrderInv
<1>1. Init => OrderInv
  <2> SUFFICES ASSUME Init PROVE OrderInv
    OBVIOUS
  <2>1. TypeOK
    <3>1. RowTypes
      BY DEF Init, RowTypes, Signals_, Rows
    <3>0. LinkTypes
      <4>1. drops \in 0..MaxDrops
        BY RestingAssumption DEF Init
      <4>2. link \in BOOLEAN /\ restore \in BOOLEAN
        BY DEF Init
      <4> QED  BY <4>1, <4>2 DEF LinkTypes
    <3>2. EaTypes
      BY RestingAssumption DEF Init, EaTypes
    <3>3. TaskTypes
      BY DEF Init, TaskTypes, Idle, NotReading, Rows
    <3>4. toEA \in Seq(Commands) /\ toApp \in Seq(Reports) /\ raced \subseteq Races
      BY DEF Init
    <3> QED  BY <3>0, <3>1, <3>2, <3>3, <3>4 DEF TypeOK, RowTypes, EaTypes, LinkTypes, TaskTypes
  <2>2. /\ ack.kind = "none" /\ sweep.pc = "idle" /\ op.pc = "idle" /\ reader.kind = "none"
        /\ reader.seen = "none" /\ Len(toEA) = 0 /\ Len(toApp) = 0
    BY MessageTypes DEF Init, Idle, NotReading
  <2>3. Live = {} /\ Places = {} /\ Answers = {}
    BY <2>2 DEF Init, Live, Places, Answers
  <2> QED  BY <2>1, <2>2, <2>3 DEF Init, OrderInv, Wire, Stage, OneRequest, OneLive, Asking
<1>2. OrderInv /\ [Next]_vars => OrderInv'
  <2> SUFFICES ASSUME OrderInv, [Next]_vars PROVE OrderInv'
    OBVIOUS
  <2>1. TypeOK'
    BY TypesStep DEF OrderInv
  <2>2. CASE UNCHANGED vars
    <3>1. Live' = Live /\ Places' = Places /\ Answers' = Answers /\ Asking' = Asking
          /\ Covered' = Covered
      BY <2>2 DEF vars, rowVars, eaVars, sockVars, taskVars, Live, Places, Answers, Asking,
         Covered, CancelQueued, CancelAt
    <3>2. Wire' /\ Stage' /\ (raced' = {} => OneRequest')
      BY <2>2, <3>1 DEF OrderInv, vars, rowVars, eaVars, sockVars, taskVars, Wire, Stage,
         OneRequest
    <3>3. raced' = {} => OneLive'
      BY <2>2, <3>1 DEF OrderInv, vars, rowVars, eaVars, sockVars, taskVars, OneLive, Owned,
         CancelAt
    <3> QED  BY <2>1, <3>2, <3>3 DEF OrderInv
  <2>3. CASE StoreSignal \/ Place \/ AppStep \/ SweepRead \/ SweepRearm
    BY <2>1, <2>3, StoreSignalOrder, PlaceOrder, PlaceAckOrder, PlaceFailsOrder,
       SweepWithdrawOrder, SweepMarkOrder, SweepRearmedOrder, SweepRearmFailsOrder,
       OperatorSendOrder, OperatorMarkOrder, SweepReadOrder, SweepRearmOrder DEF AppStep
  <2>4. CASE \/ CancelSignal \/ PanelCancel \/ WatcherExpires \/ WatcherOpens
             \/ ReleaseClaim \/ Lapse \/ ReaderStep
    BY <2>1, <2>4, CancelSignalOrder, PanelCancelOrder, WatcherExpiresOrder,
       WatcherOpensOrder, ReleaseClaimOrder, LapseOrder, ReadAnswerOrder, ReadReportOrder,
       ApplyCancelledOrder, ApplyFilledOrder DEF ReaderStep
  <2>5. CASE EaStep \/ CheckStep \/ LinkDown \/ LinkUp \/ RestoreRow
    BY <2>1, <2>5, EaPlacesOrder, EaCancelsOrder, EaRestoresOrder, EaChecksOrder,
       LinkDownOrder, LinkUpOrder, RestoreRowOrder DEF EaStep, CheckStep
  <2>6. CASE \E t \in Tickets : Fill(t) \/ Remove(t) \/ Blink(t)
    BY <2>1, <2>6, FillOrder, RemoveOrder, BlinkOrder
  <2> QED  BY <2>2, <2>3, <2>4, <2>5, <2>6 DEF Next
<1> QED  BY <1>1, <1>2, PTL DEF Spec

\* Every variable of the setup keeps its type.
THEOREM RestingTypes == Spec => []TypeOK
<1>1. OrderInv => TypeOK
  BY DEF OrderInv
<1> QED  BY <1>1, OrderInvHolds, PTL

\* A setup that has been through none of the named races has at most one order
\* that rests or has filled, however often the sweep withdrew and re-armed it
\* and the connection was lost.
THEOREM OneLiveOrder == Spec => []OneOrder
<1>1. OrderInv => OneOrder
  <2> SUFFICES ASSUME OrderInv, raced = {} PROVE Cardinality(Live) <= 1
    BY DEF OneOrder
  <2>1. \A t, u \in Live : t = u
    BY DEF OrderInv, OneLive
  <2>2. CASE Live = {}
    BY <2>2, FS_EmptySet
  <2>3. CASE Live # {}
    <3>1. PICK t \in Live : Live = {t}
      BY <2>1, <2>3
    <3>2. Cardinality({t}) = 1
      BY FS_Singleton
    <3> QED  BY <3>1, <3>2
  <2> QED  BY <2>2, <2>3
<1> QED  BY <1>1, OrderInvHolds, PTL

-----------------------------------------------------------------------------
(* The row tells the book                                                   *)

\* A cancel that will meet no resting order, and an answer that will not come:
\* the race is not noted yet and cannot be avoided any more.
Bound ==
    \E j \in 1..Len(toEA) :
        /\ toEA[j].kind = "cancel" /\ toEA[j].t \in Tickets
        /\ \/ book[toEA[j].t] \notin {"none", "resting"}
           \/ \E i \in 1..(j - 1) : CancelAt(i, toEA[j].t)

Unanswered == Asking /\ Places = {} /\ Answers = {} /\ ack.kind = "none"

Clean == raced = {} /\ ~Bound /\ ~Unanswered

\* A placement has succeeded and its task does not know yet.
Fresh == ack.kind = "placed" \/ \E i \in 1..Len(toApp) : toApp[i].kind = "placed"

\* The last order placed is the current one; nothing speaks of a later one,
\* and what is behind it is gone.
Books ==
    /\ \A j \in 1..Len(toEA) : toEA[j].kind = "restore" => toEA[j].t = placed /\ placed > 0
    /\ \A j \in 1..Len(toEA) : toEA[j].kind = "cancel" => toEA[j].t <= placed
    /\ \A t \in Tickets : t < placed => book[t] = "gone" /\ tracked[t] = 0
    /\ placed > 0 => book[placed] \in {"resting", "position", "gone"}
    /\ \A t \in Tickets : tracked[t] <= 1
    /\ ticket <= placed /\ (Fresh => ticket < placed)
    /\ row = "working" => ticket = placed /\ placed > 0
    /\ row = "none" /\ ~Fresh => placed = 0
    /\ op.pc # "idle" => called /\ op.t # NoTicket /\ op.t <= ticket
    /\ sweep.pc = "withdraw" => sweep.t # NoTicket /\ sweep.t <= ticket
    /\ \A i \in 1..Len(toApp) : toApp[i].kind = "placed" => toApp[i].t = placed
    /\ ack.kind = "placed" => ack.t = placed

\* A report says what the broker has, and is of the current order unless the
\* answer that makes the next one current is behind it.
Fits(m) == m.t \in Tickets /\ book[m.t] = IF m.kind = "filled" THEN "position" ELSE "gone"

Reported ==
    /\ \A i \in 1..Len(toApp) : toApp[i].kind \in {"filled", "cancelled"} =>
           /\ Fits(toApp[i])
           /\ toApp[i].t # placed => \E j \in (i + 1)..Len(toApp) : toApp[j].kind = "placed"
    /\ reader.kind # "none" =>
           /\ Fits(reader) /\ opener = "done" /\ ack.kind = "none"
           /\ sweep.pc # "sent" /\ op.pc # "sent"
           /\ reader.t = placed \/ sweep.pc = "await"
           /\ reader.seen = row \/ (reader.seen = "withdrawn" /\ row = "expired")

\* The current order has left the book or is about to.
Off == placed > 0 => \/ book[placed] = "gone"
                     \/ book[placed] = "resting" /\ CancelQueued(placed)

\* A restore that is on its way comes before the cancel.
RestoresEnd == \A i \in 1..Len(toEA) : toEA[i].kind = "restore" =>
                   \E j \in (i + 1)..Len(toEA) : CancelAt(j, placed)

\* The withdrawn order is gone for good: nothing will report it again.
Withdrawn ==
    /\ Off
    /\ placed > 0 /\ book[placed] = "gone" => tracked[placed] = 0
    /\ RestoresEnd

Settled ==
    /\ sweep.pc \in {"rearm", "await"} => row = "withdrawn"
    /\ sweep.pc = "sent" => row = "working" /\ Withdrawn
    /\ row = "withdrawn" /\ ~Fresh => Withdrawn
    /\ op.pc = "sent" => row = "working" /\ Off /\ sweep.pc # "sent"
    /\ row \in {"cancelled", "expired"} => Off
    /\ row = "filled" => /\ sweep.pc = "idle" /\ op.pc = "idle" /\ filledBy = placed
                         /\ placed > 0 /\ book[placed] = "position"
    /\ filledBy # NoTicket => row = "filled"

\* Somebody will look at the order the app believes to rest, and if it does not
\* rest any more, somebody will say so.
Eyed == ~link \/ restore \/ tracked[placed] > 0
        \/ \E j \in 1..Len(toEA) : toEA[j].kind = "restore"
Told == \/ reader.kind # "none" /\ reader.t = placed
        \/ \E i \in 1..Len(toApp) : toApp[i].kind \in {"filled", "cancelled"}
                                    /\ toApp[i].t = placed
Heard ==
    row = "working" \/ Fresh =>
        /\ book[placed] = "resting" => Eyed
        /\ Eyed \/ Told \/ book[placed] = "resting" \/ sweep.pc = "sent" \/ op.pc = "sent"

SetupInv == Clean => Books /\ Reported /\ Settled /\ Heard

\* A race that has been noted stays noted.
LEMMA RacedGrows ==
    ASSUME Next, raced' = {} PROVE raced = {}
<1>1. CASE StoreSignal \/ Place \/ AppStep \/ SweepRead \/ SweepRearm
  BY <1>1 DEF StoreSignal, Place, AppStep, SweepRead, SweepRearm, PlaceAck, PlaceFails,
     SweepWithdraw, SweepMark, SweepRearmed, SweepRearmFails, OperatorSend, OperatorMark
<1>2. CASE \/ CancelSignal \/ PanelCancel \/ WatcherExpires \/ WatcherOpens
           \/ ReleaseClaim \/ Lapse \/ ReaderStep
  BY <1>2 DEF CancelSignal, PanelCancel, WatcherExpires, WatcherOpens, ReleaseClaim, Lapse,
     ReaderStep, ReadAnswer, ReadReport, ApplyCancelled, ApplyFilled
<1>3. CASE EaStep \/ CheckStep \/ LinkDown \/ LinkUp \/ RestoreRow
  BY <1>3 DEF EaStep, EaPlaces, EaCancels, EaRestores, CheckStep, EaChecks, LinkDown,
     LinkUp, RestoreRow
<1>4. CASE \E t \in Tickets : Fill(t) \/ Remove(t) \/ Blink(t)
  BY <1>4 DEF Fill, Remove, Blink
<1> QED  BY <1>1, <1>2, <1>3, <1>4 DEF Next

\* An order that has left the book never rests again.
LEMMA LeftForGood ==
    ASSUME OrderInv, Next, NEW t \in Tickets, book[t] \notin {"none", "resting"}
    PROVE  book'[t] \notin {"none", "resting"}
<1> USE DEF OrderInv, TypeOK
<1>1. CASE UNCHANGED book
  BY <1>1
<1>2. CASE EaPlaces
  <2>1. t # placed + 1
    BY DEF Stage
  <2> QED  BY <1>2, <2>1 DEF EaPlaces, eaVars
<1>3. CASE EaCancels
  BY <1>3 DEF EaCancels, eaVars
<1>4. CASE \E u \in Tickets : Fill(u) \/ Remove(u) \/ Blink(u)
  BY <1>4 DEF Fill, Remove, Blink
<1>5. CASE StoreSignal \/ Place \/ AppStep \/ SweepRead \/ SweepRearm
  BY <1>1, <1>5 DEF StoreSignal, Place, AppStep, SweepRead, SweepRearm, PlaceAck, PlaceFails,
     SweepWithdraw, SweepMark, SweepRearmed, SweepRearmFails, OperatorSend, OperatorMark, eaVars
<1>6. CASE \/ CancelSignal \/ PanelCancel \/ WatcherExpires \/ WatcherOpens
           \/ ReleaseClaim \/ Lapse \/ ReaderStep
  BY <1>1, <1>6 DEF CancelSignal, PanelCancel, WatcherExpires, WatcherOpens, ReleaseClaim,
     Lapse, ReaderStep, ReadAnswer, ReadReport, ApplyCancelled, ApplyFilled, eaVars
<1>7. CASE EaRestores \/ CheckStep \/ LinkDown \/ LinkUp \/ RestoreRow
  BY <1>1, <1>7 DEF EaRestores, CheckStep, EaChecks, LinkDown, LinkUp, RestoreRow, eaVars
<1> QED  BY <1>2, <1>3, <1>4, <1>5, <1>6, <1>7 DEF Next, EaStep

\* What a step does to the commands that are queued: nothing, one more at the
\* end, one less at the front, or all of them lost.
LEMMA QueueMoves ==
    ASSUME OrderInv, Next
    PROVE  \/ toEA' = toEA
           \/ \E m \in Commands : Command(m)
           \/ toEA # <<>> /\ toEA' = Tail(toEA) /\ EaStep
           \/ LinkDown
<1> USE MessageTypes DEF OrderInv, TypeOK
<1>1. CASE StoreSignal \/ PlaceAck \/ PlaceFails \/ SweepMark \/ SweepRearmed
           \/ SweepRearmFails \/ OperatorMark \/ SweepRead
  BY <1>1 DEF StoreSignal, SweepRead, PlaceAck, PlaceFails, SweepMark, SweepRearmed,
     SweepRearmFails, OperatorMark, sockVars
<1>2. CASE Place \/ SweepRearm
  BY <1>2 DEF Place, SweepRearm
<1>3. CASE SweepWithdraw
  <2>1. Msg("cancel", sweep.t) \in Commands
    OBVIOUS
  <2> QED  BY <1>3, <2>1 DEF SweepWithdraw, SendFails
<1>4. CASE OperatorSend
  <2>1. Msg("cancel", op.t) \in Commands
    OBVIOUS
  <2> QED  BY <1>4, <2>1 DEF OperatorSend, SendFails
<1>5. CASE PanelCancel
  <2>1. Msg("cancel", ticket) \in Commands /\ Msg("cancel", NoTicket) \in Commands
    OBVIOUS
  <2> QED  BY <1>5, <2>1 DEF PanelCancel
<1>6. CASE RestoreRow
  <2>1. Msg("restore", ticket) \in Commands
    OBVIOUS
  <2> QED  BY <1>6, <2>1 DEF RestoreRow
<1>7. CASE \/ CancelSignal \/ WatcherExpires \/ WatcherOpens \/ ReleaseClaim \/ Lapse
           \/ ReaderStep
  BY <1>7 DEF CancelSignal, WatcherExpires, WatcherOpens, ReleaseClaim, Lapse,
     ReaderStep, ReadAnswer, ReadReport, ApplyCancelled, ApplyFilled, sockVars
<1>8. CASE CheckStep \/ LinkUp \/ \E t \in Tickets : Fill(t) \/ Remove(t) \/ Blink(t)
  BY <1>8 DEF CheckStep, EaChecks, LinkUp, Fill, Remove, Blink, sockVars
<1>9. CASE EaStep
  BY <1>9 DEF EaStep, EaPlaces, EaCancels, EaRestores
<1> QED  BY <1>1, <1>2, <1>3, <1>4, <1>5, <1>6, <1>7, <1>8, <1>9 DEF Next, AppStep

\* A cancel that will meet no resting order still will, or has.
LEMMA BoundStays ==
    ASSUME OrderInv, Next, Bound, raced' = {} PROVE Bound'
<1>0. TypeOK /\ Len(toEA) \in Nat
  BY DEF OrderInv, TypeOK
<1>1. PICK j \in 1..Len(toEA) :
          /\ toEA[j].kind = "cancel" /\ toEA[j].t \in Tickets
          /\ \/ book[toEA[j].t] \notin {"none", "resting"}
             \/ \E i \in 1..(j - 1) : CancelAt(i, toEA[j].t)
  BY DEF Bound
<1>2. PICK t \in Tickets : t = toEA[j].t /\ Len(toEA) \in Nat
  BY <1>0, <1>1
<1>3. book[t] \notin {"none", "resting"} => book'[t] \notin {"none", "resting"}
  BY <1>2, LeftForGood
<1>4. CASE toEA' = toEA
  <2>1. \A i \in 1..(j - 1) : CancelAt(i, t) => CancelAt(i, t)'
    BY <1>4 DEF CancelAt
  <2> QED  BY <1>1, <1>2, <1>3, <1>4, <2>1 DEF Bound
<1>5. ASSUME NEW m \in Commands, Command(m) PROVE Bound'
  <2>1. /\ Len(toEA') = Len(toEA) + 1 /\ \A i \in 1..Len(toEA) : toEA'[i] = toEA[i]
    BY <1>0, <1>5, SendEffect
  <2>2. \A i \in 1..(j - 1) : toEA'[i] = toEA[i]
    BY <1>2, <2>1
  <2>3. toEA'[j] = toEA[j] /\ j \in 1..Len(toEA')
    BY <1>2, <2>1
  <2> QED  BY <1>1, <1>2, <1>3, <2>2, <2>3 DEF Bound, CancelAt
<1>6. CASE toEA # <<>> /\ toEA' = Tail(toEA) /\ EaStep
  <2>1. /\ Len(toEA) >= 1 /\ Len(toEA') = Len(toEA) - 1
        /\ \A i \in 1..(Len(toEA) - 1) : toEA'[i] = toEA[i + 1]
        /\ Head(toEA) = toEA[1]
    BY <1>0, <1>6, HandleEffect
  <2>2. CancelAt(1, t) => book'[t] = "gone" /\ book[t] = "resting"
    <3> SUFFICES ASSUME CancelAt(1, t) PROVE book'[t] = "gone" /\ book[t] = "resting"
      OBVIOUS
    <3>1. Head(toEA).kind = "cancel" /\ Head(toEA).t = t /\ t # NoTicket
      BY <1>2, <2>1 DEF CancelAt
    <3>2. EaCancels
      BY <1>6, <3>1 DEF EaStep, EaPlaces, EaRestores
    <3>3. \/ book[t] = "resting" /\ book' = [book EXCEPT ![t] = "gone"]
          \/ raced' = raced \cup {"crossed"} \/ raced' = raced \cup {"undeleted"}
      BY <3>1, <3>2 DEF EaCancels
    <3> QED  BY <1>0, <1>2, <3>3 DEF TypeOK
  <2>3. j # 1
    BY <1>1, <1>2, <2>2 DEF CancelAt
  <2>4. j - 1 \in 1..Len(toEA') /\ toEA'[j - 1] = toEA[j]
    BY <1>2, <2>1, <2>3
  <2>5. CASE book'[t] \notin {"none", "resting"}
    BY <1>1, <1>2, <2>4, <2>5 DEF Bound
  <2>6. CASE \E i \in 1..(j - 1) : CancelAt(i, t) /\ i # 1
    <3>1. PICK i \in 1..(j - 1) : CancelAt(i, t) /\ i # 1
      BY <2>6
    <3>2. i - 1 \in 1..(j - 2) /\ i - 1 \in 1..(Len(toEA) - 1)
      BY <1>2, <3>1
    <3>3. CancelAt(i - 1, t)'
      BY <2>1, <3>1, <3>2 DEF CancelAt
    <3>4. /\ toEA'[j - 1].kind = "cancel" /\ toEA'[j - 1].t = t
          /\ i - 1 \in 1..((j - 1) - 1)
      BY <1>1, <1>2, <2>4, <3>2
    <3> QED  BY <1>2, <2>4, <3>3, <3>4 DEF Bound, CancelAt
  <2> QED  BY <1>1, <1>2, <1>3, <2>2, <2>5, <2>6
<1>7. CASE LinkDown
  BY <1>1, <1>7 DEF LinkDown, Lost
<1> QED  BY <1>4, <1>5, <1>6, <1>7, QueueMoves

\* An answer that will not come still will not, or is missed.
LEMMA UnansweredStays ==
    ASSUME OrderInv, Next, Unanswered, raced' = {} PROVE Unanswered'
<1> USE MessageTypes DEF OrderInv, TypeOK, Unanswered
<1>1. CASE UNCHANGED <<opener, ack, sweep, toEA, toApp>>
  BY <1>1 DEF Asking, Places, Answers
<1>2. ASSUME NEW m \in Commands, m.kind # "place", Command(m) \/ SendFails(m),
             UNCHANGED <<opener, ack, toApp>>, sweep'.pc = "await" <=> sweep.pc = "await"
      PROVE  Unanswered'
  BY <1>2, SendOther DEF Asking, Answers
<1>3. CASE StoreSignal \/ CancelSignal \/ WatcherExpires \/ WatcherOpens \/ ReleaseClaim
           \/ Lapse \/ ApplyCancelled \/ ApplyFilled \/ OperatorMark \/ LinkUp
           \/ \E t \in Tickets : Fill(t) \/ Remove(t) \/ Blink(t)
  BY <1>1, <1>3 DEF StoreSignal, CancelSignal, WatcherExpires, WatcherOpens, ReleaseClaim,
     Lapse, ApplyCancelled, ApplyFilled, OperatorMark, LinkUp, Fill, Remove, Blink, sockVars,
     taskVars
<1>4. CASE Place \/ SweepRearm \/ PlaceAck \/ PlaceFails \/ SweepRearmed \/ SweepRearmFails
  BY <1>4 DEF Place, SweepRearm, PlaceAck, PlaceFails, SweepRearmed, SweepRearmFails, Asking,
     Stage
<1>5. CASE SweepRead \/ SweepMark
  BY <1>5 DEF SweepRead, SweepMark, Asking, Places, Answers, At, Idle, sockVars
<1>6. CASE SweepWithdraw
  <2>1. Msg("cancel", sweep.t) \in Commands /\ Msg("cancel", sweep.t).kind = "cancel"
    OBVIOUS
  <2>2. sweep'.pc # "await" /\ sweep.pc # "await"
    BY <1>6 DEF SweepWithdraw, At, Idle
  <2> QED  BY <1>2, <1>6, <2>1, <2>2 DEF SweepWithdraw
<1>7. CASE OperatorSend
  <2>1. Msg("cancel", op.t) \in Commands /\ Msg("cancel", op.t).kind = "cancel"
    OBVIOUS
  <2> QED  BY <1>2, <1>7, <2>1 DEF OperatorSend
<1>8. CASE PanelCancel
  <2>1. \A t \in {ticket, NoTicket} : /\ Msg("cancel", t) \in Commands
                                      /\ Msg("cancel", t).kind = "cancel"
    OBVIOUS
  <2> QED  BY <1>2, <1>8, <2>1 DEF PanelCancel, taskVars
<1>9. CASE RestoreRow
  <2>1. Msg("restore", ticket) \in Commands /\ Msg("restore", ticket).kind = "restore"
    OBVIOUS
  <2> QED  BY <1>1, <1>2, <1>9, <2>1 DEF RestoreRow
<1>10. CASE ReadAnswer
  BY <1>10, ReadEffect DEF ReadAnswer
<1>11. CASE ReadReport
  <2>1. /\ UNCHANGED <<opener, ack, sweep, toEA>> /\ toApp # <<>> /\ toApp' = Tail(toApp)
    BY <1>11 DEF ReadReport
  <2>2. Answers' = {}
    BY <2>1, ReadEffect
  <2> QED  BY <2>1, <2>2 DEF Asking, Places
<1>12. CASE EaStep
  <2>1. /\ toEA # <<>> /\ toEA' = Tail(toEA) /\ UNCHANGED <<opener, ack, sweep>>
    BY <1>12 DEF EaStep, EaPlaces, EaCancels, EaRestores, taskVars
  <2>2. Places' = {} /\ Head(toEA).kind # "place"
    BY <2>1, HandleEffect
  <2>3. Answers' = Answers
    <3>1. CASE UNCHANGED toApp
      BY <3>1 DEF Answers
    <3>2. CASE \E t \in Numbers : Report(Msg("filled", t)) \/ Report(Msg("cancelled", t))
      <4>1. PICK t \in Numbers : Report(Msg("filled", t)) \/ Report(Msg("cancelled", t))
        BY <3>2
      <4>2. /\ Msg("filled", t) \in Reports /\ Msg("filled", t).kind = "filled"
            /\ Msg("cancelled", t) \in Reports /\ Msg("cancelled", t).kind = "cancelled"
        OBVIOUS
      <4> QED  BY <4>1, <4>2, ReportOther
    <3>3. Head(toEA).t \in Numbers
      BY <2>1, Queues
    <3> QED  BY <1>12, <2>2, <3>1, <3>2, <3>3 DEF EaStep, EaPlaces, EaCancels, EaRestores
  <2> QED  BY <2>1, <2>2, <2>3 DEF Asking
<1>13. CASE CheckStep
  <2>1. PICK t \in Tickets : EaChecks(t)
    BY <1>13 DEF CheckStep
  <2>2. /\ UNCHANGED <<opener, ack, sweep, toEA>>
        /\ Report(Msg("filled", t)) \/ Report(Msg("cancelled", t))
    BY <2>1 DEF EaChecks, taskVars
  <2>3. /\ Msg("filled", t) \in Reports /\ Msg("filled", t).kind = "filled"
        /\ Msg("cancelled", t) \in Reports /\ Msg("cancelled", t).kind = "cancelled"
    OBVIOUS
  <2>4. Answers' = {}
    BY <2>2, <2>3, ReportOther
  <2> QED  BY <2>2, <2>4 DEF Asking, Places
<1>14. CASE LinkDown
  <2>1. Places' = {} /\ Answers' = {}
    BY <1>14 DEF LinkDown, Places, Answers
  <2> QED  BY <1>14, <2>1 DEF LinkDown, Asking
<1> QED  BY <1>3, <1>4, <1>5, <1>6, <1>7, <1>8, <1>9, <1>10, <1>11, <1>12, <1>13, <1>14
            DEF Next, AppStep, ReaderStep

\* What is clean after a step was clean before it.
LEMMA CleanBack ==
    ASSUME OrderInv, Next, Clean' PROVE Clean
  BY RacedGrows, BoundStays, UnansweredStays DEF Clean


Known == Books /\ Reported /\ Settled /\ Heard
Setup == OrderInv /\ Clean /\ Known

\* PlaceAck keeps it: the row takes the ticket of the order that rests.
LEMMA PlaceAckKnown ==
    ASSUME Setup, Clean', PlaceAck PROVE Known'
<1> USE DEF Setup, OrderInv, TypeOK, Clean, Known, PlaceAck, At, Idle, NoMsg, Msg,
    NotReading, eaVars, sockVars, rowVars
<1>0. /\ ~Fresh' /\ ack.t = placed /\ placed > 0 /\ ticket' = placed
      /\ ticket < placed /\ ack'.kind = "none"
  <2>1. Answers = {}
    BY DEF OneRequest
  <2>2. ticket' = ack.t
    OBVIOUS
  <2>3. Fresh /\ ack.t = placed
    BY DEF Books, Fresh
  <2>4. ticket < placed
    <3> HIDE DEF PlaceAck
    <3> QED  BY <2>3 DEF Books
  <2>5. placed > 0
    <3> HIDE DEF PlaceAck
    <3> QED  BY <2>4
  <2>6. ~Fresh' /\ ack'.kind = "none"
    BY <2>1 DEF Answers, Fresh
  <2> QED  BY <2>2, <2>3, <2>4, <2>5, <2>6
<1>1. Books'
  BY <1>0 DEF Books, Fresh, Stage, OneRequest, Answers
<1>2. Reported'
  BY <1>0 DEF Books, Reported, Fits, Settled, Stage, Overlap
<1>3. Settled'
  BY <1>0 DEF Books, Settled, Withdrawn, RestoresEnd, Off, CancelQueued, CancelAt, Fresh, Stage,
     OneRequest, OneLive, Answers, Asking, Reported, Fits, Overlap
<1>4. Heard'
  BY <1>0 DEF Books, Heard, Settled, Eyed, Told, Fresh, Stage, OneRequest, Answers, Asking
<1> QED  BY <1>1, <1>2, <1>3, <1>4

\* PlaceFails keeps it: nothing was placed.
LEMMA PlaceFailsKnown ==
    ASSUME Setup, Clean', PlaceFails PROVE Known'
<1> USE DEF Setup, OrderInv, TypeOK, Clean, Known, PlaceFails, At, Idle, NoMsg, Msg,
    NotReading, eaVars, sockVars, rowVars
<1>1. Books'
  BY DEF Books, Fresh, Stage, OneRequest, Answers
<1>2. Reported'
  BY DEF Books, Reported, Fits, Settled, Stage, Overlap
<1>3. Settled'
  BY DEF Books, Settled, Withdrawn, RestoresEnd, Off, CancelQueued, CancelAt, Fresh, Stage,
     OneRequest, OneLive, Answers, Asking, Reported, Fits, Overlap
<1>4. Heard'
  BY DEF Books, Heard, Settled, Eyed, Told, Fresh, Stage, OneRequest, Answers, Asking
<1> QED  BY <1>1, <1>2, <1>3, <1>4

\* SweepRead keeps it: the ticket it takes is the current one.
LEMMA SweepReadKnown ==
    ASSUME Setup, Clean', SweepRead PROVE Known'
<1> USE DEF Setup, OrderInv, TypeOK, Clean, Known, SweepRead, At, Idle, NoMsg, Msg,
    NotReading, eaVars, sockVars, rowVars
<1>1. Books'
  BY DEF Books, Fresh, Stage, OneRequest, Answers
<1>2. Reported'
  BY DEF Books, Reported, Fits, Settled, Stage, Overlap
<1>3. Settled'
  BY DEF Books, Settled, Withdrawn, RestoresEnd, Off, CancelQueued, CancelAt, Fresh, Stage,
     OneRequest, OneLive, Answers, Asking, Reported, Fits, Overlap
<1>4. Heard'
  BY DEF Books, Heard, Settled, Eyed, Told, Fresh, Stage, OneRequest, Answers, Asking
<1> QED  BY <1>1, <1>2, <1>3, <1>4

\* SweepMark keeps it: the order it withdrew has gone or is about to.
LEMMA SweepMarkKnown ==
    ASSUME Setup, Clean', SweepMark PROVE Known'
<1> USE DEF Setup, OrderInv, TypeOK, Clean, Known, SweepMark, At, Idle, NoMsg, Msg,
    NotReading, eaVars, sockVars, rowVars
<1>1. Books'
  BY DEF Books, Fresh, Stage, OneRequest, Answers
<1>2. Reported'
  BY DEF Books, Reported, Fits, Settled, Stage, Overlap
<1>3. Settled'
  BY DEF Books, Settled, Withdrawn, RestoresEnd, Off, CancelQueued, CancelAt, Fresh, Stage,
     OneRequest, OneLive, Answers, Asking, Reported, Fits, Overlap
<1>4. Heard'
  BY DEF Books, Heard, Settled, Eyed, Told, Fresh, Stage, OneRequest, Answers, Asking
<1> QED  BY <1>1, <1>2, <1>3, <1>4

\* SweepRearmed keeps it: the row takes the ticket of the new order.
LEMMA SweepRearmedKnown ==
    ASSUME Setup, Clean', SweepRearmed PROVE Known'
<1> USE DEF Setup, OrderInv, TypeOK, Clean, Known, SweepRearmed, At, Idle, NoMsg, Msg,
    NotReading, eaVars, sockVars, rowVars
<1>0. /\ ~Fresh' /\ ack.t = placed /\ placed > 0 /\ ticket' = placed
      /\ ticket < placed /\ ack'.kind = "none"
  <2>1. Answers = {}
    BY DEF OneRequest
  <2>2. ticket' = ack.t
    OBVIOUS
  <2>3. Fresh /\ ack.t = placed
    BY DEF Books, Fresh
  <2>4. ticket < placed
    <3> HIDE DEF SweepRearmed
    <3> QED  BY <2>3 DEF Books
  <2>5. placed > 0
    <3> HIDE DEF SweepRearmed
    <3> QED  BY <2>4
  <2>6. ~Fresh' /\ ack'.kind = "none"
    BY <2>1 DEF Answers, Fresh
  <2> QED  BY <2>2, <2>3, <2>4, <2>5, <2>6
<1>1. Books'
  BY <1>0 DEF Books, Fresh, Stage, OneRequest, Answers
<1>2. Reported'
  BY <1>0 DEF Books, Reported, Fits, Settled, Stage, Overlap
<1>3. Settled'
  BY <1>0 DEF Books, Settled, Withdrawn, RestoresEnd, Off, CancelQueued, CancelAt, Fresh, Stage,
     OneRequest, OneLive, Answers, Asking, Reported, Fits, Overlap
<1>4. Heard'
  BY <1>0 DEF Books, Heard, Settled, Eyed, Told, Fresh, Stage, OneRequest, Answers, Asking
<1> QED  BY <1>1, <1>2, <1>3, <1>4

\* SweepRearmFails keeps it: the row stays withdrawn.
LEMMA SweepRearmFailsKnown ==
    ASSUME Setup, Clean', SweepRearmFails PROVE Known'
<1> USE DEF Setup, OrderInv, TypeOK, Clean, Known, SweepRearmFails, At, Idle, NoMsg, Msg,
    NotReading, eaVars, sockVars, rowVars
<1>0. ack.kind = "failed" /\ reader.kind = "none"
  <2>1. ack.kind = "failed"
    OBVIOUS
  <2> QED  BY <2>1 DEF Reported
<1>1. Books'
  BY <1>0 DEF Books, Fresh, Stage, OneRequest, Answers
<1>2. Reported'
  BY <1>0 DEF Books, Reported, Fits, Settled, Stage, Overlap
<1>3. Settled'
  BY <1>0 DEF Books, Settled, Withdrawn, RestoresEnd, Off, CancelQueued, CancelAt, Fresh, Stage,
     OneRequest, OneLive, Answers, Asking, Reported, Fits, Overlap
<1>4. Heard'
  BY <1>0 DEF Books, Heard, Settled, Eyed, Told, Fresh, Stage, OneRequest, Answers, Asking
<1> QED  BY <1>1, <1>2, <1>3, <1>4

\* CancelSignal keeps it: the ticket it takes is the current one.
LEMMA CancelSignalKnown ==
    ASSUME Setup, Clean', CancelSignal PROVE Known'
<1> USE DEF Setup, OrderInv, TypeOK, Clean, Known, CancelSignal, At, Idle, NoMsg, Msg,
    NotReading, eaVars, sockVars, rowVars
<1>1. Books'
  BY DEF Books, Fresh, Stage, OneRequest, Answers
<1>2. Reported'
  BY DEF Books, Reported, Fits, Settled, Stage, Overlap
<1>3. Settled'
  BY DEF Books, Settled, Withdrawn, RestoresEnd, Off, CancelQueued, CancelAt, Fresh, Stage,
     OneRequest, OneLive, Answers, Asking, Reported, Fits, Overlap
<1>4. Heard'
  BY DEF Books, Heard, Settled, Eyed, Told, Fresh, Stage, OneRequest, Answers, Asking
<1> QED  BY <1>1, <1>2, <1>3, <1>4

\* OperatorMark keeps it: the order it cancelled has gone or is about to.
LEMMA OperatorMarkKnown ==
    ASSUME Setup, Clean', OperatorMark PROVE Known'
<1> USE DEF Setup, OrderInv, TypeOK, Clean, Known, OperatorMark, At, Idle, NoMsg, Msg,
    NotReading, eaVars, sockVars, rowVars
<1>1. Books'
  BY DEF Books, Fresh, Stage, OneRequest, Answers
<1>2. Reported'
  BY DEF Books, Reported, Fits, Settled, Stage, Overlap
<1>3. Settled'
  BY DEF Books, Settled, Withdrawn, RestoresEnd, Off, CancelQueued, CancelAt, Fresh, Stage,
     OneRequest, OneLive, Answers, Asking, Reported, Fits, Overlap
<1>4. Heard'
  BY DEF Books, Heard, Settled, Eyed, Told, Fresh, Stage, OneRequest, Answers, Asking
<1> QED  BY <1>1, <1>2, <1>3, <1>4

\* ApplyCancelled keeps it: the report is of the current order, which is gone.
LEMMA ApplyCancelledKnown ==
    ASSUME Setup, Clean', ApplyCancelled PROVE Known'
<1> USE DEF Setup, OrderInv, TypeOK, Clean, Known, ApplyCancelled, At, Idle, NoMsg, Msg,
    NotReading, eaVars, sockVars, rowVars
<1>0. /\ sweep.pc = "idle" /\ op.pc = "idle" /\ opener = "done" /\ raced' = raced
      /\ ~Fresh /\ ~Fresh' /\ reader.t = placed /\ reader'.kind = "none" /\ row' # "working"
  <2>1. ~Overlap /\ raced' = raced
    OBVIOUS
  <2>2. sweep.pc = "idle" /\ op.pc = "idle" /\ opener = "done" /\ reader.t = placed
    BY <2>1 DEF Overlap, Reported
  <2>3. ~Asking
    BY <2>2 DEF Asking
  <2>4. Answers = {} /\ ack.kind = "none"
    BY <2>3 DEF OneRequest
  <2>5. row' # "working"
    BY DEF Reported, Settled
  <2> QED  BY <2>1, <2>2, <2>4, <2>5 DEF Answers, Fresh
<1>1. Books'
  BY <1>0 DEF Books, Fresh, Stage, OneRequest, Answers
<1>2. Reported'
  BY <1>0 DEF Books, Reported, Fits, Settled, Stage, Overlap
<1>3. Settled'
  BY <1>0 DEF Books, Settled, Withdrawn, RestoresEnd, Off, CancelQueued, CancelAt, Fresh, Stage,
     OneRequest, OneLive, Answers, Asking, Reported, Fits, Overlap
<1>4. Heard'
  BY <1>0 DEF Books, Heard, Settled, Eyed, Told, Fresh, Stage, OneRequest, Answers, Asking
<1> QED  BY <1>1, <1>2, <1>3, <1>4

\* ApplyFilled keeps it: the report is of the current order, which is a position.
LEMMA ApplyFilledKnown ==
    ASSUME Setup, Clean', ApplyFilled PROVE Known'
<1> USE DEF Setup, OrderInv, TypeOK, Clean, Known, ApplyFilled, At, Idle, NoMsg, Msg,
    NotReading, eaVars, sockVars, rowVars
<1>0. /\ sweep.pc = "idle" /\ op.pc = "idle" /\ opener = "done" /\ raced' = raced
      /\ ~Fresh /\ ~Fresh' /\ reader.t = placed /\ reader'.kind = "none" /\ row' # "working"
  <2>1. ~Overlap /\ raced' = raced
    OBVIOUS
  <2>2. sweep.pc = "idle" /\ op.pc = "idle" /\ opener = "done" /\ reader.t = placed
    BY <2>1 DEF Overlap, Reported
  <2>3. ~Asking
    BY <2>2 DEF Asking
  <2>4. Answers = {} /\ ack.kind = "none"
    BY <2>3 DEF OneRequest
  <2>5. row' # "working"
    BY DEF Reported, Settled
  <2> QED  BY <2>1, <2>2, <2>4, <2>5 DEF Answers, Fresh
<1>1. Books'
  BY <1>0 DEF Books, Fresh, Stage, OneRequest, Answers
<1>2. Reported'
  BY <1>0 DEF Books, Reported, Fits, Settled, Stage, Overlap
<1>3. Settled'
  BY <1>0 DEF Books, Settled, Withdrawn, RestoresEnd, Off, CancelQueued, CancelAt, Fresh, Stage,
     OneRequest, OneLive, Answers, Asking, Reported, Fits, Overlap
<1>4. Heard'
  BY <1>0 DEF Books, Heard, Settled, Eyed, Told, Fresh, Stage, OneRequest, Answers, Asking
<1> QED  BY <1>1, <1>2, <1>3, <1>4

\* LinkUp keeps it: the working row will be restored.
LEMMA LinkUpKnown ==
    ASSUME Setup, Clean', LinkUp PROVE Known'
<1> USE DEF Setup, OrderInv, TypeOK, Clean, Known, LinkUp, At, Idle, NoMsg, Msg,
    NotReading, eaVars, sockVars, rowVars
<1>1. Books'
  BY DEF Books, Fresh, Stage, OneRequest, Answers
<1>2. Reported'
  BY DEF Books, Reported, Fits, Settled, Stage, Overlap
<1>3. Settled'
  BY DEF Books, Settled, Withdrawn, RestoresEnd, Off, CancelQueued, CancelAt, Fresh, Stage,
     OneRequest, OneLive, Answers, Asking, Reported, Fits, Overlap
<1>4. Heard'
  BY DEF Books, Heard, Settled, Eyed, Told, Fresh, Stage, OneRequest, Answers, Asking
<1> QED  BY <1>1, <1>2, <1>3, <1>4

\* What only touches the signal, or nothing, keeps it.
LEMMA FrameKnown ==
    ASSUME Setup, called => called',
           UNCHANGED <<row, ticket, filledBy, eaVars, sockVars, taskVars>>
    PROVE  Known'
<1> USE DEF Setup, Known, eaVars, sockVars, taskVars
<1>1. Books'
  BY DEF Books, Fresh
<1>2. Reported'
  BY DEF Reported, Fits
<1>3. Settled'
  BY DEF Settled, Withdrawn, RestoresEnd, Off, CancelQueued, CancelAt, Fresh
<1>4. Heard'
  BY DEF Heard, Eyed, Told, Fresh
<1> QED  BY <1>1, <1>2, <1>3, <1>4

\* The order that rests is the current one, and while it leaves the book by
\* itself no cancel is behind it.
LEMMA LeavesBook ==
    ASSUME Setup, OrderInv', Clean', NEW t \in Tickets, book[t] = "resting",
           UNCHANGED toEA, book'[t] \in {"position", "gone"}
    PROVE  t = placed /\ ~CancelQueued(t)
<1>1. t = placed
  <2>1. placed \in 0..MaxTickets
    BY DEF Setup, OrderInv, TypeOK
  <2>2. t >= placed
    BY <2>1 DEF Setup, Known, Books
  <2>3. t <= placed
    BY <2>1 DEF Setup, OrderInv, Stage
  <2> QED  BY <2>1, <2>2, <2>3, RestingAssumption
<1>2. ~CancelQueued(t)
  BY DEF Clean, Bound, CancelQueued, CancelAt
<1> QED  BY <1>1, <1>2

\* A fill keeps it: somebody has an eye on the order.
LEMMA FillKnown ==
    ASSUME Setup, OrderInv', Clean', NEW t \in Tickets, Fill(t) PROVE Known'
<1> USE DEF Setup, OrderInv, TypeOK, Known, Fill, rowVars, sockVars, taskVars
<1>0. t = placed /\ ~CancelQueued(placed) /\ book'[placed] = "position" /\ book[placed] = "resting"
      /\ \A u \in Tickets : u # placed => book'[u] = book[u]
  <2>1. book'[t] = "position" /\ \A u \in Tickets : u # t => book'[u] = book[u]
    OBVIOUS
  <2> QED  BY <2>1, LeavesBook
<1> HIDE DEF Fill
<1>5. UNCHANGED <<row, ticket, filledBy, called, placed, tracked, toEA, toApp, link, opener, ack,
                  sweep, op, reader, restore>>
  BY DEF Fill
<1>1. Books'
  BY <1>0, <1>5 DEF Books, Fresh
<1>2. Reported'
  BY <1>0, <1>5 DEF Reported, Fits
<1>3. Settled'
  BY <1>0, <1>5 DEF Settled, Withdrawn, RestoresEnd, Off, Fresh
<1>4. Heard'
  BY <1>0, <1>5 DEF Heard, Eyed, Told, Fresh
<1> QED  BY <1>1, <1>2, <1>3, <1>4

\* So does a removal.
LEMMA RemoveKnown ==
    ASSUME Setup, OrderInv', Clean', NEW t \in Tickets, Remove(t) PROVE Known'
<1> USE DEF Setup, OrderInv, TypeOK, Known, rowVars, sockVars, taskVars
<1>0. t = placed /\ ~CancelQueued(placed) /\ book'[placed] = "gone" /\ book[placed] = "resting"
      /\ \A u \in Tickets : u # placed => book'[u] = book[u]
  <2>1. book'[t] = "gone" /\ \A u \in Tickets : u # t => book'[u] = book[u]
    BY DEF Remove
  <2> QED  BY <2>1, LeavesBook DEF Remove
<1>5. UNCHANGED <<row, ticket, filledBy, called, placed, tracked, toEA, toApp, link, opener, ack,
                  sweep, op, reader, restore>>
  BY DEF Remove
<1>1. Books'
  BY <1>0, <1>5 DEF Books, Fresh
<1>2. Reported'
  BY <1>0, <1>5 DEF Reported, Fits
<1>3. Settled'
  BY <1>0, <1>5 DEF Settled, Withdrawn, RestoresEnd, Off, Fresh
<1>4. Heard'
  BY <1>0, <1>5 DEF Heard, Eyed, Told, Fresh
<1> QED  BY <1>1, <1>2, <1>3, <1>4

\* What a command sent does to the queue's promises.
LEMMA SendQueue ==
    ASSUME OrderInv, NEW m \in Commands, Command(m), UNCHANGED <<placed, book, tracked>>
    PROVE  /\ Len(toEA) \in Nat /\ Len(toEA') = Len(toEA) + 1 /\ toEA'[Len(toEA) + 1] = m
           /\ \A j \in 1..Len(toEA) : j \in 1..Len(toEA') /\ toEA'[j] = toEA[j]
           /\ \A j \in 1..Len(toEA') : j \notin 1..Len(toEA) => toEA'[j] = m
           /\ Off => Off'
           /\ m.kind # "restore" /\ Withdrawn => Withdrawn'
<1>1. /\ Len(toEA) \in Nat /\ Len(toEA') = Len(toEA) + 1 /\ toEA'[Len(toEA) + 1] = m
      /\ \A i \in 1..Len(toEA) : toEA'[i] = toEA[i]
  BY SendEffect DEF OrderInv
<1>2. \A j \in 1..Len(toEA) : j \in 1..Len(toEA') /\ toEA'[j] = toEA[j]
  BY <1>1
<1>3. \A j \in 1..Len(toEA') : j \notin 1..Len(toEA) => toEA'[j] = m
  BY <1>1
<1>4. Off => Off'
  BY <1>2 DEF Off, CancelQueued, CancelAt
<1>5. ASSUME m.kind # "restore", Withdrawn PROVE Withdrawn'
  <2>1. \A i \in 1..Len(toEA') : toEA'[i].kind = "restore" =>
           \E j \in (i + 1)..Len(toEA') : CancelAt(j, placed)'
    <3> SUFFICES ASSUME NEW i \in 1..Len(toEA'), toEA'[i].kind = "restore"
                 PROVE  \E j \in (i + 1)..Len(toEA') : CancelAt(j, placed)'
      OBVIOUS
    <3>1. i \in 1..Len(toEA) /\ toEA[i].kind = "restore"
      BY <1>2, <1>3, <1>5
    <3>2. PICK j \in (i + 1)..Len(toEA) : CancelAt(j, placed)
      BY <1>5, <3>1 DEF Withdrawn, RestoresEnd
    <3>3. j \in 1..Len(toEA) /\ j \in (i + 1)..Len(toEA')
      BY <1>1, <3>1
    <3> QED  BY <1>2, <3>2, <3>3 DEF CancelAt
  <2> QED  BY <1>4, <1>5, <2>1 DEF Withdrawn, RestoresEnd
<1> QED  BY <1>1, <1>2, <1>3, <1>4, <1>5

\* A cancel that is sent, and will not cross, names the current order: it
\* rests, it is believed to, and nobody else is ending it.
LEMMA CancelMeetsOrder ==
    ASSUME Setup, OrderInv', Clean', NEW t \in Tickets, t <= ticket, Command(Msg("cancel", t)),
           UNCHANGED <<placed, book, tracked>>
    PROVE  /\ t = placed /\ ticket = placed /\ book[placed] = "resting"
           /\ row \in {"none", "working"} /\ sweep.pc # "sent" /\ op.pc # "sent"
           /\ reader.kind = "none" \/ reader.t # placed
           /\ Withdrawn'
<1> USE DEF Setup, Known
<1> DEFINE m == Msg("cancel", t)
<1>1. m \in Commands /\ m.kind = "cancel" /\ m.t = t /\ t \in Nat \ {0}
  BY MessageTypes, RestingAssumption
<1>2. placed \in Nat /\ placed <= MaxTickets /\ ticket \in Nat /\ ticket <= placed
  <2>1. placed \in 0..MaxTickets /\ ticket \in Numbers
    BY DEF OrderInv, TypeOK
  <2>2. ticket <= placed
    BY DEF Books
  <2> QED  BY <2>1, <2>2, RestingAssumption
<1>3. /\ Len(toEA) \in Nat /\ Len(toEA') = Len(toEA) + 1 /\ toEA'[Len(toEA) + 1] = m
      /\ \A j \in 1..Len(toEA) : j \in 1..Len(toEA') /\ toEA'[j] = toEA[j]
      /\ \A j \in 1..Len(toEA') : j \notin 1..Len(toEA) => toEA'[j] = m
  BY <1>1, SendQueue
<1> HIDE DEF m
<1>4. book[t] \in {"none", "resting"} /\ ~CancelQueued(t)
  <2>1. Len(toEA) + 1 \in 1..Len(toEA') /\ toEA'[Len(toEA) + 1].kind = "cancel"
        /\ toEA'[Len(toEA) + 1].t = t
    BY <1>1, <1>3
  <2>2. book'[t] \in {"none", "resting"}
    BY <2>1 DEF Clean, Bound
  <2>3. \A i \in 1..Len(toEA) : i \in 1..((Len(toEA) + 1) - 1)
    BY <1>3
  <2>4. ~CancelQueued(t)
    BY <1>3, <2>1, <2>3 DEF Clean, Bound, CancelQueued, CancelAt
  <2> QED  BY <2>2, <2>4
<1>5. t = placed
  <2>1. ~(t < placed)
    BY <1>4 DEF Books
  <2> QED  BY <1>1, <1>2, <2>1
<1>6. ticket = placed /\ book[placed] = "resting"
  BY <1>1, <1>2, <1>4, <1>5 DEF Books
<1>7. ~Off /\ ~Fresh
  BY <1>1, <1>2, <1>4, <1>5, <1>6 DEF Off, Books
<1>8. row \in {"none", "working"} /\ sweep.pc # "sent" /\ op.pc # "sent"
  BY <1>6, <1>7 DEF Settled, Withdrawn, RestoresEnd, OrderInv, TypeOK, Rows
<1>9. reader.kind = "none" \/ reader.t # placed
  BY <1>6 DEF Reported, Fits
<1>10. Withdrawn'
  <2>0. PICK n \in Nat : n = Len(toEA) + 1
    BY <1>3
  <2>1. n \in 1..Len(toEA') /\ CancelAt(n, placed)'
    BY <1>1, <1>3, <1>5, <2>0 DEF CancelAt
  <2>2. \A i \in 1..Len(toEA') : toEA'[i].kind = "restore" => n \in (i + 1)..Len(toEA')
    BY <1>1, <1>3, <2>0
  <2>3. CancelQueued(placed)'
    BY <2>1 DEF CancelQueued
  <2> QED  BY <1>6, <2>1, <2>2, <2>3 DEF Withdrawn, RestoresEnd, Off
<1> QED  BY <1>5, <1>6, <1>8, <1>9, <1>10

\* What a cancel sent leaves alone, whoever sends it.
LEMMA SendCancelKnown ==
    ASSUME Setup, OrderInv', NEW t \in Numbers, t <= placed, Command(Msg("cancel", t)),
           UNCHANGED <<row, ticket, filledBy, called, eaVars, toApp, link, opener, ack,
                       reader, restore>>,
           sweep' = sweep \/ (sweep.pc = "withdraw" /\ sweep'.pc \in {"idle", "sent"}),
           op' = op \/ (op.pc = "asked" /\ op' \in {Idle, At("sent", op.t)}),
           sweep'.pc = "sent" /\ sweep.pc # "sent" =>
               /\ row = "working" /\ op.pc # "sent" /\ op' = op
               /\ reader.kind = "none" /\ Withdrawn',
           op'.pc = "sent" /\ op.pc # "sent" =>
               /\ row = "working" /\ sweep.pc # "sent" /\ sweep' = sweep
               /\ reader.kind = "none" /\ Withdrawn'
    PROVE  Known'
<1> USE DEF Setup, Known
<1> DEFINE m == Msg("cancel", t)
<1>1. m \in Commands /\ m.kind = "cancel" /\ m.t = t
  BY MessageTypes
<1>2. /\ Len(toEA) \in Nat /\ Len(toEA') = Len(toEA) + 1
      /\ \A j \in 1..Len(toEA) : j \in 1..Len(toEA') /\ toEA'[j] = toEA[j]
      /\ \A j \in 1..Len(toEA') : j \notin 1..Len(toEA) => toEA'[j] = m
      /\ Off => Off'
      /\ Withdrawn => Withdrawn'
  BY <1>1, SendQueue DEF eaVars
<1> HIDE DEF m
<1>3. /\ \A j \in 1..Len(toEA') : toEA'[j].kind = "restore" =>
                j \in 1..Len(toEA) /\ toEA[j].kind = "restore" /\ toEA'[j].t = toEA[j].t
      /\ \A j \in 1..Len(toEA') : toEA'[j].kind = "cancel" => toEA'[j].t <= placed
      /\ \A j \in 1..Len(toEA) : toEA[j].kind = "restore" =>
                j \in 1..Len(toEA') /\ toEA'[j].kind = "restore"
  BY <1>1, <1>2 DEF Books
<1>4. Books'
  BY <1>3 DEF Books, Fresh, eaVars, At, Idle
<1>5. Reported'
  BY DEF Reported, Fits, eaVars, At, Idle
<1>6. Settled'
  BY <1>2 DEF Settled, Withdrawn, RestoresEnd, Fresh, eaVars, At, Idle
<1>7. Heard'
  BY <1>3 DEF Heard, Eyed, Told, Fresh, eaVars, At, Idle
<1> QED  BY <1>4, <1>5, <1>6, <1>7

\* SweepWithdraw keeps it: a cancel that was sent meets the order.
LEMMA SweepWithdrawKnown ==
    ASSUME Setup, OrderInv', Clean', SweepWithdraw PROVE Known'
<1>1. /\ sweep.pc = "withdraw" /\ sweep.t \in Tickets /\ sweep.t <= ticket /\ ticket <= placed
      /\ placed \in Nat /\ ticket \in Nat
      /\ UNCHANGED <<row, ticket, filledBy, called, eaVars, toApp, link, opener, ack, op,
                     reader, restore>>
      /\ sweep' = sweep \/ sweep'.pc \in {"idle", "sent"}
  BY DEF SweepWithdraw, Setup, Known, Books, OrderInv, TypeOK, rowVars, At, Idle
<1>2. PICK t \in Tickets : t = sweep.t
  BY <1>1
<1>3. CASE Command(Msg("cancel", t))
  <2>1. /\ t = placed /\ book[placed] = "resting"
        /\ row \in {"none", "working"} /\ op.pc # "sent"
        /\ reader.kind = "none" \/ reader.t # placed
        /\ Withdrawn'
    BY <1>1, <1>2, <1>3, CancelMeetsOrder DEF eaVars
  <2>2. row = "working"
    BY <1>1, <2>1 DEF Setup, OrderInv, Stage
  <2>3. reader.kind = "none"
    BY <1>1, <2>1 DEF Setup, Known, Reported
  <2>4. t <= placed /\ t \in Numbers
    BY <1>1, <1>2
  <2> QED  BY <1>1, <1>3, <2>1, <2>2, <2>3, <2>4, SendCancelKnown
<1>4. CASE UNCHANGED toEA /\ sweep' = Idle
  <2> USE <1>1, <1>4 DEF Setup, Known, eaVars, Idle
  <2>1. Books'
    BY DEF Books, Fresh
  <2>2. Reported'
    BY DEF Reported, Fits
  <2>3. Settled'
    BY DEF Settled, Withdrawn, RestoresEnd, Off, CancelQueued, CancelAt, Fresh
  <2>4. Heard'
    BY DEF Heard, Eyed, Told, Fresh
  <2> QED  BY <2>1, <2>2, <2>3, <2>4
<1> QED  BY <1>2, <1>3, <1>4 DEF SweepWithdraw, SendFails

\* OperatorSend keeps it, for the same reason.
LEMMA OperatorSendKnown ==
    ASSUME Setup, OrderInv', Clean', OperatorSend PROVE Known'
<1>1. /\ op.pc = "asked" /\ op.t \in Tickets /\ op.t <= ticket /\ ticket <= placed
      /\ placed \in Nat /\ ticket \in Nat
      /\ UNCHANGED <<row, ticket, filledBy, called, eaVars, toApp, link, opener, ack, sweep,
                     reader, restore>>
      /\ op' \in {Idle, At("sent", op.t)}
  BY DEF OperatorSend, Setup, Known, Books, OrderInv, TypeOK, rowVars
<1>2. PICK t \in Tickets : t = op.t
  BY <1>1
<1>3. CASE Command(Msg("cancel", t))
  <2>1. /\ t = placed /\ book[placed] = "resting"
        /\ row \in {"none", "working"} /\ sweep.pc # "sent"
        /\ reader.kind = "none" \/ reader.t # placed
        /\ Withdrawn'
    BY <1>1, <1>2, <1>3, CancelMeetsOrder DEF eaVars
  <2>2. row = "working" /\ sweep.pc # "await"
    BY <1>1, <2>1 DEF Setup, OrderInv, Stage
  <2>3. reader.kind = "none"
    BY <1>1, <2>1, <2>2 DEF Setup, Known, Reported
  <2>4. t <= placed /\ t \in Numbers
    BY <1>1, <1>2
  <2> QED  BY <1>1, <1>3, <2>1, <2>2, <2>3, <2>4, SendCancelKnown
<1>4. CASE UNCHANGED toEA /\ op' = Idle
  <2> USE <1>1, <1>4 DEF Setup, Known, eaVars, Idle
  <2>1. Books'
    BY DEF Books, Fresh
  <2>2. Reported'
    BY DEF Reported, Fits
  <2>3. Settled'
    BY DEF Settled, Withdrawn, RestoresEnd, Off, CancelQueued, CancelAt, Fresh
  <2>4. Heard'
    BY DEF Heard, Eyed, Told, Fresh
  <2> QED  BY <2>1, <2>2, <2>3, <2>4
<1> QED  BY <1>2, <1>3, <1>4 DEF OperatorSend, SendFails

\* PanelCancel keeps it.
LEMMA PanelCancelKnown ==
    ASSUME Setup, OrderInv', Clean', PanelCancel PROVE Known'
<1>1. PICK t \in {ticket, NoTicket} : Command(Msg("cancel", t))
  BY DEF PanelCancel
<1>2. UNCHANGED <<row, ticket, filledBy, called, eaVars, toApp, link, opener, ack, sweep, op,
                  reader, restore>>
  BY DEF PanelCancel, rowVars, taskVars
<1>3. t \in Numbers /\ t <= placed
  <2>1. ticket \in Numbers /\ placed \in 0..MaxTickets /\ ticket <= placed
    BY DEF Setup, Known, Books, OrderInv, TypeOK
  <2>2. 0 <= placed
    BY <2>1, RestingAssumption
  <2> QED  BY <1>1, <2>1, <2>2
<1> QED  BY <1>1, <1>2, <1>3, SendCancelKnown

\* A placement that is asked for disturbs nothing.
LEMMA SendPlaceKnown ==
    ASSUME Setup, OrderInv', Command(Msg("place", NoTicket)), ack'.kind = "none",
           ~Fresh, reader.kind = "none" \/ opener' = opener,
           UNCHANGED <<row, ticket, filledBy, called, eaVars, toApp, link, op, reader, restore>>,
           sweep' = sweep \/ (sweep.pc = "rearm" /\ sweep'.pc = "await")
    PROVE  Known'
<1> USE DEF Setup, Known
<1> DEFINE m == Msg("place", NoTicket)
<1>1. m \in Commands /\ m.kind = "place"
  BY MessageTypes
<1>2. /\ Len(toEA) \in Nat /\ Len(toEA') = Len(toEA) + 1
      /\ \A j \in 1..Len(toEA) : j \in 1..Len(toEA') /\ toEA'[j] = toEA[j]
      /\ \A j \in 1..Len(toEA') : j \notin 1..Len(toEA) => toEA'[j] = m
      /\ Off => Off'
      /\ Withdrawn => Withdrawn'
  BY <1>1, SendQueue DEF eaVars
<1> HIDE DEF m
<1>3. /\ \A j \in 1..Len(toEA') : toEA'[j].kind # "place" =>
                j \in 1..Len(toEA) /\ toEA'[j] = toEA[j]
      /\ \A j \in 1..Len(toEA) : j \in 1..Len(toEA') /\ toEA'[j] = toEA[j]
      /\ ~Fresh'
  BY <1>1, <1>2 DEF Fresh
<1>4. Books'
  BY <1>3 DEF Books, Fresh, eaVars
<1>5. Reported'
  BY DEF Reported, Fits, eaVars
<1>6. Settled'
  BY <1>2, <1>3 DEF Settled, eaVars
<1>7. Heard'
  BY <1>3 DEF Heard, Eyed, Told, eaVars
<1> QED  BY <1>4, <1>5, <1>6, <1>7

\* Place keeps it.
LEMMA PlaceKnown ==
    ASSUME Setup, OrderInv', Clean', Place PROVE Known'
<1>1. ~Fresh /\ reader.kind = "none"
  BY DEF Place, Setup, OrderInv, Stage, Fresh
<1> QED  BY <1>1, SendPlaceKnown, MessageTypes DEF Place

\* SweepRearm keeps it: the order it wants back has gone or is about to.
LEMMA SweepRearmKnown ==
    ASSUME Setup, OrderInv', Clean', SweepRearm PROVE Known'
<1>1. /\ sweep.pc = "rearm" /\ row = "withdrawn"
      /\ UNCHANGED <<ticket, filledBy, called, eaVars, toApp, link, opener, op, reader, restore>>
  BY DEF SweepRearm, Setup, Known, Settled
<1>2. ~Fresh
  <2>1. ~Asking
    BY <1>1 DEF Setup, OrderInv, Stage, Asking
  <2>2. Answers = {} /\ ack.kind = "none"
    BY <2>1 DEF Setup, OrderInv, Clean, OneRequest
  <2> QED  BY <2>2 DEF Fresh, Answers
<1>3. CASE UNCHANGED <<toEA, ack>> /\ sweep' = Idle /\ row' \in {"withdrawn", "expired"}
  <2> USE <1>1, <1>2, <1>3 DEF Setup, Known, eaVars, Idle
  <2>1. Books'
    BY DEF Books, Fresh
  <2>2. Reported'
    BY DEF Reported, Fits, Settled
  <2>3. Settled'
    BY DEF Settled, Withdrawn, RestoresEnd, Off, CancelQueued, CancelAt, Fresh
  <2>4. Heard'
    BY DEF Heard, Fresh
  <2> QED  BY <2>1, <2>2, <2>3, <2>4
<1>4. CASE /\ Command(Msg("place", NoTicket)) /\ sweep' = At("await", NoTicket)
           /\ ack' = NoMsg /\ UNCHANGED row
  BY <1>1, <1>2, <1>4, SendPlaceKnown, MessageTypes DEF At
<1> QED  BY <1>1, <1>3, <1>4 DEF SweepRearm

\* RestoreRow keeps it: the working row's order is the current one.
LEMMA RestoreRowKnown ==
    ASSUME Setup, OrderInv', Clean', RestoreRow PROVE Known'
<1>1. /\ UNCHANGED <<row, ticket, filledBy, called, eaVars, toApp, link, opener, ack, sweep, op,
                     reader>>
      /\ ~Overlap
  BY DEF RestoreRow, rowVars, Clean
<1>2. sweep.pc = "idle" /\ op.pc = "idle" /\ ~Fresh
  <2>1. sweep.pc = "idle" /\ op.pc = "idle" /\ ~Asking
    BY <1>1 DEF Overlap, Asking
  <2>2. Answers = {} /\ ack.kind = "none"
    BY <2>1 DEF Setup, OrderInv, Clean, OneRequest
  <2> QED  BY <2>1, <2>2 DEF Fresh, Answers
<1>3. CASE row # "working" /\ UNCHANGED toEA
  <2> USE <1>1, <1>2, <1>3 DEF Setup, Known, eaVars
  <2>1. Books'
    BY DEF Books, Fresh
  <2>2. Reported'
    BY DEF Reported, Fits
  <2>3. Settled'
    BY DEF Settled, Withdrawn, RestoresEnd, Off, CancelQueued, CancelAt, Fresh
  <2>4. Heard'
    BY DEF Heard, Fresh
  <2> QED  BY <2>1, <2>2, <2>3, <2>4
<1>4. CASE row = "working" /\ Command(Msg("restore", ticket))
  <2> DEFINE m == Msg("restore", ticket)
  <2>1. m \in Commands /\ m.kind = "restore" /\ m.t = placed /\ placed > 0
    BY <1>4, MessageTypes DEF Setup, Known, Books, OrderInv, TypeOK
  <2>2. /\ Len(toEA) \in Nat /\ Len(toEA') = Len(toEA) + 1 /\ toEA'[Len(toEA) + 1] = m
        /\ \A j \in 1..Len(toEA) : j \in 1..Len(toEA') /\ toEA'[j] = toEA[j]
        /\ \A j \in 1..Len(toEA') : j \notin 1..Len(toEA) => toEA'[j] = m
    BY <1>1, <1>4, <2>1, SendQueue DEF Setup, eaVars
  <2> HIDE DEF m
  <2>3. /\ \A j \in 1..Len(toEA') : toEA'[j].kind = "cancel" =>
                  j \in 1..Len(toEA) /\ toEA'[j] = toEA[j]
        /\ \A j \in 1..Len(toEA') : toEA'[j].kind = "restore" => toEA'[j].t = placed
        /\ \E j \in 1..Len(toEA') : toEA'[j].kind = "restore"
    <3>1. Len(toEA) + 1 \in 1..Len(toEA')
      BY <2>2
    <3> QED  BY <2>1, <2>2, <3>1 DEF Setup, Known, Books
  <2> USE <1>1, <1>2, <1>4 DEF Setup, Known, eaVars
  <2>4. Books'
    BY <2>1, <2>3 DEF Books, Fresh
  <2>5. Reported'
    BY DEF Reported, Fits
  <2>6. Settled'
    BY DEF Settled
  <2>7. Heard'
    BY <2>3 DEF Heard, Eyed, Fresh
  <2> QED  BY <2>4, <2>5, <2>6, <2>7
<1> QED  BY <1>3, <1>4 DEF RestoreRow

\* ReadAnswer keeps it: the answer moves from the socket into the box.
LEMMA ReadAnswerKnown ==
    ASSUME Setup, OrderInv', Clean', ReadAnswer PROVE Known'
<1> USE DEF Setup, Known
<1>1. /\ toApp # <<>> /\ toApp' = Tail(toApp) /\ Head(toApp).kind \in {"placed", "failed"}
      /\ ack' = IF Asking THEN Head(toApp) ELSE ack
      /\ reader.kind = "none"
      /\ UNCHANGED <<row, ticket, filledBy, called, eaVars, toEA, link, opener, sweep, op, reader,
                     restore>>
  BY DEF ReadAnswer, NotReading, rowVars, Asking
<1>2. /\ Len(toApp) \in Nat /\ Len(toApp) >= 1 /\ Len(toApp') = Len(toApp) - 1
      /\ \A i \in 1..(Len(toApp) - 1) : toApp'[i] = toApp[i + 1]
      /\ Head(toApp) = toApp[1]
  BY <1>1, ReadEffect DEF OrderInv
<1>3. 1 \in Answers /\ \A i \in 1..Len(toApp) : i # 1 => toApp[i].kind \notin {"placed", "failed"}
  <2>1. 1 \in Answers /\ \A i \in Answers : i = 1
    BY <1>1, <1>2 DEF OrderInv, Clean, OneRequest, Answers
  <2> QED  BY <2>1 DEF Answers
<1>4. Asking /\ ack' = toApp[1] /\ ack.kind = "none"
  BY <1>1, <1>2, <1>3 DEF OrderInv, Clean, OneRequest
<1>5. \A i \in 1..Len(toApp') : i + 1 \in 1..Len(toApp) /\ toApp'[i] = toApp[i + 1]
                                /\ toApp'[i].kind \notin {"placed", "failed"}
  BY <1>2, <1>3
<1>6. \A i \in 1..Len(toApp) : i # 1 => i - 1 \in 1..Len(toApp') /\ toApp'[i - 1] = toApp[i]
  BY <1>2
<1>7. Fresh' <=> Fresh
  BY <1>3, <1>4, <1>5 DEF Fresh, Answers
<1>8. Books'
  BY <1>1, <1>3, <1>4, <1>5, <1>7 DEF Books, eaVars, Answers
<1>9. Reported'
  <2>1. \A i \in 1..Len(toApp') : toApp'[i].kind \in {"filled", "cancelled"} =>
            Fits(toApp[i + 1]) /\ toApp[i + 1].t = placed
    <3> SUFFICES ASSUME NEW i \in 1..Len(toApp'), toApp'[i].kind \in {"filled", "cancelled"}
                 PROVE  Fits(toApp[i + 1]) /\ toApp[i + 1].t = placed
      OBVIOUS
    <3>1. i + 1 \in 1..Len(toApp) /\ toApp[i + 1].kind \in {"filled", "cancelled"}
      BY <1>5
    <3>2. \A j \in ((i + 1) + 1)..Len(toApp) : j \in 1..Len(toApp) /\ j # 1
      BY <1>2, <3>1
    <3>3. \A j \in ((i + 1) + 1)..Len(toApp) : toApp[j].kind # "placed"
      BY <1>3, <3>2
    <3> QED  BY <3>1, <3>3 DEF Reported
  <2>2. \A i \in 1..Len(toApp') : toApp'[i].kind \in {"filled", "cancelled"} =>
            Fits(toApp[i])' /\ toApp'[i].t = placed
    BY <1>1, <1>5, <2>1 DEF Fits, eaVars
  <2> QED  BY <1>1, <2>2 DEF Reported, eaVars
<1>10. Settled'
  BY <1>1, <1>7 DEF Settled, Withdrawn, RestoresEnd, Off, CancelQueued, CancelAt, eaVars
<1>11. Heard'
  <2>1. Told => Told'
    <3>1. ASSUME NEW i \in 1..Len(toApp), toApp[i].kind \in {"filled", "cancelled"},
                 toApp[i].t = placed
          PROVE  Told'
      <4>1. i # 1
        BY <1>3, <3>1 DEF Answers
      <4>2. i - 1 \in 1..Len(toApp') /\ toApp'[i - 1] = toApp[i] /\ placed' = placed
        BY <1>1, <1>6, <4>1 DEF eaVars
      <4> QED  BY <3>1, <4>2 DEF Told
    <3> QED  BY <1>1, <3>1 DEF Told
  <2> QED  BY <1>1, <1>7, <2>1 DEF Heard, Eyed, eaVars
<1> QED  BY <1>8, <1>9, <1>10, <1>11

\* ReadReport keeps it: with no task at work, the report is of the current order.
LEMMA ReadReportKnown ==
    ASSUME Setup, OrderInv', Clean', ReadReport PROVE Known'
<1> USE DEF Setup, Known
<1>1. /\ toApp # <<>> /\ toApp' = Tail(toApp) /\ Head(toApp).kind \in {"filled", "cancelled"}
      /\ reader' = [kind |-> Head(toApp).kind, t |-> Head(toApp).t, seen |-> row]
      /\ ~Overlap
      /\ UNCHANGED <<row, ticket, filledBy, called, eaVars, toEA, link, opener, ack, sweep, op,
                     restore>>
  BY DEF ReadReport, rowVars, Clean
<1>2. /\ Len(toApp) \in Nat /\ Len(toApp) >= 1 /\ Len(toApp') = Len(toApp) - 1
      /\ \A i \in 1..(Len(toApp) - 1) : toApp'[i] = toApp[i + 1]
      /\ Head(toApp) = toApp[1]
  BY <1>1, ReadEffect DEF OrderInv
<1>3. sweep.pc = "idle" /\ op.pc = "idle" /\ opener = "done"
  BY <1>1 DEF Overlap, OrderInv, TypeOK, Stage
<1>4. Answers = {} /\ ack.kind = "none"
  BY <1>3 DEF Asking, OrderInv, Clean, OneRequest
<1>5. \A i \in 1..Len(toApp') : i + 1 \in 1..Len(toApp) /\ toApp'[i] = toApp[i + 1]
  BY <1>2
<1>6. ~Fresh /\ ~Fresh'
  BY <1>1, <1>4, <1>5 DEF Fresh, Answers
<1>7. \A i \in 1..Len(toApp) : toApp[i].kind \in {"filled", "cancelled"} =>
          Fits(toApp[i]) /\ toApp[i].t = placed
  <2> SUFFICES ASSUME NEW i \in 1..Len(toApp), toApp[i].kind \in {"filled", "cancelled"}
               PROVE  Fits(toApp[i]) /\ toApp[i].t = placed
    OBVIOUS
  <2>1. \A j \in (i + 1)..Len(toApp) : j \in 1..Len(toApp)
    BY <1>2
  <2> QED  BY <1>6, <2>1 DEF Reported, Fresh
<1>8. Books'
  BY <1>1, <1>5, <1>6 DEF Books, eaVars, Fresh
<1>9. Reported'
  <2>1. \A i \in 1..Len(toApp') : toApp'[i].kind \in {"filled", "cancelled"} =>
            Fits(toApp[i])' /\ toApp'[i].t = placed
    BY <1>1, <1>5, <1>7 DEF Fits, eaVars
  <2>2. 1 \in 1..Len(toApp) /\ Fits(toApp[1]) /\ toApp[1].t = placed
    BY <1>1, <1>2, <1>7
  <2>3. reader'.kind = toApp[1].kind /\ reader'.t = toApp[1].t /\ reader'.seen = row
    BY <1>1, <1>2
  <2>4. Fits(reader)'
    BY <1>1, <2>2, <2>3 DEF Fits, eaVars
  <2> QED  BY <1>1, <1>3, <1>4, <2>1, <2>2, <2>3, <2>4 DEF Reported, eaVars
<1>10. Settled'
  BY <1>1, <1>6 DEF Settled, Withdrawn, RestoresEnd, Off, CancelQueued, CancelAt, eaVars
<1>11. Heard'
  <2>1. 1 \in 1..Len(toApp) /\ toApp[1].t = placed
    BY <1>1, <1>2, <1>7
  <2>2. Told'
    BY <1>1, <1>2, <2>1 DEF Told, eaVars
  <2> QED  BY <1>1, <2>2, <1>6 DEF Heard, Eyed, eaVars
<1> QED  BY <1>8, <1>9, <1>10, <1>11

\* What is still queued behind the command that was handled.
LEMMA HandleQueue ==
    ASSUME OrderInv, toEA # <<>>, toEA' = Tail(toEA)
    PROVE  /\ Len(toEA) \in Nat /\ Len(toEA) >= 1 /\ Len(toEA') = Len(toEA) - 1
           /\ Head(toEA) = toEA[1]
           /\ \A j \in 1..Len(toEA') : j + 1 \in 1..Len(toEA) /\ toEA'[j] = toEA[j + 1]
           /\ \A j \in 1..Len(toEA) : j # 1 => j - 1 \in 1..Len(toEA') /\ toEA'[j - 1] = toEA[j]
           /\ \A t : CancelQueued(t) /\ ~CancelAt(1, t) => CancelQueued(t)'
           /\ \A t : CancelQueued(t)' => CancelQueued(t)
<1>1. /\ Len(toEA) \in Nat /\ Len(toEA) >= 1 /\ Len(toEA') = Len(toEA) - 1
      /\ \A i \in 1..(Len(toEA) - 1) : toEA'[i] = toEA[i + 1]
      /\ Head(toEA) = toEA[1]
  BY HandleEffect DEF OrderInv
<1>2. \A j \in 1..Len(toEA') : j + 1 \in 1..Len(toEA) /\ toEA'[j] = toEA[j + 1]
  BY <1>1
<1>3. \A j \in 1..Len(toEA) : j # 1 => j - 1 \in 1..Len(toEA') /\ toEA'[j - 1] = toEA[j]
  BY <1>1
<1>4. ASSUME NEW t, CancelQueued(t), ~CancelAt(1, t) PROVE CancelQueued(t)'
  <2>1. PICK j \in 1..Len(toEA) : CancelAt(j, t) /\ j # 1
    BY <1>4 DEF CancelQueued
  <2> QED  BY <1>3, <2>1 DEF CancelQueued, CancelAt
<1>5. ASSUME NEW t, CancelQueued(t)' PROVE CancelQueued(t)
  BY <1>2, <1>5 DEF CancelQueued, CancelAt
<1> QED  BY <1>1, <1>2, <1>3, <1>4, <1>5

\* What is queued once a report has been sent, or lost without a connection.
LEMMA ReportQueue ==
    ASSUME OrderInv, NEW m \in Reports, Report(m)
    PROVE  /\ Len(toApp) \in Nat
           /\ \A i \in 1..Len(toApp) : i \in 1..Len(toApp') /\ toApp'[i] = toApp[i]
           /\ \A i \in 1..Len(toApp') : i \in 1..Len(toApp) \/ toApp'[i] = m
           /\ link => /\ Len(toApp') = Len(toApp) + 1 /\ toApp'[Len(toApp) + 1] = m
                      /\ Len(toApp) + 1 \in 1..Len(toApp')
<1>1. CASE link
  <2>1. toApp' = Append(toApp, m) /\ toApp \in Seq(Reports)
    BY <1>1 DEF Report, OrderInv, TypeOK
  <2>2. /\ Len(toApp) \in Nat /\ Len(toApp') = Len(toApp) + 1
        /\ \A i \in 1..Len(toApp) : toApp'[i] = toApp[i]
        /\ toApp'[Len(toApp) + 1] = m
    BY <2>1, AppendFacts
  <2> QED  BY <2>2
<1>2. CASE ~link
  <2>1. Len(toApp) \in Nat /\ toApp' = toApp
    BY <1>2 DEF Report, OrderInv, TypeOK
  <2> QED  BY <1>2, <2>1
<1> QED  BY <1>1, <1>2

\* A restore behind the handled command is still followed by its cancel.
LEMMA RestoresEndStays ==
    ASSUME OrderInv, toEA # <<>>, toEA' = Tail(toEA), UNCHANGED placed, RestoresEnd
    PROVE  RestoresEnd'
<1> SUFFICES ASSUME NEW i \in 1..Len(toEA'), toEA'[i].kind = "restore"
             PROVE  \E j \in (i + 1)..Len(toEA') : CancelAt(j, placed)'
  BY DEF RestoresEnd
<1>1. /\ Len(toEA) \in Nat /\ Len(toEA') = Len(toEA) - 1
      /\ i + 1 \in 1..Len(toEA) /\ toEA'[i] = toEA[i + 1]
      /\ \A j \in 1..Len(toEA) : j # 1 => j - 1 \in 1..Len(toEA') /\ toEA'[j - 1] = toEA[j]
  BY HandleQueue
<1>2. PICK j \in ((i + 1) + 1)..Len(toEA) : CancelAt(j, placed)
  BY <1>1 DEF RestoresEnd
<1>3. j \in 1..Len(toEA) /\ j # 1 /\ j - 1 \in (i + 1)..Len(toEA')
  BY <1>1
<1>4. CancelAt(j - 1, placed)'
  BY <1>1, <1>2, <1>3 DEF CancelAt
<1> QED  BY <1>3, <1>4

\* A report of the current order, or none, keeps the reports true.
LEMMA ReportsStay ==
    ASSUME Setup, NEW m \in Reports, Report(m), m.kind \in {"filled", "cancelled"},
           m.t = placed, Fits(m)',
           \A t \in Tickets : book[t] \in {"position", "gone"} => book'[t] = book[t],
           UNCHANGED <<placed, row, opener, ack, sweep, op, reader>>
    PROVE  /\ Reported'
           /\ Fresh' <=> Fresh
           /\ Told => Told'
           /\ link => Told'
           /\ \A i \in 1..Len(toApp') : toApp'[i].kind = "placed" =>
                  i \in 1..Len(toApp) /\ toApp'[i] = toApp[i]
<1> USE DEF Setup, Known
<1>1. /\ Len(toApp) \in Nat
      /\ \A i \in 1..Len(toApp) : i \in 1..Len(toApp') /\ toApp'[i] = toApp[i]
      /\ \A i \in 1..Len(toApp') : i \in 1..Len(toApp) \/ toApp'[i] = m
      /\ link => toApp'[Len(toApp) + 1] = m /\ Len(toApp) + 1 \in 1..Len(toApp')
  BY ReportQueue
<1>2. \A i \in 1..Len(toApp') : toApp'[i].kind = "placed" =>
          i \in 1..Len(toApp) /\ toApp'[i] = toApp[i]
  BY <1>1
<1>3. Fresh' <=> Fresh
  BY <1>1, <1>2 DEF Fresh
<1>4. \A i \in 1..Len(toApp') : toApp'[i].kind \in {"filled", "cancelled"} =>
           /\ Fits(toApp[i])'
           /\ toApp'[i].t # placed => \E j \in (i + 1)..Len(toApp') : toApp'[j].kind = "placed"
  <2> SUFFICES ASSUME NEW i \in 1..Len(toApp'), toApp'[i].kind \in {"filled", "cancelled"},
                      i \in 1..Len(toApp)
               PROVE  /\ Fits(toApp[i])'
                      /\ toApp'[i].t # placed =>
                            \E j \in (i + 1)..Len(toApp') : toApp'[j].kind = "placed"
    BY <1>1 DEF Fits
  <2>1. toApp'[i] = toApp[i] /\ Fits(toApp[i])
    BY <1>1 DEF Reported
  <2>2. Fits(toApp[i])'
    BY <2>1 DEF Fits
  <2>3. ASSUME toApp'[i].t # placed
        PROVE  \E j \in (i + 1)..Len(toApp') : toApp'[j].kind = "placed"
    <3>1. PICK j \in (i + 1)..Len(toApp) : toApp[j].kind = "placed"
      BY <2>1, <2>3 DEF Reported
    <3>2. j \in 1..Len(toApp)
      BY <1>1
    <3>3. j \in 1..Len(toApp') /\ toApp'[j] = toApp[j]
      BY <1>1, <3>2
    <3>4. j \in (i + 1)..Len(toApp')
      BY <3>3
    <3> QED  BY <3>1, <3>3, <3>4
  <2> QED  BY <2>2, <2>3
<1>5. reader.kind # "none" => Fits(reader)'
  BY DEF Reported, Fits
<1>6. Reported'
  BY <1>4, <1>5 DEF Reported
<1>7. Told => Told'
  BY <1>1 DEF Told
<1>8. link => Told'
  BY <1>1 DEF Told
<1> QED  BY <1>2, <1>3, <1>6, <1>7, <1>8

\* Only the current order is tracked or rests.
LEMMA CurrentOnly ==
    ASSUME Setup
    PROVE  /\ \A t \in Tickets : tracked[t] > 0 \/ book[t] = "resting" => t = placed
           /\ \A t \in Tickets : tracked[t] \in {0, 1}
           /\ placed \in 0..MaxTickets /\ (placed > 0 => placed \in Tickets)
<1>1. placed \in 0..MaxTickets /\ tracked \in [Tickets -> Nat]
  BY DEF Setup, OrderInv, TypeOK
<1>2. \A t \in Tickets : t < placed => book[t] = "gone" /\ tracked[t] = 0
  BY DEF Setup, Known, Books
<1>3. \A t \in Tickets : t > placed => book[t] = "none" /\ tracked[t] = 0
  BY DEF Setup, OrderInv, Stage
<1>4. \A t \in Tickets : t < placed \/ t > placed \/ t = placed
  BY <1>1, RestingAssumption
<1>5. \A t \in Tickets : tracked[t] <= 1 /\ tracked[t] \in Nat
  BY <1>1 DEF Setup, Known, Books
<1> QED  BY <1>1, <1>2, <1>3, <1>4, <1>5, RestingAssumption

\* EaCancels keeps it: the current order goes, and its end is reported.
LEMMA EaCancelsKnown ==
    ASSUME Setup, OrderInv', Clean', EaCancels PROVE Known'
<1> USE DEF Setup, Known
<1>1. /\ toEA # <<>> /\ toEA' = Tail(toEA) /\ Head(toEA).kind = "cancel"
      /\ Head(toEA).t \in Numbers /\ placed' = placed
      /\ UNCHANGED <<row, ticket, filledBy, called, link, opener, ack, sweep, op, reader,
                     restore>>
      /\ link
  <2>1. /\ toEA # <<>> /\ toEA' = Tail(toEA) /\ Head(toEA).kind = "cancel"
        /\ UNCHANGED <<row, ticket, filledBy, called, link, opener, ack, sweep, op, reader,
                       restore>>
        /\ placed' = placed
    BY DEF EaCancels, rowVars, taskVars, eaVars
  <2>2. Head(toEA).t \in Numbers
    BY <2>1, Queues DEF OrderInv
  <2>3. link
    BY <2>1 DEF OrderInv, Wire
  <2> QED  BY <2>1, <2>2, <2>3
<1>2. /\ Head(toEA) = toEA[1]
      /\ \A j \in 1..Len(toEA') : j + 1 \in 1..Len(toEA) /\ toEA'[j] = toEA[j + 1]
      /\ \A j \in 1..Len(toEA) : j # 1 => j - 1 \in 1..Len(toEA') /\ toEA'[j - 1] = toEA[j]
      /\ \A t : CancelQueued(t) /\ ~CancelAt(1, t) => CancelQueued(t)'
  BY <1>1, HandleQueue
<1>3. /\ \A t \in Tickets : tracked[t] > 0 \/ book[t] = "resting" => t = placed
      /\ \A t \in Tickets : tracked[t] \in {0, 1}
      /\ placed \in 0..MaxTickets /\ (placed > 0 => placed \in Tickets)
  BY CurrentOnly
<1>4. RestoresEnd => RestoresEnd'
  BY <1>1, RestoresEndStays
<1>5. /\ \A j \in 1..Len(toEA') : toEA'[j].kind = "restore" => toEA'[j].t = placed /\ placed > 0
      /\ \A j \in 1..Len(toEA') : toEA'[j].kind = "cancel" => toEA'[j].t <= placed
      /\ (\E j \in 1..Len(toEA) : toEA[j].kind = "restore") =>
             \E j \in 1..Len(toEA') : toEA'[j].kind = "restore"
  <2>1. (\E j \in 1..Len(toEA) : toEA[j].kind = "restore") =>
            \E j \in 1..Len(toEA') : toEA'[j].kind = "restore"
    BY <1>1, <1>2
  <2>2. /\ \A j \in 1..Len(toEA') : toEA'[j].kind = "restore" => toEA'[j].t = placed /\ placed > 0
        /\ \A j \in 1..Len(toEA') : toEA'[j].kind = "cancel" => toEA'[j].t <= placed
    BY <1>2 DEF Books
  <2> QED  BY <2>1, <2>2
<1>6. CASE Head(toEA).t = NoTicket /\ UNCHANGED <<eaVars, toApp>>
  <2> USE <1>1, <1>6 DEF eaVars
  <2>1. Books'
    BY <1>5 DEF Books, Fresh
  <2>2. Reported'
    BY DEF Reported, Fits
  <2>3. Off => Off'
    BY <1>2, <1>3 DEF Off, CancelAt
  <2>4. Settled'
    BY <1>4, <2>3 DEF Settled, Withdrawn, Fresh
  <2>5. Heard'
    BY <1>5 DEF Heard, Eyed, Told, Fresh
  <2> QED  BY <2>1, <2>2, <2>4, <2>5
<1>7. CASE \E t \in Tickets : /\ book[t] = "resting"
                              /\ book' = [book EXCEPT ![t] = "gone"]
                              /\ tracked' = [tracked EXCEPT ![t] = IF @ > 0 THEN @ - 1 ELSE 0]
                              /\ Report(Msg("cancelled", t))
  <2>1. PICK t \in Tickets : /\ book[t] = "resting"
                             /\ book' = [book EXCEPT ![t] = "gone"]
                             /\ tracked' = [tracked EXCEPT ![t] = IF @ > 0 THEN @ - 1 ELSE 0]
                             /\ Report(Msg("cancelled", t))
    BY <1>7
  <2>2. t = placed /\ tracked[t] \in {0, 1}
    BY <1>3, <2>1
  <2>3. /\ book'[t] = "gone" /\ tracked'[t] = 0
        /\ \A u \in Tickets : u # t => book'[u] = book[u] /\ tracked'[u] = tracked[u]
    BY <2>1, <2>2 DEF OrderInv, TypeOK
  <2> DEFINE m == Msg("cancelled", t)
  <2>4. m \in Reports /\ m.kind = "cancelled" /\ m.t = t /\ Report(m)
    BY <2>1, MessageTypes
  <2> HIDE DEF m
  <2>5. Fits(m)'
    BY <2>3, <2>4 DEF Fits
  <2>6. \A u \in Tickets : book[u] \in {"position", "gone"} => book'[u] = book[u]
    BY <2>1, <2>3
  <2>7. /\ Reported' /\ (Fresh' <=> Fresh) /\ Told'
        /\ \A i \in 1..Len(toApp') : toApp'[i].kind = "placed" =>
               i \in 1..Len(toApp) /\ toApp'[i] = toApp[i]
    BY <1>1, <2>2, <2>4, <2>5, <2>6, ReportsStay
  <2>8. Books'
    BY <1>1, <1>3, <1>5, <2>2, <2>3, <2>7 DEF Books
  <2>9. Settled'
    BY <1>1, <1>4, <2>1, <2>2, <2>3, <2>7 DEF Settled, Withdrawn, Off
  <2>10. Heard'
    BY <2>2, <2>3, <2>7, <1>1 DEF Heard
  <2> QED  BY <2>7, <2>8, <2>9, <2>10
<1> QED
  <2>1. raced' = {}
    BY DEF Clean
  <2>2. CASE Head(toEA).t # NoTicket
    <3>1. Head(toEA).t \in Tickets
      BY <1>1, <2>2
    <3> QED  BY <1>7, <2>1, <2>2, <3>1 DEF EaCancels
  <2>3. CASE Head(toEA).t = NoTicket
    BY <1>6, <1>7, <2>1, <2>3 DEF EaCancels
  <2> QED  BY <2>2, <2>3

\* EaRestores keeps it: the order is watched again, or its end reported.
LEMMA EaRestoresKnown ==
    ASSUME Setup, OrderInv', Clean', EaRestores PROVE Known'
<1> USE DEF Setup, Known
<1>1. /\ toEA # <<>> /\ toEA' = Tail(toEA) /\ Head(toEA).kind = "restore"
      /\ UNCHANGED <<row, ticket, filledBy, called, placed, book, link, opener, ack, sweep, op,
                     reader, restore>>
      /\ link
  BY DEF EaRestores, rowVars, taskVars, OrderInv, Wire
<1>2. /\ Len(toEA) \in Nat /\ Len(toEA) >= 1 /\ Head(toEA) = toEA[1]
      /\ \A j \in 1..Len(toEA') : j + 1 \in 1..Len(toEA) /\ toEA'[j] = toEA[j + 1]
      /\ \A t : CancelQueued(t) /\ ~CancelAt(1, t) => CancelQueued(t)'
  BY <1>1, HandleQueue
<1>3. /\ \A t \in Tickets : tracked[t] > 0 \/ book[t] = "resting" => t = placed
      /\ \A t \in Tickets : tracked[t] \in {0, 1}
      /\ placed \in 0..MaxTickets /\ (placed > 0 => placed \in Tickets)
  BY CurrentOnly
<1>4. RestoresEnd => RestoresEnd'
  BY <1>1, RestoresEndStays
<1>5. /\ \A j \in 1..Len(toEA') : toEA'[j].kind = "restore" => toEA'[j].t = placed /\ placed > 0
      /\ \A j \in 1..Len(toEA') : toEA'[j].kind = "cancel" => toEA'[j].t <= placed
  BY <1>2 DEF Books
<1>6. Head(toEA).t = placed /\ placed > 0 /\ placed \in Tickets
      /\ book[placed] \in {"resting", "position", "gone"}
  <2>1. 1 \in 1..Len(toEA)
    BY <1>2
  <2> QED  BY <1>1, <1>2, <1>3, <2>1 DEF Books
<1>7. Off => Off'
  BY <1>1, <1>2 DEF Off, CancelAt
<1>8. CASE /\ book[placed] = "resting" /\ tracked[placed] = 0
           /\ tracked' = [tracked EXCEPT ![placed] = @ + 1] /\ UNCHANGED toApp
  <2>1. tracked'[placed] = 1 /\ \A t \in Tickets : t # placed => tracked'[t] = tracked[t]
    BY <1>6, <1>8 DEF OrderInv, TypeOK
  <2> USE <1>1, <1>8
  <2>2. Books'
    BY <1>3, <1>5, <2>1 DEF Books, Fresh
  <2>3. Reported'
    BY DEF Reported, Fits
  <2>4. Settled'
    BY <1>4, <1>7 DEF Settled, Withdrawn, Fresh
  <2>5. Heard'
    BY <1>6, <2>1 DEF Heard, Eyed, Told, Fresh
  <2> QED  BY <2>2, <2>3, <2>4, <2>5
<1>9. CASE /\ book[placed] # "resting" /\ UNCHANGED tracked
           /\ Report(Msg(IF book[placed] = "position" THEN "filled" ELSE "cancelled", placed))
  <2>1. PICK m \in Reports :
            /\ m = Msg(IF book[placed] = "position" THEN "filled" ELSE "cancelled", placed)
    BY <1>6, MessageTypes
  <2>2. /\ m.kind = (IF book[placed] = "position" THEN "filled" ELSE "cancelled")
        /\ m.t = placed /\ Report(m)
    BY <1>9, <2>1, MessageTypes
  <2>3. Fits(m)'
    BY <1>1, <1>6, <1>9, <2>2 DEF Fits
  <2>4. /\ Reported' /\ (Fresh' <=> Fresh) /\ Told'
        /\ \A i \in 1..Len(toApp') : toApp'[i].kind = "placed" =>
               i \in 1..Len(toApp) /\ toApp'[i] = toApp[i]
    BY <1>1, <2>2, <2>3, ReportsStay
  <2>5. Books'
    BY <1>1, <1>5, <1>9, <2>4 DEF Books
  <2>6. Settled'
    BY <1>1, <1>4, <1>7, <1>9, <2>4 DEF Settled, Withdrawn
  <2>7. Heard'
    BY <1>1, <1>9, <2>4 DEF Heard
  <2> QED  BY <2>4, <2>5, <2>6, <2>7
<1> QED
  <2>1. tracked[placed] > 0 => raced' = raced \cup {"twice"} \/ book[placed] # "resting"
    BY <1>6 DEF EaRestores
  <2>2. raced' = {}
    BY DEF Clean
  <2>3. book[placed] = "resting" => tracked[placed] = 0
    BY <1>3, <1>6, <2>1, <2>2
  <2> QED  BY <1>6, <1>8, <1>9, <2>3 DEF EaRestores

\* EaChecks keeps it: the end of the current order is reported.
LEMMA EaChecksKnown ==
    ASSUME Setup, OrderInv', Clean', NEW t \in Tickets, EaChecks(t) PROVE Known'
<1> USE DEF Setup, Known
<1>1. /\ UNCHANGED <<row, ticket, filledBy, called, placed, book, toEA, link, opener, ack, sweep,
                     op, reader, restore>>
      /\ tracked[t] > 0 /\ book[t] # "resting" /\ tracked' = [tracked EXCEPT ![t] = @ - 1]
  BY DEF EaChecks, rowVars, taskVars
<1>2. /\ \A u \in Tickets : tracked[u] > 0 \/ book[u] = "resting" => u = placed
      /\ \A u \in Tickets : tracked[u] \in {0, 1}
  BY CurrentOnly
<1>3. t = placed /\ tracked[t] = 1
  BY <1>1, <1>2
<1>4. tracked'[t] = 0 /\ \A u \in Tickets : u # t => tracked'[u] = tracked[u]
  BY <1>1, <1>3 DEF OrderInv, TypeOK
<1>5. book[placed] \in {"position", "gone"} /\ placed > 0
  BY <1>1, <1>3, RestingAssumption DEF Books
<1>6. PICK m \in Reports : m = Msg(IF book[t] = "position" THEN "filled" ELSE "cancelled", t)
  BY MessageTypes
<1>7. /\ m.kind = (IF book[t] = "position" THEN "filled" ELSE "cancelled")
      /\ m.t = t /\ Report(m)
  BY <1>6, MessageTypes DEF EaChecks
<1>8. Fits(m)'
  BY <1>1, <1>3, <1>5, <1>7 DEF Fits
<1>9. /\ Reported' /\ (Fresh' <=> Fresh) /\ (Told => Told') /\ (link => Told')
      /\ \A i \in 1..Len(toApp') : toApp'[i].kind = "placed" =>
             i \in 1..Len(toApp) /\ toApp'[i] = toApp[i]
  BY <1>1, <1>3, <1>7, <1>8, ReportsStay
<1>10. Books'
  BY <1>1, <1>2, <1>3, <1>4, <1>9 DEF Books
<1>11. Settled'
  BY <1>1, <1>3, <1>4, <1>5, <1>9
     DEF Settled, Withdrawn, RestoresEnd, Off, CancelQueued, CancelAt
<1>12. Heard'
  BY <1>1, <1>3, <1>5, <1>9 DEF Heard, Eyed
<1> QED  BY <1>9, <1>10, <1>11, <1>12

\* EaPlaces keeps it: what was placed before is gone and forgotten, so the new
\* order is the current one.
LEMMA EaPlacesKnown ==
    ASSUME Setup, OrderInv', Clean', EaPlaces PROVE Known'
<1> USE DEF Setup, Known
<1>1. /\ toEA # <<>> /\ toEA' = Tail(toEA) /\ Head(toEA).kind = "place"
      /\ UNCHANGED <<row, ticket, filledBy, called, link, opener, ack, sweep, op, reader, restore>>
      /\ link
  BY DEF EaPlaces, rowVars, taskVars, OrderInv, Wire
<1>2. /\ Len(toEA) \in Nat /\ Len(toEA) >= 1 /\ Head(toEA) = toEA[1]
      /\ \A j \in 1..Len(toEA') : j + 1 \in 1..Len(toEA) /\ toEA'[j] = toEA[j + 1]
  BY <1>1, HandleQueue
<1>3. placed \in 0..MaxTickets /\ (placed > 0 => placed \in Tickets)
  BY CurrentOnly
<1>4. Live = {} /\ Answers = {} /\ ack.kind = "none" /\ Asking
  <2>1. 1 \in Places
    BY <1>1, <1>2 DEF Places
  <2>2. \A t \in Live : \E j \in 1..0 : CancelAt(j, t)
    BY <2>1 DEF OrderInv, Clean, OneLive
  <2>3. Live = {}
    BY <2>2
  <2> QED  BY <2>1, <2>3 DEF OrderInv, Clean, OneRequest
<1>5. ~Fresh /\ row \in {"none", "withdrawn"} /\ sweep.pc \in {"idle", "await"}
      /\ op.pc # "sent" /\ (reader.kind # "none" => sweep.pc = "await")
      /\ (row = "none" => sweep.pc = "idle")
  <2>1. ~Fresh
    BY <1>4 DEF Fresh, Answers
  <2>2. CASE sweep.pc = "await"
    BY <2>1, <2>2 DEF Settled, OrderInv, Stage
  <2>3. CASE opener \in {"first", "claimed"}
    BY <2>1, <2>3 DEF Reported, OrderInv, Stage
  <2> QED  BY <1>4, <2>2, <2>3 DEF Asking
<1>6. /\ placed > 0 => book[placed] = "gone" /\ tracked[placed] = 0 /\ row = "withdrawn"
      /\ \A j \in 1..Len(toEA') : toEA'[j].kind # "restore"
  <2>1. placed > 0 => row = "withdrawn" /\ Withdrawn
    BY <1>3, <1>5 DEF Books, Settled
  <2>2. placed > 0 => book[placed] = "gone"
    BY <1>3, <1>4 DEF Books, Live
  <2>3. placed > 0 => tracked[placed] = 0
    BY <2>1, <2>2 DEF Withdrawn
  <2>4. ASSUME NEW j \in 1..Len(toEA'), toEA'[j].kind = "restore" PROVE FALSE
    <3>1. j + 1 \in 1..Len(toEA) /\ toEA[j + 1].kind = "restore"
      BY <1>2, <2>4
    <3>2. placed > 0 /\ RestoresEnd
      BY <2>1, <3>1 DEF Books, Withdrawn
    <3>3. PICK k \in ((j + 1) + 1)..Len(toEA) : CancelAt(k, placed)
      BY <3>1, <3>2 DEF RestoresEnd
    <3>4. k \in 1..Len(toEA)
      BY <1>2
    <3> QED  BY <1>3, <2>2, <3>2, <3>3, <3>4 DEF Clean, Bound, CancelAt
  <2> QED  BY <2>1, <2>2, <2>3, <2>4
<1>7. \A j \in 1..Len(toEA') : toEA'[j].kind = "cancel" => toEA'[j].t <= placed
  BY <1>2 DEF Books
<1>8. CASE Report(Msg("failed", NoTicket)) /\ UNCHANGED eaVars
  <2> DEFINE m == Msg("failed", NoTicket)
  <2>1. m \in Reports /\ m.kind = "failed"
    BY MessageTypes
  <2>2. /\ \A i \in 1..Len(toApp) : i \in 1..Len(toApp') /\ toApp'[i] = toApp[i]
        /\ \A i \in 1..Len(toApp') : i \in 1..Len(toApp) \/ toApp'[i] = m
    BY <1>8, <2>1, ReportQueue
  <2> HIDE DEF m
  <2>3. /\ ~Fresh'
        /\ \A i \in 1..Len(toApp') : toApp'[i].kind # "failed" =>
               i \in 1..Len(toApp) /\ toApp'[i] = toApp[i] /\ toApp'[i].kind # "placed"
    BY <1>1, <1>4, <1>5, <2>1, <2>2 DEF Fresh, Answers
  <2> USE <1>1, <1>8 DEF eaVars
  <2>4. Books'
    BY <1>5, <1>6, <1>7, <2>3 DEF Books
  <2>5. \A i \in 1..Len(toApp) : toApp[i].kind \in {"filled", "cancelled"} =>
            Fits(toApp[i]) /\ toApp[i].t = placed
    <3> SUFFICES ASSUME NEW i \in 1..Len(toApp), toApp[i].kind \in {"filled", "cancelled"}
                 PROVE  Fits(toApp[i]) /\ toApp[i].t = placed
      OBVIOUS
    <3>1. \A j \in (i + 1)..Len(toApp) : j \in 1..Len(toApp)
      BY DEF OrderInv, TypeOK
    <3> QED  BY <1>5, <3>1 DEF Reported, Fresh
  <2>6. \A i \in 1..Len(toApp') : toApp'[i].kind \in {"filled", "cancelled"} =>
            Fits(toApp[i])' /\ toApp'[i].t = placed
    BY <2>3, <2>5 DEF Fits
  <2>7. Reported'
    BY <2>6 DEF Reported, Fits
  <2>8. Settled'
    BY <1>5, <1>6, <2>3 DEF Settled, Withdrawn, RestoresEnd, Off
  <2>9. Heard'
    BY <1>5, <2>3 DEF Heard
  <2> QED  BY <2>4, <2>7, <2>8, <2>9
<1>9. CASE /\ placed < MaxTickets
           /\ placed' = placed + 1
           /\ book' = [book EXCEPT ![placed + 1] = "resting"]
           /\ tracked' = [tracked EXCEPT ![placed + 1] = 1]
           /\ Report(Msg("placed", placed + 1))
  <2>0. PICK n \in Tickets : n = placed + 1
    BY <1>3, <1>9, RestingAssumption
  <2>1. PICK m \in Reports : m = Msg("placed", n)
    BY MessageTypes
  <2>2. m.kind = "placed" /\ m.t = n /\ Report(m)
    BY <1>9, <2>0, <2>1, MessageTypes
  <2>3. /\ Len(toApp) \in Nat
        /\ \A i \in 1..Len(toApp) : i \in 1..Len(toApp') /\ toApp'[i] = toApp[i]
        /\ \A i \in 1..Len(toApp') : i \in 1..Len(toApp) \/ toApp'[i] = m
        /\ Len(toApp') = Len(toApp) + 1 /\ toApp'[Len(toApp) + 1] = m
        /\ Len(toApp) + 1 \in 1..Len(toApp')
    BY <1>1, <2>2, ReportQueue
  <2>4. /\ Fresh'
        /\ \A i \in 1..Len(toApp') : toApp'[i].kind = "placed" => toApp'[i].t = n
    BY <1>4, <2>2, <2>3 DEF Fresh, Answers
  <2>5. /\ placed' = n /\ book'[n] = "resting" /\ tracked'[n] = 1 /\ book[n] = "none"
        /\ \A t \in Tickets : t # n => book'[t] = book[t] /\ tracked'[t] = tracked[t]
    <3>1. book[n] = "none"
      BY <1>3, <2>0 DEF OrderInv, Stage
    <3> QED  BY <1>9, <2>0, <3>1 DEF OrderInv, TypeOK
  <2>6. Books'
    <3>1. \A t \in Tickets : t < n => book'[t] = "gone" /\ tracked'[t] = 0
      <4> SUFFICES ASSUME NEW t \in Tickets, t < n PROVE book'[t] = "gone" /\ tracked'[t] = 0
        OBVIOUS
      <4>1. t < placed \/ (t = placed /\ placed > 0)
        BY <1>3, <2>0
      <4> QED  BY <1>6, <2>5, <4>1 DEF Books
    <3>2. \A t \in Tickets : tracked'[t] <= 1
      BY <2>5 DEF Books
    <3>3. ticket <= n /\ ticket < n /\ n > 0
      BY <1>3, <2>0 DEF Books, OrderInv, TypeOK
    <3>4. \A j \in 1..Len(toEA') : toEA'[j].kind = "cancel" => toEA'[j].t <= n
      <4> SUFFICES ASSUME NEW j \in 1..Len(toEA'), toEA'[j].kind = "cancel" PROVE toEA'[j].t <= n
        OBVIOUS
      <4>1. toEA'[j].t \in Numbers
        BY MessageTypes DEF OrderInv, TypeOK
      <4> QED  BY <1>3, <1>7, <2>0, <4>1
    <3>5. /\ \A j \in 1..Len(toEA') : toEA'[j].kind = "restore" => toEA'[j].t = n /\ n > 0
          /\ n > 0 => book'[n] \in {"resting", "position", "gone"}
          /\ ticket' <= n /\ (Fresh' => ticket' < n)
      BY <1>1, <1>6, <2>5, <3>3
    <3>6. /\ row' = "working" => ticket' = n /\ n > 0
          /\ row' = "none" /\ ~Fresh' => n = 0
          /\ ack'.kind = "placed" => ack'.t = n
      BY <1>1, <1>4, <1>5, <2>4
    <3>7. /\ op'.pc # "idle" => called' /\ op'.t # NoTicket /\ op'.t <= ticket'
          /\ sweep'.pc = "withdraw" => sweep'.t # NoTicket /\ sweep'.t <= ticket'
      BY <1>1 DEF Books
    <3> QED  BY <2>4, <2>5, <3>1, <3>2, <3>4, <3>5, <3>6, <3>7 DEF Books
  <2>7. Reported'
    <3>1. \A i \in 1..Len(toApp') : toApp'[i].kind \in {"filled", "cancelled"} =>
              /\ Fits(toApp[i])'
              /\ \E j \in (i + 1)..Len(toApp') : toApp'[j].kind = "placed"
      <4> SUFFICES ASSUME NEW i \in 1..Len(toApp'), toApp'[i].kind \in {"filled", "cancelled"}
                   PROVE  /\ Fits(toApp[i])'
                          /\ \E j \in (i + 1)..Len(toApp') : toApp'[j].kind = "placed"
        OBVIOUS
      <4>1. i \in 1..Len(toApp) /\ toApp'[i] = toApp[i]
        BY <2>2, <2>3
      <4>2. Fits(toApp[i])
        BY <4>1 DEF Reported
      <4>3. Fits(toApp[i])'
        BY <2>5, <4>1, <4>2 DEF Fits
      <4>4. Len(toApp) + 1 \in (i + 1)..Len(toApp')
        BY <2>3, <4>1
      <4> QED  BY <2>2, <2>3, <4>3, <4>4
    <3>2. reader.kind # "none" => Fits(reader)'
      BY <1>1, <2>5 DEF Reported, Fits
    <3> QED  BY <1>1, <1>5, <3>1, <3>2 DEF Reported
  <2>8. Settled'
    BY <1>1, <1>5, <2>4, <2>5 DEF Settled
  <2>9. Heard'
    BY <2>5 DEF Heard, Eyed
  <2> QED  BY <2>6, <2>7, <2>8, <2>9
<1> QED  BY <1>8, <1>9 DEF EaPlaces

\* LinkDown keeps it: no cancel was on its way, no answer is missed, and the
\* connection that follows restores the working row.
LEMMA LinkDownKnown ==
    ASSUME Setup, OrderInv', Clean', LinkDown PROVE Known'
<1> USE DEF Setup, Known
<1>1. /\ link' = FALSE /\ toEA' = <<>> /\ toApp' = <<>>
      /\ Len(toEA') = 0 /\ Len(toApp') = 0
      /\ UNCHANGED <<row, ticket, filledBy, called, placed, book>>
  BY DEF LinkDown, rowVars
<1>2. \A j \in 1..Len(toEA) : toEA[j].kind # "cancel"
  <2>1. Lost = {}
    BY DEF LinkDown, Clean
  <2> QED  BY <2>1 DEF Lost
<1>3. Off => (placed > 0 => book[placed] = "gone")
  BY <1>2 DEF Off, CancelQueued, CancelAt
<1>4. tracked' = tracked \/ tracked' = [t \in Tickets |-> 0]
  BY DEF LinkDown
<1>5. /\ \A t \in Tickets : tracked[t] = 0 => tracked'[t] = 0
      /\ \A t \in Tickets : tracked'[t] <= 1
  <2>1. CASE tracked' = tracked
    BY <2>1 DEF Books
  <2>2. CASE tracked' = [t \in Tickets |-> 0]
    BY <2>2
  <2> QED  BY <1>4, <2>1, <2>2
<1>6. CASE UNCHANGED <<opener, ack, sweep, op, reader>>
  <2>1. Fresh' => ack.kind = "placed"
    BY <1>1, <1>6 DEF Fresh
  <2>2. Fresh => ack.kind = "placed"
    <3> SUFFICES ASSUME Answers # {} PROVE FALSE
      BY DEF Fresh, Answers
    <3>1. Asking /\ ack.kind = "none"
      BY DEF OrderInv, Clean, OneRequest
    <3>2. Asking' /\ ack'.kind = "none" /\ Places' = {} /\ Answers' = {}
      BY <1>1, <1>6, <3>1 DEF Asking, Places, Answers
    <3> QED  BY <3>2 DEF Clean, Unanswered
  <2>3. Fresh' <=> Fresh
    BY <1>6, <2>1, <2>2 DEF Fresh
  <2> USE <1>1, <1>6
  <2>4. Books'
    BY <1>5, <2>3 DEF Books
  <2>5. Reported'
    BY DEF Reported, Fits
  <2>6. Withdrawn => Withdrawn'
    BY <1>3, <1>5, CurrentOnly DEF Withdrawn, RestoresEnd, Off
  <2>7. Settled'
    BY <1>3, <2>3, <2>6 DEF Settled, Off
  <2>8. Heard'
    BY <2>3 DEF Heard, Eyed
  <2> QED  BY <2>4, <2>5, <2>7, <2>8
<1>7. CASE /\ ack' = NoMsg /\ sweep' = Idle /\ op' = Idle /\ reader' = NotReading
           /\ ~Asking
  <2>1. ~Fresh
    <3>1. Answers = {} /\ ack.kind = "none"
      BY <1>7 DEF OrderInv, Clean, OneRequest
    <3> QED  BY <3>1 DEF Fresh, Answers
  <2>2. ack'.kind = "none" /\ sweep'.pc = "idle" /\ op'.pc = "idle" /\ reader'.kind = "none"
        /\ ~Fresh'
    BY <1>1, <1>7, MessageTypes DEF Idle, NotReading, Fresh
  <2> USE <1>1, <2>1, <2>2
  <2>4. Books'
    BY <1>5 DEF Books
  <2>5. Reported'
    BY DEF Reported
  <2>6. Withdrawn => Withdrawn'
    BY <1>3, <1>5, CurrentOnly DEF Withdrawn, RestoresEnd, Off
  <2>7. Settled'
    BY <1>3, <2>6 DEF Settled, Off
  <2>8. Heard'
    BY DEF Heard, Eyed
  <2> QED  BY <2>4, <2>5, <2>7, <2>8
<1> QED
  <2>1. raced' = {}
    BY DEF Clean
  <2> QED  BY <1>6, <1>7, <2>1 DEF LinkDown, Asking

\* It holds at the start.
LEMMA InitKnown == Init => Known
<1> SUFFICES ASSUME Init PROVE Known
  OBVIOUS
<1>1. /\ Len(toEA) = 0 /\ Len(toApp) = 0 /\ ~Fresh
      /\ ack.kind = "none" /\ sweep.pc = "idle" /\ op.pc = "idle" /\ reader.kind = "none"
      /\ placed = 0 /\ row = "none" /\ ticket = 0 /\ filledBy = NoTicket
      /\ \A t \in Tickets : tracked[t] = 0
  BY MessageTypes DEF Init, Idle, NotReading, Fresh
<1>2. Books
  BY <1>1, RestingAssumption DEF Books
<1>3. Reported /\ Settled /\ Heard
  BY <1>1 DEF Reported, Settled, Heard
<1> QED  BY <1>2, <1>3 DEF Known

\* Every step keeps it, unless it runs into a race or becomes bound to.
LEMMA StepKnown ==
    ASSUME OrderInv, OrderInv', Next, SetupInv PROVE SetupInv'
<1> SUFFICES ASSUME Clean' PROVE Known'
  BY DEF SetupInv, Known
<1>1. Clean
  BY CleanBack
<1>2. Setup
  BY <1>1 DEF Setup, SetupInv, Known
<1>3. CASE StoreSignal \/ WatcherExpires \/ WatcherOpens \/ ReleaseClaim \/ Lapse
  <2>1. called' = called /\ UNCHANGED <<row, ticket, filledBy, eaVars, sockVars, taskVars>>
    BY <1>3 DEF StoreSignal, WatcherExpires, WatcherOpens, ReleaseClaim, Lapse, rowVars
  <2> QED  BY <1>2, <2>1, FrameKnown
<1>4. CASE Place \/ SweepRearm \/ SweepRead \/ CancelSignal \/ PanelCancel
  BY <1>2, <1>4, PlaceKnown, SweepRearmKnown, SweepReadKnown, CancelSignalKnown,
     PanelCancelKnown
<1>5. CASE AppStep
  BY <1>2, <1>5, PlaceAckKnown, PlaceFailsKnown, SweepWithdrawKnown, SweepMarkKnown,
     SweepRearmedKnown, SweepRearmFailsKnown, OperatorSendKnown, OperatorMarkKnown DEF AppStep
<1>6. CASE ReaderStep
  BY <1>2, <1>6, ReadAnswerKnown, ReadReportKnown, ApplyCancelledKnown, ApplyFilledKnown
     DEF ReaderStep
<1>7. CASE EaStep \/ CheckStep
  BY <1>2, <1>7, EaPlacesKnown, EaCancelsKnown, EaRestoresKnown, EaChecksKnown
     DEF EaStep, CheckStep
<1>8. CASE LinkDown \/ LinkUp \/ RestoreRow
  BY <1>2, <1>8, LinkDownKnown, LinkUpKnown, RestoreRowKnown
<1>9. CASE \E t \in Tickets : Fill(t) \/ Remove(t)
  BY <1>2, <1>9, FillKnown, RemoveKnown
<1>10. CASE \E t \in Tickets : Blink(t)
  BY <1>10 DEF Blink, Clean
<1> QED  BY <1>3, <1>4, <1>5, <1>6, <1>7, <1>8, <1>9, <1>10 DEF Next

\* The setup's invariant: as long as nothing has raced and nothing is bound to.
LEMMA SetupInvHolds == Spec => []SetupInv
<1>1. Init => SetupInv
  BY InitKnown DEF SetupInv, Known
<1>2. OrderInv /\ OrderInv' /\ SetupInv /\ [Next]_vars => SetupInv'
  <2> SUFFICES ASSUME OrderInv, OrderInv', SetupInv, [Next]_vars PROVE SetupInv'
    OBVIOUS
  <2>1. CASE UNCHANGED vars
    <3> SUFFICES ASSUME Clean' PROVE Known'
      BY DEF SetupInv, Known
    <3>1. Clean
      BY <2>1 DEF vars, eaVars, sockVars, taskVars, Clean, Bound, CancelAt, Unanswered, Asking,
         Places, Answers
    <3>2. Setup
      BY <3>1 DEF Setup, SetupInv, Known
    <3>3. called' = called /\ UNCHANGED <<row, ticket, filledBy, eaVars, sockVars, taskVars>>
      BY <2>1 DEF vars, rowVars
    <3> QED  BY <3>2, <3>3, FrameKnown
  <2>2. CASE Next
    BY <2>2, StepKnown
  <2> QED  BY <2>1, <2>2
<1> QED  BY <1>1, <1>2, OrderInvHolds, PTL DEF Spec

\* When nothing is in flight and nothing has raced, the row tells what the
\* broker has: an order rests under the row's ticket exactly while the row is
\* "working", the EA watches it, and a fill has its trade row, for any number of
\* orders, commands and lost connections.
THEOREM RowIsTrue == Spec => []RowTellsBook
<1>1. OrderInv /\ SetupInv => RowTellsBook
  <2> SUFFICES ASSUME OrderInv, SetupInv, raced = {}, Quiet
               PROVE  /\ Resting = IF row = "working" THEN {ticket} ELSE {}
                      /\ \A t \in Resting : tracked[t] = 1
                      /\ \A t \in Tickets : book[t] = "position" <=> filledBy = t
    BY DEF RowTellsBook
  <2>1. /\ Len(toEA) = 0 /\ Len(toApp) = 0 /\ link /\ ~restore /\ reader.kind = "none"
        /\ sweep.pc = "idle" /\ op.pc = "idle" /\ opener \in {"idle", "done"} /\ ~Asking
    BY DEF Quiet, Overlap, NotReading, OrderInv, TypeOK, Asking
  <2>2. Clean
    BY <2>1 DEF Clean, Bound, Unanswered
  <2>3. Setup
    BY <2>2 DEF Setup, SetupInv, Known
  <2>4. /\ \A t \in Tickets : tracked[t] > 0 \/ book[t] = "resting" => t = placed
        /\ \A t \in Tickets : tracked[t] \in {0, 1}
        /\ placed \in 0..MaxTickets /\ (placed > 0 => placed \in Tickets)
    BY <2>3, CurrentOnly
  <2>5. ~Fresh
    <3>1. ack.kind = "none"
      BY <2>1 DEF OrderInv, OneRequest
    <3> QED  BY <2>1, <3>1 DEF Fresh
  <2>6. \A t \in Tickets : book[t] = "position" => t = placed
    <3> SUFFICES ASSUME NEW t \in Tickets, book[t] = "position" PROVE t = placed
      OBVIOUS
    <3>1. ~(t < placed) /\ ~(t > placed)
      BY <2>3 DEF Setup, Known, Books, OrderInv, Stage
    <3> QED  BY <2>4, <3>1, RestingAssumption
  <2>7. CASE row = "working"
    <3>1. ticket = placed /\ placed \in Tickets /\ filledBy = NoTicket
      BY <2>3, <2>4, <2>7 DEF Setup, Known, Books, Settled
    <3>2. book[placed] = "resting"
      <4>1. Eyed => tracked[placed] > 0
        BY <2>1 DEF Eyed
      <4>2. ~Told
        BY <2>1 DEF Told
      <4> QED  BY <2>1, <2>3, <2>7, <3>1, <4>1, <4>2 DEF Setup, Known, Heard, Quiet
    <3>3. tracked[placed] = 1
      <4>1. Eyed
        BY <2>3, <2>7, <3>2 DEF Setup, Known, Heard
      <4> QED  BY <2>1, <2>4, <3>1, <4>1 DEF Eyed
    <3>4. Resting = {placed}
      BY <2>4, <3>1, <3>2 DEF Resting
    <3>5. \A t \in Tickets : book[t] # "position" /\ filledBy # t
      BY <2>6, <3>1, <3>2
    <3> QED  BY <2>7, <3>1, <3>3, <3>4, <3>5
  <2>8. CASE row = "filled"
    <3>1. filledBy = placed /\ placed \in Tickets /\ book[placed] = "position"
      BY <2>3, <2>4, <2>8 DEF Setup, Known, Settled
    <3>2. Resting = {}
      BY <2>4, <3>1 DEF Resting
    <3> QED  BY <2>6, <2>8, <3>1, <3>2
  <2>9. CASE row \in {"none", "withdrawn", "cancelled", "expired"}
    <3>1. filledBy = NoTicket
      BY <2>3, <2>9 DEF Setup, Known, Settled
    <3>2. placed > 0 => book[placed] = "gone"
      <4>1. CASE row = "none"
        BY <2>3, <2>5, <2>4, <4>1 DEF Setup, Known, Books
      <4>2. CASE row # "none"
        <5>1. Off
          BY <2>3, <2>5, <2>9, <4>2 DEF Setup, Known, Settled, Withdrawn
        <5>2. \A t : ~CancelQueued(t)
          BY <2>1 DEF CancelQueued
        <5> QED  BY <5>1, <5>2 DEF Off
      <4> QED  BY <4>1, <4>2
    <3>3. \A t \in Tickets : book[t] \notin {"resting", "position"}
      <4> SUFFICES ASSUME NEW t \in Tickets, book[t] \in {"resting", "position"} PROVE FALSE
        OBVIOUS
      <4>1. t = placed /\ placed > 0
        BY <2>4, <2>6, RestingAssumption
      <4> QED  BY <3>2, <4>1
    <3>4. Resting = {}
      BY <3>3 DEF Resting
    <3> QED  BY <2>9, <3>1, <3>3, <3>4
  <2> QED  BY <2>7, <2>8, <2>9 DEF OrderInv, TypeOK, Rows
<1> QED  BY <1>1, OrderInvHolds, SetupInvHolds, PTL
=============================================================================
