---------------------------- MODULE ControlProofs ----------------------------
(***************************************************************************)
(* Proofs about who may open trades.  ControlHandover, for any number of   *)
(* dashboards, engines and requests: the types, that both nodes open       *)
(* trades only while a hand-back awaits its answer, and that none does     *)
(* only while a takeover awaits its.  RiskHalts, for any trades, callers   *)
(* and limits: that a breach stops the day.                                *)
(***************************************************************************)
EXTENDS ControlHandover, RiskHalts, TLAPS

\* The newest unread answer tells what the VPS's record is.
NewestTells ==
    acks # <<>> => (vps = "local" <=> acks[Len(acks)] = "stand_down")

\* A Mac that trades and hands nothing back has the VPS's word for it, and no
\* hand-back is on its way.
Agreed ==
    mac = "local" /\ Waiting("resume") = {} /\ raced = {}
        => vps = "local" /\ ~Outstanding("resume")

IInv == TypeOK /\ NewestTells /\ Agreed

-----------------------------------------------------------------------------
(* Queues                                                                   *)

\* What the head and the tail of a queue are made of.
LEMMA QueueTail ==
    ASSUME NEW S, NEW q \in Seq(S), q # <<>>
    PROVE  /\ Head(q) \in S /\ Head(q) = q[1] /\ Len(q) \in Nat \ {0}
           /\ Tail(q) \in Seq(S) /\ Len(Tail(q)) = Len(q) - 1
           /\ \A i \in 1..Len(Tail(q)) : Tail(q)[i] = q[i + 1]
           /\ Tail(q) # <<>> => Len(q) > 1 /\ Tail(q)[Len(Tail(q))] = q[Len(q)]
  OBVIOUS

\* What Append adds.
LEMMA QueueAppend ==
    ASSUME NEW S, NEW q \in Seq(S), NEW x \in S
    PROVE  /\ Append(q, x) \in Seq(S) /\ Len(Append(q, x)) = Len(q) + 1
           /\ Append(q, x) # <<>>
           /\ Append(q, x)[Len(q) + 1] = x
           /\ \A i \in 1..Len(q) : Append(q, x)[i] = q[i]
  OBVIOUS

-----------------------------------------------------------------------------
(* Types                                                                    *)

\* TypeOK holds in the initial states.
LEMMA InitTypes == Init => TypeOK
<1> SUFFICES ASSUME Init PROVE TypeOK
    OBVIOUS
<1>1. link \in BOOLEAN /\ failed \in BOOLEAN /\ ~link /\ wire = <<>> /\ acks = <<>>
  BY Zenon DEF Init
<1>2. wire \in Seq(Requests) /\ acks \in Seq(Requests)
  BY <1>1
<1>3. sent \in 0..MaxSends /\ tab \in [Tabs -> Requests \cup {"idle"}]
  BY HandoverAssumption DEF Init
<1> QED BY <1>1, <1>2, <1>3 DEF Init, TypeOK, Traders

\* Every step keeps the types.
LEMMA StepTypes == TypeOK /\ [Next]_vars => TypeOK'
<1> SUFFICES ASSUME TypeOK, [Next]_vars PROVE TypeOK'
    OBVIOUS
<1> USE HandoverAssumption DEF TypeOK, Traders, Requests, Races, linkVars
<1>1. ASSUME NEW t \in Tabs, Press(t) PROVE TypeOK'
  <2>1. Wanted \in Requests
    BY DEF Wanted
  <2>2. wire' \in Seq(Requests)
    BY <1>1, <2>1, QueueAppend DEF Press
  <2>3. sent' \in 0..MaxSends
    BY <1>1 DEF Press
  <2> QED BY <1>1, <2>1, <2>2, <2>3 DEF Press, StopDesk
<1>2. ASSUME NEW t \in Tabs, PressTorn(t) PROVE TypeOK'
  <2>1. failed' \in BOOLEAN /\ link' \in BOOLEAN
    BY <1>2, Zenon DEF PressTorn
  <2>2. wire' \in Seq(Requests) /\ acks' \in Seq(Requests)
    BY <1>2 DEF PressTorn
  <2>3. desk' \subseteq Engines
    BY <1>2 DEF PressTorn, StopDesk
  <2> QED BY <1>2, <2>1, <2>2, <2>3 DEF PressTorn
<1>3. ASSUME NEW t \in Tabs, Timeout(t) PROVE TypeOK'
  BY <1>3 DEF Timeout, GiveUp
<1>4. CASE ReadAck
  <2>1. Head(acks) \in Requests /\ acks' \in Seq(Requests)
    BY <1>4, QueueTail DEF ReadAck
  <2>2. link
    BY <1>4 DEF ReadAck
  <2>3. mac' \in Traders /\ desk' \subseteq Engines /\ raced' \subseteq Races
    BY <1>4 DEF ReadAck
  <2> QED BY <1>4, <2>1, <2>2, <2>3 DEF ReadAck
<1>5. ASSUME NEW k \in Requests, Serve(k)
      PROVE  wire' \in Seq(Requests) /\ acks' \in Seq(Requests) /\ link
  BY <1>5, QueueTail, QueueAppend DEF Serve
<1>6. CASE StandDown
  BY <1>6, <1>5 DEF StandDown, Serve
<1>7. CASE Resume
  BY <1>7, <1>5 DEF Resume, Serve
<1>8. ASSUME NEW e \in Engines, EngineControl(e) PROVE TypeOK'
  BY <1>8 DEF EngineControl
<1>9. CASE Connect
  BY <1>9 DEF Connect
<1>10. CASE Disconnect
  <2>1. failed' \in BOOLEAN /\ link' \in BOOLEAN
    BY <1>10, Zenon DEF Disconnect
  <2>2. wire' \in Seq(Requests) /\ acks' \in Seq(Requests)
    BY <1>10 DEF Disconnect
  <2> QED BY <1>10, <2>1, <2>2 DEF Disconnect
<1>11. CASE MacRestart
  <2>1. failed' \in BOOLEAN /\ link' \in BOOLEAN
    BY <1>11, Zenon DEF MacRestart
  <2>2. wire' \in Seq(Requests) /\ acks' \in Seq(Requests)
    BY <1>11 DEF MacRestart
  <2> QED BY <1>11, <2>1, <2>2 DEF MacRestart
<1>12. CASE VpsRestart
  <2>1. failed' \in BOOLEAN /\ link' \in BOOLEAN
    BY <1>12, Zenon DEF VpsRestart
  <2>2. wire' \in Seq(Requests) /\ acks' \in Seq(Requests)
    BY <1>12 DEF VpsRestart
  <2> QED BY <1>12, <2>1, <2>2 DEF VpsRestart
<1>13. CASE UNCHANGED vars
  BY <1>13 DEF vars
<1> QED BY <1>1, <1>2, <1>3, <1>4, <1>6, <1>7, <1>8, <1>9, <1>10, <1>11, <1>12, <1>13 DEF Next

\* The state of the two nodes, the tabs and the link keeps its types through
\* every press, answer, loss and restart.
THEOREM HandoverTypes == Spec => []TypeOK
  BY InitTypes, StepTypes, PTL DEF Spec

-----------------------------------------------------------------------------
(* Mutual exclusion                                                         *)

\* A queue that is emptied holds nothing outstanding.
LEMMA NothingOutstanding ==
    ASSUME wire' = <<>>, acks' = <<>>, NEW k PROVE ~Outstanding(k)'
  BY DEF Outstanding

\* Every step keeps NewestTells.
LEMMA StepNewest == TypeOK /\ NewestTells /\ [Next]_vars => NewestTells'
<1> SUFFICES ASSUME TypeOK, NewestTells, [Next]_vars PROVE NewestTells'
    OBVIOUS
<1> USE DEF NewestTells, linkVars
<1>1. ASSUME NEW t \in Tabs, Press(t) \/ PressTorn(t) \/ Timeout(t) PROVE NewestTells'
  BY <1>1 DEF Press, PressTorn, Timeout, GiveUp
<1>2. CASE ReadAck
  BY <1>2, QueueTail DEF ReadAck, TypeOK
<1>3. ASSUME NEW k \in Requests, Serve(k)
      PROVE  acks' # <<>> /\ acks'[Len(acks')] = k
  <2>1. Head(wire) = k /\ acks' = Append(acks, k)
    BY <1>3 DEF Serve
  <2> QED BY <2>1, QueueAppend DEF TypeOK
<1>4. CASE StandDown
  BY <1>4, <1>3 DEF StandDown, Requests
<1>5. CASE Resume
  BY <1>5, <1>3 DEF Resume, Requests
<1>6. ASSUME NEW e \in Engines, EngineControl(e) PROVE NewestTells'
  BY <1>6 DEF EngineControl
<1>7. CASE Connect \/ Disconnect \/ MacRestart \/ VpsRestart
  BY <1>7 DEF Connect, Disconnect, MacRestart, VpsRestart
<1>8. CASE UNCHANGED vars
  BY <1>8 DEF vars
<1> QED BY <1>1, <1>2, <1>4, <1>5, <1>6, <1>7, <1>8 DEF Next

\* Reading an answer keeps Agreed: a takeover on an answer no hand-back has
\* followed finds the VPS stood down, because that answer is the newest kind.
LEMMA ReadKeepsAgreed == IInv /\ ReadAck => Agreed'
<1> SUFFICES ASSUME IInv, ReadAck,
                    mac' = "local", Waiting("resume")' = {}, raced' = {}
             PROVE  vps' = "local" /\ ~Outstanding("resume")'
    BY DEF Agreed
<1> DEFINE kind == Head(acks)
<1>1. /\ acks # <<>> /\ acks \in Seq(Requests) /\ kind \in Requests /\ kind = acks[1]
      /\ acks' = Tail(acks) /\ wire' = wire /\ vps' = vps
      /\ Len(acks) \in Nat \ {0}
  BY QueueTail DEF IInv, TypeOK, ReadAck
<1>2. Outstanding("resume")' => Outstanding("resume")
  BY <1>1, QueueTail DEF Outstanding
<1>3. raced = {}
  BY DEF ReadAck
<1>4. CASE Waiting(kind) = {}
  <2>1. mac = "local" /\ tab' = tab
    BY <1>4 DEF ReadAck, IInv, TypeOK, Waiting
  <2>2. Waiting("resume") = {}
    BY <2>1 DEF Waiting
  <2> QED BY <1>1, <1>2, <1>3, <2>1, <2>2 DEF IInv, Agreed
<1>5. CASE Waiting(kind) # {}
  <2>1. kind = "stand_down" /\ ~Outstanding("resume")
    BY <1>1, <1>5 DEF ReadAck, Requests
  <2>2. acks[Len(acks)] = "stand_down"
    BY <1>1, <2>1 DEF Outstanding, Requests
  <2> QED BY <1>1, <1>2, <2>1, <2>2 DEF IInv, NewestTells
<1> QED BY <1>4, <1>5

\* Every step keeps Agreed.
LEMMA StepAgreed == IInv /\ [Next]_vars => Agreed'
<1> SUFFICES ASSUME IInv, [Next]_vars,
                    mac' = "local", Waiting("resume")' = {}, raced' = {}
             PROVE  vps' = "local" /\ ~Outstanding("resume")'
    BY DEF Agreed
<1> USE DEF linkVars
<1>1. ASSUME NEW t \in Tabs, Press(t) PROVE vps' = "local" /\ ~Outstanding("resume")'
  <2>1. CASE mac = "local"
    <3>1. tab'[t] = "resume"
      BY <1>1, <2>1 DEF Press, Wanted, IInv, TypeOK
    <3> QED BY <3>1 DEF Waiting
  <2>2. CASE mac # "local"
    BY <1>1, <2>2 DEF Press
  <2> QED BY <2>1, <2>2
<1>2. ASSUME NEW t \in Tabs, PressTorn(t) PROVE vps' = "local" /\ ~Outstanding("resume")'
  BY <1>2 DEF PressTorn
<1>3. ASSUME NEW t \in Tabs, Timeout(t) PROVE vps' = "local" /\ ~Outstanding("resume")'
  <2>1. tab[t] # "resume" /\ mac = "local" /\ raced = {}
    BY <1>3 DEF Timeout, GiveUp
  <2>2. Waiting("resume") = {}
    BY <1>3, <2>1 DEF Timeout, GiveUp, Waiting, IInv, TypeOK
  <2>3. vps = "local" /\ ~Outstanding("resume")
    BY <2>1, <2>2 DEF IInv, Agreed
  <2> QED BY <1>3, <2>3 DEF Timeout, Outstanding
<1>4. CASE ReadAck
  BY <1>4, ReadKeepsAgreed DEF Agreed
<1>5. ASSUME NEW k \in Requests, Serve(k)
      PROVE  /\ vps = "local" /\ ~Outstanding("resume")
             /\ k = "stand_down" /\ ~Outstanding("resume")'
  <2>1. mac = "local" /\ Waiting("resume") = {} /\ raced = {}
    BY <1>5 DEF Serve, Waiting
  <2>2. vps = "local" /\ ~Outstanding("resume")
    BY <2>1 DEF IInv, Agreed
  <2>3. /\ wire # <<>> /\ wire \in Seq(Requests) /\ acks \in Seq(Requests)
        /\ k = Head(wire) /\ wire' = Tail(wire) /\ acks' = Append(acks, k)
    BY <1>5 DEF Serve, IInv, TypeOK
  <2>4. k = "stand_down"
    BY <2>2, <2>3, QueueTail DEF Outstanding, Requests
  <2>5. \A i \in 1..Len(wire') : wire'[i] # "resume"
    BY <2>2, <2>3, QueueTail DEF Outstanding
  <2>6. \A i \in 1..Len(acks') : acks'[i] # "resume"
    BY <2>2, <2>3, <2>4, QueueAppend DEF Outstanding
  <2> QED BY <2>2, <2>4, <2>5, <2>6 DEF Outstanding
<1>6. CASE StandDown
  BY <1>6, <1>5 DEF StandDown, Requests
<1>7. CASE Resume
  BY <1>7, <1>5 DEF Resume, Requests
<1>8. ASSUME mac' = mac, vps' = vps, tab' = tab, raced' = raced,
             UNCHANGED <<wire, acks>> \/ (wire' = <<>> /\ acks' = <<>>)
      PROVE  vps' = "local" /\ ~Outstanding("resume")'
  <2>1. mac = "local" /\ Waiting("resume") = {} /\ raced = {}
    BY <1>8 DEF Waiting
  <2>2. vps = "local" /\ ~Outstanding("resume")
    BY <2>1 DEF IInv, Agreed
  <2>3. CASE UNCHANGED <<wire, acks>>
    BY <1>8, <2>2, <2>3 DEF Outstanding
  <2>4. CASE wire' = <<>> /\ acks' = <<>>
    BY <1>8, <2>2, <2>4, NothingOutstanding
  <2> QED BY <1>8, <2>3, <2>4
<1>9. ASSUME NEW e \in Engines, EngineControl(e) PROVE vps' = "local" /\ ~Outstanding("resume")'
  BY <1>8, <1>9 DEF EngineControl
<1>10. CASE Connect
  BY <1>8, <1>10 DEF Connect
<1>11. CASE Disconnect
  BY <1>8, <1>11 DEF Disconnect
<1>12. CASE VpsRestart
  BY <1>8, <1>12 DEF VpsRestart
<1>13. CASE MacRestart
  <2>1. mac = "local" /\ Waiting("resume") = {} /\ raced = {}
    BY <1>13 DEF MacRestart
  <2>2. vps = "local"
    BY <2>1 DEF IInv, Agreed
  <2> QED BY <1>13, <2>2, NothingOutstanding DEF MacRestart
<1>14. CASE UNCHANGED vars
  BY <1>8, <1>14 DEF vars
<1> QED BY <1>1, <1>2, <1>3, <1>4, <1>6, <1>7, <1>9, <1>10, <1>11, <1>12, <1>13, <1>14 DEF Next

\* The three parts together are inductive.
LEMMA IInvInvariant == Spec => []IInv
<1>1. Init => IInv
  BY InitTypes DEF Init, IInv, NewestTells, Agreed
<1>2. IInv /\ [Next]_vars => IInv'
  BY StepTypes, StepNewest, StepAgreed DEF IInv
<1> QED BY <1>1, <1>2, PTL DEF Spec

\* Whatever is lost, given up, pressed twice or restarted, both nodes' gates let
\* a trade through only while a hand-back awaits its answer, or after one of
\* the two named races.
THEOREM HandoverExclusion == Spec => []TwoTradersOnlyHandingBack
<1>1. IInv => TwoTradersOnlyHandingBack
  BY DEF IInv, Agreed, TwoTradersOnlyHandingBack, MacOpens, VpsOpens, HandingBack
<1> QED BY <1>1, IInvInvariant, PTL

-----------------------------------------------------------------------------
(* No moment without a trader, as long as nothing is lost or given up       *)

\* A tab waits only for the change the Mac's record does not show yet, and a
\* request under way that would bring it has a tab waiting for it.
Awaited ==
    /\ mac # "local" => Waiting("resume") = {}
    /\ mac = "local" => Waiting("stand_down") = {}
    /\ mac # "local" /\ Outstanding("stand_down") => Waiting("stand_down") # {}
    /\ mac = "local" /\ Outstanding("resume") => Waiting("resume") # {}

\* Neither queue, nor the two in line, has a request of one kind ahead of one
\* of the other.
NoneAhead(one, other) ==
    /\ \A i, j \in 1..Len(acks) : acks[i] = one /\ acks[j] = other => j < i
    /\ \A i, j \in 1..Len(wire) : wire[i] = one /\ wire[j] = other => j < i
    /\ \A i \in 1..Len(acks), j \in 1..Len(wire) : ~(acks[i] = one /\ wire[j] = other)

\* What the Mac has sent since its record last changed is behind everything it
\* sent before.
InLine ==
    /\ mac # "local" => NoneAhead("stand_down", "resume")
    /\ mac = "local" => NoneAhead("resume", "stand_down")

Answered(kind) == \E i \in 1..Len(acks) : acks[i] = kind

\* A VPS that stands down without the Mac's trading has its answer under way.
WordIsSent == mac # "local" /\ vps = "local" => Answered("stand_down")

TakeoverInv == ~failed => Awaited /\ InLine /\ WordIsSent
NInv == TypeOK /\ NewestTells /\ TakeoverInv

\* A press asks for what the record does not show, and its request is the last
\* in line.
LEMMA PressKeepsTakeover ==
    ASSUME NInv, NEW t \in Tabs, Press(t), ~failed
    PROVE  Awaited' /\ InLine' /\ WordIsSent'
<1> USE DEF NInv, TakeoverInv
<1>1. /\ mac' = mac /\ vps' = vps /\ acks' = acks /\ wire' = Append(wire, Wanted)
      /\ tab' = [tab EXCEPT ![t] = Wanted] /\ tab[t] = "idle"
  BY DEF Press
<1>2. Wanted \in Requests /\ (mac = "local" <=> Wanted = "resume")
  BY DEF Wanted, Requests
<1>3. /\ Len(wire') = Len(wire) + 1 /\ wire'[Len(wire) + 1] = Wanted
      /\ \A i \in 1..Len(wire) : wire'[i] = wire[i]
      /\ Len(wire) \in Nat /\ Len(acks) \in Nat
  BY <1>1, <1>2, QueueAppend DEF TypeOK
<1>4. \A k \in Requests : Waiting(k)' = IF k = Wanted THEN Waiting(k) \cup {t} ELSE Waiting(k)
  BY <1>1, <1>2 DEF Waiting, Requests, TypeOK
<1>5. \A k \in Requests : Outstanding(k)' => Outstanding(k) \/ k = Wanted
  BY <1>1, <1>3 DEF Outstanding
<1>6. Awaited'
  BY <1>1, <1>2, <1>4, <1>5 DEF Awaited, Requests
<1>7. ASSUME NEW k \in Requests, NEW one, k = Wanted, one # k, NoneAhead(k, one)
      PROVE  NoneAhead(k, one)'
  BY <1>1, <1>3, <1>7 DEF NoneAhead
<1>8. InLine'
  BY <1>1, <1>2, <1>7 DEF InLine, Requests
<1> QED BY <1>1, <1>6, <1>8 DEF WordIsSent, Answered

\* An answer changes the record when it is the first in line of its kind; then
\* nothing of the other kind is behind it.
LEMMA ReadKeepsTakeover ==
    ASSUME NInv, ReadAck, ~failed
    PROVE  Awaited' /\ InLine' /\ WordIsSent'
<1> USE DEF NInv, TakeoverInv
<1>0. PICK kind \in Requests : kind = Head(acks)
  BY QueueTail DEF TypeOK, ReadAck
<1>1. /\ acks # <<>> /\ acks \in Seq(Requests) /\ wire \in Seq(Requests)
      /\ kind \in Requests /\ kind = acks[1]
      /\ acks' = Tail(acks) /\ wire' = wire /\ vps' = vps
      /\ Len(acks) \in Nat \ {0} /\ Len(wire) \in Nat
  BY <1>0, QueueTail DEF TypeOK, ReadAck
<1>2. /\ Len(acks') = Len(acks) - 1
      /\ \A i \in 1..Len(acks') : i + 1 \in 1..Len(acks) /\ acks'[i] = acks[i + 1]
  BY <1>1, QueueTail
<1>3. \A k \in Requests : Outstanding(k)' => Outstanding(k)
  BY <1>1, <1>2 DEF Outstanding
<1>4. Outstanding(kind) /\ Answered(kind)
  BY <1>1 DEF Outstanding, Answered
<1>5. /\ Waiting(kind)' = {}
      /\ \A k \in Requests : k # kind => Waiting(k)' = Waiting(k)
  BY <1>0 DEF ReadAck, Waiting, Requests, TypeOK
<1>6. ASSUME NEW one, NEW other, NoneAhead(one, other) PROVE NoneAhead(one, other)'
  BY <1>1, <1>2, <1>6 DEF NoneAhead
<1>7. ASSUME NEW other, other # kind, NoneAhead(kind, other)
      PROVE  /\ ~Outstanding(other)' /\ acks[Len(acks)] # other
             /\ NoneAhead(other, kind)'
  <2>1. /\ \A i \in 1..Len(acks) : acks[i] # other
        /\ \A i \in 1..Len(wire) : wire[i] # other
    BY <1>1, <1>7 DEF NoneAhead
  <2> QED BY <1>1, <1>2, <2>1 DEF Outstanding, NoneAhead
<1>8. CASE mac # "local" /\ kind = "stand_down"
  <2>1. Waiting(kind) # {}
    BY <1>4, <1>8 DEF Awaited
  <2>2. mac' = "local"
    BY <1>0, <1>8, <2>1 DEF ReadAck
  <2>3. NoneAhead("resume", "stand_down")' /\ ~Outstanding("resume")'
    BY <1>7, <1>8 DEF InLine
  <2> QED BY <1>5, <1>8, <2>2, <2>3 DEF Awaited, InLine, WordIsSent
<1>9. CASE mac # "local" /\ kind = "resume"
  <2>1. mac' = mac
    BY <1>0, <1>9 DEF ReadAck, Awaited
  <2>2. Waiting("stand_down")' = Waiting("stand_down") /\ Waiting("resume")' = {}
    BY <1>5, <1>9 DEF Requests
  <2>3. Awaited'
    BY <1>3, <1>9, <2>1, <2>2 DEF Awaited, Requests
  <2>4. Answered("stand_down") => Answered("stand_down")'
    <3> SUFFICES ASSUME NEW i \in 1..Len(acks), acks[i] = "stand_down"
                 PROVE  Answered("stand_down")'
        BY DEF Answered
    <3>0. i # 1
      BY <1>1, <1>9
    <3>1. i - 1 \in 1..Len(acks')
      BY <1>1, <1>2, <3>0
    <3>2. acks'[i - 1] = acks[i]
      BY <1>2, <3>1
    <3> QED BY <3>1, <3>2 DEF Answered
  <2> QED BY <1>1, <1>6, <1>9, <2>1, <2>3, <2>4 DEF InLine, WordIsSent
<1>10. CASE mac = "local" /\ kind = "resume"
  <2>1. Waiting(kind) # {}
    BY <1>4, <1>10 DEF Awaited
  <2>2. mac' = "remote_vps"
    BY <1>0, <1>10, <2>1 DEF ReadAck
  <2>3. /\ NoneAhead("stand_down", "resume")' /\ ~Outstanding("stand_down")'
        /\ acks[Len(acks)] # "stand_down"
    BY <1>7, <1>10 DEF InLine
  <2>4. vps # "local"
    BY <1>1, <2>3 DEF NewestTells
  <2> QED BY <1>1, <1>5, <1>10, <2>2, <2>3, <2>4 DEF Awaited, InLine, WordIsSent
<1>11. CASE mac = "local" /\ kind = "stand_down"
  <2>1. mac' = mac
    BY <1>0, <1>11 DEF ReadAck, Awaited
  <2>2. Waiting("resume")' = Waiting("resume") /\ Waiting("stand_down")' = {}
    BY <1>5, <1>11 DEF Requests
  <2>3. Awaited'
    BY <1>3, <1>11, <2>1, <2>2 DEF Awaited, Requests
  <2> QED BY <1>6, <1>11, <2>1, <2>3 DEF InLine, WordIsSent
<1> QED BY <1>1, <1>8, <1>9, <1>10, <1>11 DEF Requests

\* A request moves from one queue to the other and keeps its place in line.
LEMMA ServeKeepsTakeover ==
    ASSUME NInv, NEW k \in Requests, Serve(k), ~failed,
           vps' = "local" => k = "stand_down"
    PROVE  Awaited' /\ InLine' /\ WordIsSent'
<1> USE DEF NInv, TakeoverInv
<1>1. /\ wire # <<>> /\ wire \in Seq(Requests) /\ acks \in Seq(Requests)
      /\ k = Head(wire) /\ k = wire[1] /\ wire' = Tail(wire) /\ acks' = Append(acks, k)
      /\ mac' = mac /\ tab' = tab
      /\ Len(acks) \in Nat /\ Len(wire) \in Nat \ {0}
  BY QueueTail DEF Serve, TypeOK
<1>2. /\ Len(wire') = Len(wire) - 1
      /\ \A i \in 1..Len(wire') : i + 1 \in 1..Len(wire) /\ wire'[i] = wire[i + 1]
  BY <1>1, QueueTail
<1>3. /\ Len(acks') = Len(acks) + 1 /\ acks'[Len(acks) + 1] = k
      /\ \A i \in 1..Len(acks) : acks'[i] = acks[i]
  BY <1>1, QueueAppend
<1>4. \A q : Outstanding(q)' => Outstanding(q)
  BY <1>1, <1>2, <1>3 DEF Outstanding
<1>5. Awaited'
  BY <1>1, <1>4 DEF Awaited, Waiting
<1>6. ASSUME NEW one, NEW other, one # other, NoneAhead(one, other) PROVE NoneAhead(one, other)'
  <2>1. \A i, j \in 1..Len(wire') : wire'[i] = one /\ wire'[j] = other => j < i
    <3> SUFFICES ASSUME NEW i \in 1..Len(wire'), NEW j \in 1..Len(wire'),
                        wire'[i] = one, wire'[j] = other
                 PROVE  j < i
      OBVIOUS
    <3>1. /\ i + 1 \in 1..Len(wire) /\ wire[i + 1] = one
          /\ j + 1 \in 1..Len(wire) /\ wire[j + 1] = other
      BY <1>2
    <3>2. j + 1 < i + 1
      BY <1>6, <3>1 DEF NoneAhead
    <3> QED  BY <3>2
  <2>2. \A i \in 1..Len(acks'), j \in 1..Len(wire') : ~(acks'[i] = one /\ wire'[j] = other)
    <3> SUFFICES ASSUME NEW i \in 1..Len(acks'), NEW j \in 1..Len(wire'),
                        acks'[i] = one, wire'[j] = other
                 PROVE  FALSE
        OBVIOUS
    <3>1. j + 1 \in 1..Len(wire) /\ wire[j + 1] = other /\ 1 \in 1..Len(wire)
      BY <1>1, <1>2
    <3>2. CASE i = Len(acks) + 1
      BY <1>1, <1>3, <1>6, <3>1, <3>2 DEF NoneAhead
    <3>3. CASE i # Len(acks) + 1
      BY <1>1, <1>3, <1>6, <3>1, <3>3 DEF NoneAhead
    <3> QED BY <3>2, <3>3
  <2>3. \A i, j \in 1..Len(acks') : acks'[i] = one /\ acks'[j] = other => j < i
    <3> SUFFICES ASSUME NEW i \in 1..Len(acks'), NEW j \in 1..Len(acks'),
                        acks'[i] = one, acks'[j] = other
                 PROVE  j < i
        OBVIOUS
    <3>1. CASE j = Len(acks) + 1
      <4>1. i \in 1..Len(acks) /\ acks[i] = one
        BY <1>1, <1>3, <1>6, <3>1
      <4>2. 1 \in 1..Len(wire) /\ wire[1] = other
        BY <1>1, <1>3, <3>1
      <4> QED BY <1>6, <4>1, <4>2 DEF NoneAhead
    <3>2. CASE j # Len(acks) + 1 /\ i = Len(acks) + 1
      BY <1>1, <1>3, <3>2
    <3>3. CASE j # Len(acks) + 1 /\ i # Len(acks) + 1
      BY <1>1, <1>3, <1>6, <3>3 DEF NoneAhead
    <3> QED BY <3>1, <3>2, <3>3
  <2> QED BY <2>1, <2>2, <2>3 DEF NoneAhead
<1>7. InLine'
  BY <1>1, <1>6 DEF InLine
<1>8. WordIsSent'
  <2>1. acks'[Len(acks')] = k /\ Len(acks') \in 1..Len(acks')
    BY <1>1, <1>3
  <2> QED BY <2>1 DEF WordIsSent, Answered
<1> QED BY <1>5, <1>7, <1>8

\* A link that drops with nothing under way loses nothing.
LEMMA DropKeepsTakeover ==
    ASSUME NInv, ~failed, mac' = mac, vps' = vps, wire' = <<>>, acks' = <<>>,
           \/ tab' = tab /\ ~Unanswered
           \/ tab' = [t \in Tabs |-> "idle"] /\ \A t \in Tabs : tab[t] = "idle"
    PROVE  Awaited' /\ InLine' /\ WordIsSent'
<1> USE DEF NInv, TakeoverInv
<1>1. \A k \in Requests : Waiting(k)' = {} \/ Waiting(k)' = Waiting(k)
  BY DEF Waiting, Requests
<1>2. \A k : ~Outstanding(k)'
  BY NothingOutstanding
<1>3. Awaited'
  BY <1>1, <1>2 DEF Awaited, Requests
<1>4. InLine'
  BY DEF InLine, NoneAhead
<1>5. mac # "local" => vps # "local"
  <2> SUFFICES ASSUME mac # "local", vps = "local" PROVE FALSE
      OBVIOUS
  <2>1. Answered("stand_down")
    BY DEF WordIsSent
  <2>2. Outstanding("stand_down") /\ acks # <<>>
    BY <2>1 DEF Answered, Outstanding
  <2>3. Waiting("stand_down") # {}
    BY <2>2 DEF Awaited
  <2> QED BY <2>2, <2>3 DEF Waiting, Unanswered
<1> QED BY <1>3, <1>4, <1>5 DEF WordIsSent

\* Every step keeps what holds of a takeover while nothing has failed.
LEMMA StepTakeover == NInv /\ [Next]_vars => TakeoverInv'
<1> SUFFICES ASSUME NInv, [Next]_vars, ~failed' PROVE Awaited' /\ InLine' /\ WordIsSent'
    BY DEF TakeoverInv
<1> USE DEF linkVars
<1>1. ASSUME NEW t \in Tabs, Press(t) PROVE Awaited' /\ InLine' /\ WordIsSent'
  BY <1>1, PressKeepsTakeover DEF Press
<1>2. ASSUME NEW t \in Tabs, PressTorn(t) \/ Timeout(t) PROVE FALSE
  BY <1>2 DEF PressTorn, Timeout, GiveUp
<1>3. CASE ReadAck
  BY <1>3, ReadKeepsTakeover DEF ReadAck
<1>4. CASE StandDown
  BY <1>4, ServeKeepsTakeover DEF StandDown, Serve, Requests
<1>5. CASE Resume
  BY <1>5, ServeKeepsTakeover DEF Resume, Serve, Requests
<1>6. ASSUME UNCHANGED <<mac, vps, tab, wire, acks, failed>>
      PROVE  Awaited' /\ InLine' /\ WordIsSent'
  BY <1>6 DEF NInv, TakeoverInv, Awaited, InLine, NoneAhead, WordIsSent, Answered, Waiting,
              Outstanding
<1>7. ASSUME NEW e \in Engines, EngineControl(e) PROVE Awaited' /\ InLine' /\ WordIsSent'
  BY <1>6, <1>7 DEF EngineControl
<1>8. CASE Connect
  BY <1>6, <1>8 DEF Connect
<1>9. CASE Disconnect
  BY <1>9, DropKeepsTakeover DEF Disconnect
<1>10. CASE VpsRestart
  BY <1>10, DropKeepsTakeover DEF VpsRestart
<1>11. CASE MacRestart
  BY <1>11, DropKeepsTakeover DEF MacRestart
<1>12. CASE UNCHANGED vars
  BY <1>6, <1>12 DEF vars
<1> QED BY <1>1, <1>2, <1>3, <1>4, <1>5, <1>7, <1>8, <1>9, <1>10, <1>11, <1>12 DEF Next

\* If no request is lost or given up, both nodes' gates refuse only while some
\* tab awaits the VPS's word for a takeover: _toggle_mode writes the Mac's record
\* last, and the answers come in the order of the requests.
THEOREM HandoverLeavesATrader == Spec => []NoTraderOnlyInTakeover
<1>1. Init => NInv
  BY InitTypes DEF Init, NInv, NewestTells, TakeoverInv, Awaited, InLine, NoneAhead, WordIsSent,
                   Waiting, Outstanding
<1>2. NInv /\ [Next]_vars => NInv'
  BY StepTypes, StepNewest, StepTakeover DEF NInv
<1>3. NInv => NoTraderOnlyInTakeover
  <2> SUFFICES ASSUME NInv, ~MacOpens, ~VpsOpens, ~failed
               PROVE  \E t \in Tabs : tab[t] = "stand_down"
      BY DEF NoTraderOnlyInTakeover
  <2>1. mac # "local" /\ vps = "local"
    BY DEF MacOpens, VpsOpens, NInv, TypeOK, Traders
  <2>2. Outstanding("stand_down")
    BY <2>1 DEF NInv, TakeoverInv, WordIsSent, Answered, Outstanding
  <2> QED BY <2>1, <2>2 DEF NInv, TakeoverInv, Awaited, Waiting
<1> QED BY <1>1, <1>2, <1>3, PTL DEF Spec

-----------------------------------------------------------------------------
(* The risk halts: every breach is answered, or a tail will still ask        *)

Tasks == [pc : Steps, t : Trades \cup {NoTrade}, bal : Int]

\* The types the argument needs; the windows stay opaque.
HaltsTypes ==
    /\ state \in [Trades -> {"open", "shut", "booked"}]
    /\ balance \in Int /\ pause \in Pauses
    /\ task \in [Closers -> Tasks]

\* A close that no guard has looked at yet is still on its way to one.
Unseen ==
    \/ \E t \in Trades : state[t] = "shut"
    \/ \E c \in Closers : task[c].pc \in {"stamped", "booked"}

\* Some tail will still ask this guard, of the balance as it is.
AsksGiveBack == \E c \in Closers : task[c].pc \in {"governor", "giveback"}
AsksLoss == \E c \in Closers : task[c].pc \in {"governor", "giveback", "daily"} /\ task[c].bal = balance

LossAnswered == LossBreach(run, balance) => pause >= DayEnd \/ Unseen \/ AsksLoss
GiveBackAnswered == GiveBackBreach(run) => pause >= DayEnd \/ Unseen \/ AsksGiveBack

HaltsInv == HaltsTypes /\ (missed = {} => LossAnswered /\ GiveBackAnswered)

\* An empty window has earned nothing.
LEMMA RunningOfNothing == Running(<<>>) = [k \in {0} |-> 0]
<1> DEFINE Gain(s) == IF winner[s.t] = s.by THEN net[s.t] ELSE 0
           Body(f) == [k \in 0..Len(<<>>) |-> IF k = 0 THEN 0 ELSE f[k - 1] + Gain(<<>>[k])]
           zero == [k \in {0} |-> 0]
<1>1. 0..Len(<<>>) = {0}
  OBVIOUS
<1>2. \A f : Body(f) = zero
  BY <1>1
<1>3. Running(<<>>) = CHOOSE f : f = Body(f)
  BY DEF Running
<1>4. zero = Body(zero)
  BY <1>2
<1>5. Running(<<>>) = Body(Running(<<>>))
  BY <1>3, <1>4
<1> QED
  BY <1>2, <1>5

\* An empty window breaches nothing.
LEMMA NothingIsNoBreach ==
    /\ \A b \in Int : ~LossBreach(<<>>, b)
    /\ ~GiveBackBreach(<<>>)
<1>1. Realised(<<>>) = 0
  BY RunningOfNothing DEF Realised
<1>2. DayPeak(<<>>) = 0
  <2>1. {Running(<<>>)[k] : k \in 0..Len(<<>>)} = {0}
    BY RunningOfNothing
  <2> QED
    BY <2>1 DEF DayPeak
<1>3. \A b \in Int : ~LossBreach(<<>>, b)
  <2> TAKE b \in Int
  <2>1. b > 0 /\ DailyPct > 0 => b * DailyPct > 0
    BY HaltsAssumption
  <2> QED
    BY <1>1, <2>1, HaltsAssumption DEF LossBreach
<1>4. ~GiveBackBreach(<<>>)
  BY <1>2, HaltsAssumption DEF GiveBackBreach
<1> QED
  BY <1>3, <1>4

\* The invariant holds at the start.
LEMMA HaltsStart == HaltsInit => HaltsInv
<1> SUFFICES ASSUME HaltsInit PROVE HaltsInv
  OBVIOUS
<1>1. HaltsTypes
  BY HaltsAssumption DEF HaltsInit, HaltsTypes, Tasks, Steps, Idle, Pauses, Off
<1>2. run = <<>>
  BY DEF HaltsInit
<1> QED
  BY <1>1, <1>2, NothingIsNoBreach DEF HaltsInv, LossAnswered, GiveBackAnswered, HaltsTypes

\* Steps that change no close and no balance measure the same breaches.
LEMMA SameFigures ==
    ASSUME UNCHANGED <<run, net, winner, balance>>
    PROVE  /\ LossBreach(run, balance)' = LossBreach(run, balance)
           /\ GiveBackBreach(run)' = GiveBackBreach(run)
<1>1. Running(run)' = Running(run)
  BY DEF Running
<1>2. Realised(run)' = Realised(run) /\ DayPeak(run)' = DayPeak(run)
  BY <1>1 DEF Realised, DayPeak
<1> QED
  BY <1>2 DEF LossBreach, GiveBackBreach

\* Every step keeps the types.
LEMMA StepHaltsTypes == HaltsTypes /\ [HaltsNext]_haltsVars => HaltsTypes'
<1> SUFFICES ASSUME HaltsTypes, [HaltsNext]_haltsVars PROVE HaltsTypes'
  OBVIOUS
<1> USE HaltsAssumption DEF HaltsTypes
<1>1. ASSUME NEW t \in Trades, Shut(t) PROVE HaltsTypes'
  BY <1>1 DEF Shut, windows
<1>2. ASSUME NEW t \in Trades, Settle(t) PROVE HaltsTypes'
  BY <1>2 DEF Settle, windows
<1>3. ASSUME NEW t \in Trades, NEW c \in Closers, Stamp(c, t) PROVE HaltsTypes'
  <2>1. task' \in [Closers -> Tasks]
    BY <1>3 DEF Stamp, Tasks, Steps
  <2> QED
    BY <1>3, <2>1 DEF Stamp, ledger
<1>4. ASSUME NEW c \in Closers, Book(c) PROVE HaltsTypes'
  <2>1. task' \in [Closers -> Tasks]
    BY <1>4 DEF Book, Goto, Tasks, Steps
  <2>2. state' \in [Trades -> {"open", "shut", "booked"}]
    BY <1>4 DEF Book
  <2> QED
    BY <1>4, <2>1, <2>2 DEF Book
<1>5. ASSUME NEW c \in Closers, ReadBalance(c) PROVE HaltsTypes'
  <2>1. PICK b \in {balance, Start} : task' = [task EXCEPT ![c].pc = "governor", ![c].bal = b]
    BY <1>5 DEF ReadBalance
  <2>2. b \in Int
    OBVIOUS
  <2>3. [task[c] EXCEPT !.pc = "governor", !.bal = b] \in Tasks
    BY <2>2 DEF Tasks, Steps
  <2>4. task' = [task EXCEPT ![c] = [task[c] EXCEPT !.pc = "governor", !.bal = b]]
    BY <2>1
  <2> QED
    BY <1>5, <2>3, <2>4 DEF ReadBalance, ledger
<1>6. ASSUME NEW c \in Closers, Governor(c) PROVE HaltsTypes'
  <2>1. task' \in [Closers -> Tasks]
    BY <1>6 DEF Governor, Goto, Tasks, Steps
  <2>2. pause' \in Pauses
    BY <1>6 DEF Governor, Pauses, DayEnd, Short
  <2> QED
    BY <1>6, <2>1, <2>2 DEF Governor, ledger
<1>7. ASSUME NEW b \in BOOLEAN, StopTheDay(b) PROVE pause' \in Pauses
  BY <1>7 DEF StopTheDay, Pauses, DayEnd
<1>8. ASSUME NEW c \in Closers, GiveBack(c) PROVE HaltsTypes'
  <2>1. task' \in [Closers -> Tasks]
    BY <1>8 DEF GiveBack, Goto, Tasks, Steps
  <2>2. pause' \in Pauses
    BY <1>7, <1>8 DEF GiveBack, GiveBackBreach
  <2> QED
    BY <1>8, <2>1, <2>2 DEF GiveBack, ledger
<1>9. ASSUME NEW c \in Closers, task' = [task EXCEPT ![c] = Idle]
      PROVE  task' \in [Closers -> Tasks]
  BY <1>9 DEF Tasks, Steps, Idle
<1>10. ASSUME NEW c \in Closers, DailyLoss(c) PROVE HaltsTypes'
  <2>1. pause' \in Pauses
    BY <1>7, <1>10 DEF DailyLoss, LossBreach
  <2> QED
    BY <1>9, <1>10, <2>1 DEF DailyLoss, Done, ledger
<1>11. ASSUME NEW c \in Closers, SkipChecks(c) PROVE HaltsTypes'
  BY <1>9, <1>11 DEF SkipChecks, Done, ledger
<1>12. ASSUME NEW p \in Pauses, PauseTrading(p) PROVE HaltsTypes'
  BY <1>12 DEF PauseTrading, ledger
<1>13. CASE ResumeTrading \/ DashboardResume \/ PauseEnds
  BY <1>13 DEF ResumeTrading, DashboardResume, PauseEnds, ledger, windows, Pauses
<1>14. CASE NewDay
  BY <1>14 DEF NewDay, ledger, Pauses, DayEnd
<1>15. CASE Die
  BY <1>15 DEF Die, ledger, Idle, Tasks, Steps
<1>16. CASE UNCHANGED haltsVars
  BY <1>16 DEF haltsVars, ledger
<1> QED
  BY <1>1, <1>2, <1>3, <1>4, <1>5, <1>6, <1>8, <1>10, <1>11, <1>12, <1>13, <1>14, <1>15, <1>16
  DEF HaltsNext, CloseStep

\* What the tails' steps leave of the claims: a task that moves on keeps asking
\* the guards it has not asked, and the tasks beside it keep what they ask.
LEMMA OthersAsk ==
    ASSUME HaltsTypes, UNCHANGED <<state, balance>>,
           NEW c \in Closers, NEW r \in Tasks, task' = [task EXCEPT ![c] = r],
           task[c].pc \notin {"stamped", "booked"}
    PROVE  /\ Unseen => Unseen'
           /\ AsksGiveBack => AsksGiveBack' \/ task[c].pc \in {"governor", "giveback"}
           /\ AsksLoss => AsksLoss' \/ task[c].bal = balance
<1>1. \A d \in Closers : d # c => task'[d] = task[d]
  BY DEF HaltsTypes
<1>2. Unseen => Unseen'
  BY <1>1 DEF Unseen
<1>3. AsksGiveBack => AsksGiveBack' \/ task[c].pc \in {"governor", "giveback"}
  BY <1>1 DEF AsksGiveBack
<1>4. AsksLoss => AsksLoss' \/ task[c].bal = balance
  BY <1>1 DEF AsksLoss
<1> QED
  BY <1>2, <1>3, <1>4

\* A close on its way to the guards excuses every breach.
LEMMA CloseOnItsWay ==
    HaltsInv /\ ( \/ \E t \in Trades : Shut(t) \/ \E c \in Closers : Stamp(c, t)
                 \/ \E c \in Closers : Book(c)) => Unseen'
<1> SUFFICES ASSUME HaltsInv
             PROVE  /\ \A t \in Trades : Shut(t) => Unseen'
                    /\ \A t \in Trades, c \in Closers : Stamp(c, t) => Unseen'
                    /\ \A c \in Closers : Book(c) => Unseen'
  OBVIOUS
<1>1. ASSUME NEW t \in Trades, Shut(t) PROVE Unseen'
  BY <1>1 DEF Shut, Unseen, HaltsInv, HaltsTypes
<1>2. ASSUME NEW t \in Trades, NEW c \in Closers, Stamp(c, t) PROVE Unseen'
  <2>1. task'[c].pc = "stamped"
    BY <1>2 DEF Stamp, HaltsInv, HaltsTypes, Tasks
  <2> QED
    BY <2>1 DEF Unseen
<1>3. ASSUME NEW c \in Closers, Book(c) PROVE Unseen'
  <2>1. task'[c].pc = "booked"
    BY <1>3 DEF Book, Goto, HaltsInv, HaltsTypes, Tasks
  <2> QED
    BY <2>1 DEF Unseen
<1> QED
  BY <1>1, <1>2, <1>3

\* A guard that finds a breach leaves the day stopped, or a miss on record.
LEMMA GuardStops ==
    ASSUME HaltsTypes, NEW breach \in BOOLEAN, StopTheDay(breach), missed' = {}
    PROVE  missed = {} /\ (breach => pause' >= DayEnd) /\ (pause >= DayEnd => pause' >= DayEnd)
BY DEF HaltsTypes, StopTheDay, DayEnd, Off, Pauses

\* A tail that has read the balance will ask both guards.
LEMMA ReadBalanceKeepsHalts ==
    ASSUME HaltsInv, NEW c \in Closers, ReadBalance(c), missed' = {}
    PROVE  LossAnswered' /\ GiveBackAnswered'
<1>1. PICK b \in {balance, Start} :
          /\ task' = [task EXCEPT ![c].pc = "governor", ![c].bal = b]
          /\ missed' = IF b = balance THEN missed ELSE missed \cup {"fallback"}
  BY DEF ReadBalance
<1>2. b = balance /\ balance' = balance
  BY <1>1 DEF ReadBalance, ledger
<1>3. task'[c].pc = "governor" /\ task'[c].bal = balance'
  BY <1>1, <1>2 DEF HaltsInv, HaltsTypes, Tasks
<1> QED
  BY <1>3 DEF LossAnswered, GiveBackAnswered, AsksLoss, AsksGiveBack

\* The governor's step leaves both guards to be asked.
LEMMA GovernorKeepsHalts ==
    ASSUME HaltsInv, NEW c \in Closers, Governor(c), missed' = {}
    PROVE  LossAnswered' /\ GiveBackAnswered'
<1> DEFINE r == [task[c] EXCEPT !.pc = "giveback"]
<1>1. /\ UNCHANGED <<run, net, winner, balance, state>>
      /\ task[c].pc = "governor"
  BY DEF Governor, ledger, windows
<1>2. missed = {} /\ (pause >= DayEnd => pause' >= DayEnd)
  BY DEF Governor, HaltsInv, HaltsTypes, Pauses, Off, Short, DayEnd, Long
<1>3. r \in Tasks /\ task' = [task EXCEPT ![c] = r]
  BY DEF Governor, Goto, HaltsInv, HaltsTypes, Tasks, Steps
<1>4. task'[c].pc = "giveback" /\ task'[c].bal = task[c].bal
  BY <1>3 DEF HaltsInv, HaltsTypes, Tasks
<1>5. /\ Unseen => Unseen'
      /\ AsksGiveBack'
      /\ AsksLoss => AsksLoss' \/ task[c].bal = balance
  BY <1>1, <1>3, <1>4, OthersAsk DEF HaltsInv, AsksGiveBack
<1>6. AsksLoss => AsksLoss'
  BY <1>1, <1>4, <1>5 DEF AsksLoss
<1> QED
  BY <1>1, <1>2, <1>5, <1>6, SameFigures DEF HaltsInv, LossAnswered, GiveBackAnswered

\* The give-back guard has answered; the ceiling is still to be asked.
LEMMA GiveBackKeepsHalts ==
    ASSUME HaltsInv, NEW c \in Closers, GiveBack(c), missed' = {}
    PROVE  LossAnswered' /\ GiveBackAnswered'
<1> DEFINE r == [task[c] EXCEPT !.pc = "daily"]
<1>1. /\ UNCHANGED <<run, net, winner, balance, state>>
      /\ task[c].pc = "giveback"
  BY DEF GiveBack, ledger, windows
<1>2. /\ missed = {} /\ (pause >= DayEnd => pause' >= DayEnd)
      /\ GiveBackBreach(run) => pause' >= DayEnd
  BY GuardStops DEF GiveBack, HaltsInv, GiveBackBreach
<1>3. r \in Tasks /\ task' = [task EXCEPT ![c] = r]
  BY DEF GiveBack, Goto, HaltsInv, HaltsTypes, Tasks, Steps
<1>4. task'[c].pc = "daily" /\ task'[c].bal = task[c].bal
  BY <1>3 DEF HaltsInv, HaltsTypes, Tasks
<1>5. /\ Unseen => Unseen'
      /\ AsksLoss => AsksLoss' \/ task[c].bal = balance
  BY <1>1, <1>3, OthersAsk DEF HaltsInv
<1>6. AsksLoss => AsksLoss'
  BY <1>1, <1>4, <1>5 DEF AsksLoss
<1> QED
  BY <1>1, <1>2, <1>5, <1>6, SameFigures DEF HaltsInv, LossAnswered, GiveBackAnswered

\* The ceiling has answered.
LEMMA DailyLossKeepsHalts ==
    ASSUME HaltsInv, NEW c \in Closers, DailyLoss(c), missed' = {}
    PROVE  LossAnswered' /\ GiveBackAnswered'
<1>1. /\ UNCHANGED <<run, net, winner, balance, state>>
      /\ task[c].pc = "daily"
  BY DEF DailyLoss, ledger, windows
<1>2. /\ missed = {} /\ (pause >= DayEnd => pause' >= DayEnd)
      /\ LossBreach(run, task[c].bal) => pause' >= DayEnd
  BY GuardStops DEF DailyLoss, HaltsInv, LossBreach
<1>3. Idle \in Tasks /\ task' = [task EXCEPT ![c] = Idle]
  BY DEF DailyLoss, Done, Idle, Tasks, Steps
<1>4. /\ Unseen => Unseen'
      /\ AsksGiveBack => AsksGiveBack'
      /\ AsksLoss => AsksLoss' \/ task[c].bal = balance
  BY <1>1, <1>3, OthersAsk DEF HaltsInv
<1> QED
  BY <1>1, <1>2, <1>4, SameFigures DEF HaltsInv, LossAnswered, GiveBackAnswered

\* Every step keeps the invariant.
LEMMA StepHalts == HaltsInv /\ [HaltsNext]_haltsVars => HaltsInv'
<1> SUFFICES ASSUME HaltsInv, [HaltsNext]_haltsVars, missed' = {}
             PROVE  LossAnswered' /\ GiveBackAnswered'
  BY StepHaltsTypes DEF HaltsInv
<1>1. CASE \/ \E t \in Trades : Shut(t) \/ \E c \in Closers : Stamp(c, t)
           \/ \E c \in Closers : Book(c)
  BY <1>1, CloseOnItsWay DEF LossAnswered, GiveBackAnswered
<1>2. ASSUME NEW c \in Closers, ReadBalance(c) PROVE LossAnswered' /\ GiveBackAnswered'
  BY <1>2, ReadBalanceKeepsHalts
<1>3. ASSUME NEW c \in Closers, Governor(c) PROVE LossAnswered' /\ GiveBackAnswered'
  BY <1>3, GovernorKeepsHalts
<1>4. ASSUME NEW c \in Closers, GiveBack(c) PROVE LossAnswered' /\ GiveBackAnswered'
  BY <1>4, GiveBackKeepsHalts
<1>5. ASSUME NEW c \in Closers, DailyLoss(c) PROVE LossAnswered' /\ GiveBackAnswered'
  BY <1>5, DailyLossKeepsHalts
<1>6. CASE (\E c \in Closers : SkipChecks(c)) \/ (\E t \in Trades : Settle(t))
           \/ DashboardResume \/ Die
  BY <1>6 DEF SkipChecks, Settle, DashboardResume, Die
<1>7. ASSUME UNCHANGED <<run, ledger, task>>, missed = {}, pause >= DayEnd => pause' >= DayEnd
      PROVE  LossAnswered' /\ GiveBackAnswered'
  <2>1. UNCHANGED <<run, net, winner, balance, state, task>>
    BY <1>7 DEF ledger
  <2>2. Unseen' = Unseen /\ AsksLoss' = AsksLoss /\ AsksGiveBack' = AsksGiveBack
    BY <2>1 DEF Unseen, AsksLoss, AsksGiveBack
  <2> QED
    BY <1>7, <2>1, <2>2, SameFigures DEF HaltsInv, LossAnswered, GiveBackAnswered
<1>8. ASSUME NEW p \in Pauses, PauseTrading(p) PROVE LossAnswered' /\ GiveBackAnswered'
  BY <1>7, <1>8 DEF PauseTrading, windows, HaltsInv, HaltsTypes, Pauses, DayEnd, Off, Short, Long
<1>9. CASE ResumeTrading \/ NewDay
  <2>1. run' = <<>> /\ balance' \in Int
    BY <1>9 DEF ResumeTrading, NewDay, ledger, HaltsInv, HaltsTypes
  <2>2. ~LossBreach(run, balance)' /\ ~GiveBackBreach(run)'
    BY <2>1, NothingIsNoBreach DEF LossBreach, GiveBackBreach, Realised, DayPeak, Running
  <2> QED
    BY <2>2 DEF LossAnswered, GiveBackAnswered
<1>10. CASE PauseEnds
  BY <1>7, <1>10 DEF PauseEnds, windows, Short, DayEnd
<1>11. CASE UNCHANGED haltsVars
  BY <1>7, <1>11 DEF haltsVars, windows
<1> QED
  BY <1>1, <1>2, <1>3, <1>4, <1>5, <1>6, <1>8, <1>9, <1>10, <1>11 DEF HaltsNext, CloseStep

\* BreachStopsTheDay, for any trades, callers, percentages and results: once the
\* tails of record_close have run, a day past its loss ceiling or its give-back
\* is paused to its end, unless a check was missed in one of the named ways since
\* the last close was stamped.
THEOREM BreachIsStopped == HaltsSpec => []BreachStopsTheDay
<1>1. HaltsInv => BreachStopsTheDay
  BY DEF HaltsInv, LossAnswered, GiveBackAnswered, BreachStopsTheDay, Quiet, Unseen, AsksLoss, AsksGiveBack
<1> QED
  BY <1>1, HaltsStart, StepHalts, PTL DEF HaltsSpec
=============================================================================
