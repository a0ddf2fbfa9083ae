------------------------ MODULE OrderForwardingProofs ------------------------
(* Proofs that OrderForwarding keeps its promises for every number of        *)
(* signals, sends, connections and crashes.                                  *)
EXTENDS OrderForwarding, TLAPS

\* Where an order for s can be: unread on a connection, or in a handler.
At(s, c, i) == c \in Conns /\ i \in 1..Len(wire[c]) /\ wire[c][i] = s
Answered(s) == \E i \in 1..Len(back) : back[i].sig = s

\* There is at most one order for s on the way.
Alone(s) ==
    /\ \A c, d \in Conns : \A i \in 1..Len(wire[c]), j \in 1..Len(wire[d]) :
           wire[c][i] = s /\ wire[d][j] = s => c = d /\ i = j
    /\ \A c, d \in Conns : serving[c] = s /\ serving[d] = s => c = d
    /\ \A c, d \in Conns : \A j \in 1..Len(wire[d]) : serving[c] = s => wire[d][j] # s

\* An order on the way has been neither executed nor answered, and an answer
\* tells what became of it.
Honest(s) ==
    /\ OnTheWay(s) => opened[s] = 0 /\ ~Answered(s)
    /\ opened[s] <= 1
    /\ \A i \in 1..Len(back) : back[i].sig = s => opened[s] = IF back[i].ok THEN 1 ELSE 0
    /\ \A i, j \in 1..Len(back) : back[i].sig = s /\ back[j].sig = s => i = j

\* What the Mac's status says about the order.
Stated(s) ==
    /\ status[s] \in {"none", "pending", "expired"}
           => opened[s] = 0 /\ ~OnTheWay(s) /\ ~Answered(s)
    /\ status[s] \in {"activating", "active"} /\ s \notin waiting => opened[s] = 1

Waits == \A s \in waiting : status[s] \in {"activating", "active"}

IInv ==
    /\ TypeOK
    /\ Waits
    /\ \A s \in Signals : raced[s] = {} => Alone(s) /\ Honest(s) /\ Stated(s)

-----------------------------------------------------------------------------
LEMMA InitInv == Init => IInv
  BY ForwardingAssumption DEF Init, IInv, TypeOK, Waits, Alone, Honest, Stated,
     OnTheWay, Answered, Conns, Statuses, Races, Acks

\* Types, for every action.
LEMMA NextType == TypeOK /\ [Next]_vars => TypeOK'
<1> SUFFICES ASSUME TypeOK, [Next]_vars PROVE TypeOK'
  OBVIOUS
<1> USE ForwardingAssumption
<1>1. CASE Connect
  BY <1>1 DEF Connect, TypeOK, Conns
<1>2. CASE Disconnect
  BY <1>2 DEF Disconnect, TypeOK, Conns
<1>3. CASE ReadAck
  BY <1>3 DEF ReadAck, TypeOK, Mark, Statuses, Races, Acks
<1>4. CASE Crash
  BY <1>4 DEF Crash, TypeOK, Mark, Races
<1>5. CASE VpsRestart
  BY <1>5 DEF VpsRestart, TypeOK
<1>6. ASSUME NEW c \in Conns, Lose(c) PROVE TypeOK'
  BY <1>6 DEF Lose, TypeOK
<1>7. ASSUME NEW c \in Conns, Serve(c) PROVE TypeOK'
  BY <1>7 DEF Serve, TypeOK
<1>8. ASSUME NEW c \in Conns, NEW ok \in BOOLEAN, serving[c] # NoSignal, Answer(c, ok)
      PROVE  /\ back' \in Seq(Acks) /\ (live' = 0 => back' = <<>>)
             /\ serving' \in [Conns -> Signals \cup {NoSignal}]
  <2>1. [sig |-> serving[c], ok |-> ok] \in Acks
    BY <1>8, Zenon DEF Acks, TypeOK
  <2>2. \A a \in Acks : Append(back, a) \in Seq(Acks)
    BY DEF TypeOK
  <2>3. back' \in Seq(Acks)
    BY <1>8, <2>1, <2>2 DEF Answer, TypeOK
  <2>4. live' = 0 => back' = <<>>
    BY <1>8 DEF Answer, TypeOK, Conns
  <2> QED
    BY <1>8, <2>3, <2>4 DEF Answer, TypeOK
<1>9. ASSUME NEW c \in Conns, Execute(c) PROVE TypeOK'
  <2>1. serving[c] # NoSignal /\ serving[c] \in Signals /\ Answer(c, TRUE)
    BY <1>9 DEF Execute, TypeOK
  <2>2. /\ back' \in Seq(Acks) /\ (live' = 0 => back' = <<>>)
        /\ serving' \in [Conns -> Signals \cup {NoSignal}]
    BY <2>1, <1>8
  <2>3. UNCHANGED <<status, waiting, sends, live, conns, wire, crashes>>
    BY <2>1 DEF Answer
  <2>4. opened' \in [Signals -> Nat] /\ raced' \in [Signals -> SUBSET Races]
    BY <1>9, <2>1 DEF Execute, TypeOK
  <2> QED
    BY <2>2, <2>3, <2>4 DEF TypeOK
<1>10. ASSUME NEW c \in Conns, Refuse(c) PROVE TypeOK'
  <2>1. serving[c] # NoSignal /\ serving[c] \in Signals /\ Answer(c, FALSE)
    BY <1>10 DEF Refuse, TypeOK
  <2>2. /\ back' \in Seq(Acks) /\ (live' = 0 => back' = <<>>)
        /\ serving' \in [Conns -> Signals \cup {NoSignal}]
    BY <2>1, <1>8
  <2>3. UNCHANGED <<status, waiting, sends, live, conns, wire, crashes>>
    BY <2>1 DEF Answer
  <2>4. opened' \in [Signals -> Nat] /\ raced' \in [Signals -> SUBSET Races]
    BY <1>10, <2>1 DEF Refuse, TypeOK
  <2> QED
    BY <2>2, <2>3, <2>4 DEF TypeOK
<1>11. ASSUME NEW c \in Conns, Blur(c) PROVE TypeOK'
  <2>1. serving[c] # NoSignal /\ serving[c] \in Signals /\ Answer(c, FALSE)
    BY <1>11 DEF Blur, TypeOK
  <2>2. /\ back' \in Seq(Acks) /\ (live' = 0 => back' = <<>>)
        /\ serving' \in [Conns -> Signals \cup {NoSignal}]
    BY <2>1, <1>8
  <2>3. UNCHANGED <<status, waiting, sends, live, conns, wire, crashes>>
    BY <2>1 DEF Answer
  <2>4. opened' \in [Signals -> Nat] /\ raced' \in [Signals -> SUBSET Races]
    BY <1>11, <2>1 DEF Blur, TypeOK, Mark, Races
  <2> QED
    BY <2>2, <2>3, <2>4 DEF TypeOK
<1>12. ASSUME NEW s \in Signals, CreateSignal(s) \/ Expire(s) PROVE TypeOK'
  BY <1>12 DEF CreateSignal, Expire, TypeOK, linkVars, Statuses
<1>13. ASSUME NEW s \in Signals, Forward(s) PROVE TypeOK'
  <2>1. live \in Conns /\ Append(wire[live], s) \in Seq(Signals)
    BY <1>13 DEF Forward, TypeOK, Conns
  <2>2. wire' \in [Conns -> Seq(Signals)]
    BY <1>13, <2>1 DEF Forward, TypeOK
  <2>3. status' \in [Signals -> Statuses]
    BY <1>13 DEF Forward, Taken, TypeOK, Statuses
  <2>4. sends' \in [Signals -> 0..MaxSends] /\ waiting' \subseteq Signals
    BY <1>13 DEF Forward, TypeOK
  <2>5. UNCHANGED <<live, conns, serving, back, opened, raced, crashes>>
    BY <1>13 DEF Forward
  <2> QED
    BY <2>2, <2>3, <2>4, <2>5 DEF TypeOK
<1>14. ASSUME NEW s \in Signals, ForwardOffline(s) PROVE TypeOK'
  BY <1>14 DEF ForwardOffline, TypeOK, linkVars, Statuses
<1>15. ASSUME NEW s \in Signals, ForwardTorn(s) PROVE TypeOK'
  <2>1. live \in Conns /\ Append(wire[live], s) \in Seq(Signals)
    BY <1>15 DEF ForwardTorn, TypeOK, Conns
  <2>2. wire' \in [Conns -> Seq(Signals)]
    BY <1>15, <2>1 DEF ForwardTorn, TypeOK
  <2>3. raced' \in [Signals -> SUBSET Races]
    <3>1. CASE raced' = raced
      BY <3>1 DEF TypeOK
    <3>2. CASE Mark({s}, "torn")
      BY <3>2 DEF TypeOK, Mark, Races
    <3> QED
      BY <1>15, <3>1, <3>2 DEF ForwardTorn
  <2>4. status' \in [Signals -> Statuses]
    BY <1>15 DEF ForwardTorn, TypeOK, Statuses
  <2>5. sends' \in [Signals -> 0..MaxSends]
    BY <1>15 DEF ForwardTorn, TypeOK
  <2>6. live' = 0 /\ back' = <<>> /\ UNCHANGED <<waiting, conns, serving, opened, crashes>>
    BY <1>15 DEF ForwardTorn
  <2>7. back' \in Seq(Acks)
    BY <2>6
  <2> QED
    BY <2>2, <2>3, <2>4, <2>5, <2>6, <2>7 DEF TypeOK
<1>16. ASSUME NEW s \in Signals, AckTimeout(s) PROVE TypeOK'
  BY <1>16 DEF AckTimeout, TypeOK, linkVars, Statuses
<1>17. ASSUME NEW s \in Signals, Release(s) PROVE TypeOK'
  BY <1>17 DEF Release, TypeOK, linkVars, Statuses, Mark, Races
<1>18. CASE UNCHANGED vars
  BY <1>18 DEF vars, TypeOK
<1> QED
  BY <1>1, <1>2, <1>3, <1>4, <1>5, <1>6, <1>7, <1>9, <1>10, <1>11, <1>12, <1>13,
     <1>14, <1>15, <1>16, <1>17, <1>18 DEF Next

-----------------------------------------------------------------------------
\* The parts of IInv that the actions can disturb.
Sound(s) == raced[s] = {} => Alone(s) /\ Honest(s) /\ Stated(s)
Rest == Waits /\ \A s \in Signals : Sound(s)

LEMMA ConnectRest == IInv /\ Connect => Rest'
  BY DEF IInv, Connect, Rest, Waits, Sound, Alone, Honest, Stated, OnTheWay, Answered

LEMMA DisconnectRest == IInv /\ (Disconnect \/ Crash) => Rest'
<1> SUFFICES ASSUME IInv, Disconnect \/ Crash PROVE Rest'
  OBVIOUS
<1>1. /\ back' = <<>> /\ UNCHANGED <<status, wire, serving, opened>>
      /\ waiting' \subseteq waiting
      /\ \A s \in Signals : raced'[s] = {} => raced[s] = {} /\ (s \in waiting => s \in waiting')
  BY DEF Disconnect, Crash, Mark, IInv, TypeOK
<1> QED
  BY <1>1 DEF IInv, Rest, Waits, Sound, Alone, Honest, Stated, OnTheWay, Answered

\* Orders may vanish from the link without an answer.
LEMMA VanishRest ==
    ASSUME IInv, NEW s \in Signals,
           UNCHANGED <<status, waiting, opened, raced>>,
           back' = back \/ back' = <<>>,
           \A c \in Conns : wire'[c] = wire[c] \/ wire'[c] = <<>>,
           \A c \in Conns : serving'[c] = serving[c] \/ serving'[c] = NoSignal
    PROVE  Sound(s)'
<1> SUFFICES ASSUME raced[s] = {} PROVE Alone(s)' /\ Honest(s)' /\ Stated(s)'
  BY DEF Sound
<1> USE ForwardingAssumption
<1>1. Alone(s) /\ Honest(s) /\ Stated(s)
  BY DEF IInv
<1>2. \A c \in Conns : \A i \in 1..Len(wire'[c]) :
          i \in 1..Len(wire[c]) /\ wire'[c][i] = wire[c][i]
  OBVIOUS
<1>3. \A c \in Conns : serving'[c] = s => serving[c] = s
  OBVIOUS
<1>4. OnTheWay(s)' => OnTheWay(s)
  BY <1>2, <1>3 DEF OnTheWay
<1>5. \A i \in 1..Len(back') : i \in 1..Len(back) /\ back'[i] = back[i]
  OBVIOUS
<1>6. Answered(s)' => Answered(s)
  BY <1>5 DEF Answered
<1>7. Alone(s)'
  BY <1>1, <1>2, <1>3 DEF Alone
<1>8. Honest(s)'
  BY <1>1, <1>4, <1>5, <1>6 DEF Honest
<1> QED
  BY <1>1, <1>4, <1>6, <1>7, <1>8 DEF Stated

LEMMA LoseRest == ASSUME IInv, NEW c \in Conns, Lose(c) PROVE Rest'
<1>1. Waits'
  BY DEF IInv, Waits, Lose
<1>2. ASSUME NEW s \in Signals PROVE Sound(s)'
  BY VanishRest DEF Lose, IInv, TypeOK
<1> QED
  BY <1>1, <1>2 DEF Rest

LEMMA VpsRestartRest == IInv /\ VpsRestart => Rest'
<1> SUFFICES ASSUME IInv, VpsRestart PROVE Rest'
  OBVIOUS
<1>1. Waits'
  BY DEF IInv, Waits, VpsRestart
<1>2. ASSUME NEW s \in Signals PROVE Sound(s)'
  BY VanishRest DEF VpsRestart, IInv, TypeOK
<1> QED
  BY <1>1, <1>2 DEF Rest

LEMMA ServeRest == ASSUME IInv, NEW c \in Conns, Serve(c) PROVE Rest'
<1> USE ForwardingAssumption
<1>1. Waits'
  BY DEF IInv, Waits, Serve
<1>2. ASSUME NEW s \in Signals PROVE Sound(s)'
  <2> SUFFICES ASSUME raced[s] = {} PROVE Alone(s)' /\ Honest(s)' /\ Stated(s)'
    BY DEF Sound, Serve
  <2>1. Alone(s) /\ Honest(s) /\ Stated(s) /\ TypeOK
    BY DEF IInv
  <2>2. /\ 1 \in 1..Len(wire[c]) /\ serving'[c] = wire[c][1]
        /\ serving[c] # s
        /\ \A d \in Conns \ {c} : wire'[d] = wire[d] /\ serving'[d] = serving[d]
    BY <2>1 DEF Serve, TypeOK
  <2>3. \A i \in 1..Len(wire'[c]) : i + 1 \in 1..Len(wire[c]) /\ wire'[c][i] = wire[c][i + 1]
    BY <2>1 DEF Serve, TypeOK
  <2>4. OnTheWay(s)' => OnTheWay(s)
    BY <2>2, <2>3 DEF OnTheWay
  <2>5. UNCHANGED <<status, waiting, opened, back>>
    BY DEF Serve
  <2>6. Alone(s)'
    <3>1. ASSUME NEW d \in Conns, NEW e \in Conns, NEW i \in 1..Len(wire'[d]),
                 NEW j \in 1..Len(wire'[e]), wire'[d][i] = s, wire'[e][j] = s
          PROVE  d = e /\ i = j
      <4>1. CASE d = c /\ e = c
        <5>1. /\ i + 1 \in 1..Len(wire[c]) /\ wire[c][i + 1] = s
              /\ j + 1 \in 1..Len(wire[c]) /\ wire[c][j + 1] = s
          BY <2>3, <3>1, <4>1
        <5>2. i + 1 = j + 1
          BY <2>1, <5>1 DEF Alone
        <5> QED
          BY <5>2, <4>1, <3>1
      <4>2. CASE d = c /\ e # c
        <5>1. i + 1 \in 1..Len(wire[c]) /\ wire[c][i + 1] = s
          BY <2>3, <3>1, <4>2
        <5>2. j \in 1..Len(wire[e]) /\ wire[e][j] = s
          BY <2>2, <3>1, <4>2
        <5> QED
          BY <2>1, <5>1, <5>2, <4>2 DEF Alone
      <4>3. CASE d # c /\ e = c
        <5>1. j + 1 \in 1..Len(wire[c]) /\ wire[c][j + 1] = s
          BY <2>3, <3>1, <4>3
        <5>2. i \in 1..Len(wire[d]) /\ wire[d][i] = s
          BY <2>2, <3>1, <4>3
        <5> QED
          BY <2>1, <5>1, <5>2, <4>3 DEF Alone
      <4>4. CASE d # c /\ e # c
        BY <2>1, <2>2, <3>1, <4>4 DEF Alone
      <4> QED
        BY <4>1, <4>2, <4>3, <4>4
    <3>2. ASSUME NEW d \in Conns, NEW e \in Conns, serving'[d] = s, serving'[e] = s
          PROVE  d = e
      BY <2>1, <2>2, <3>2 DEF Alone
    <3>3. ASSUME NEW d \in Conns, NEW e \in Conns, NEW j \in 1..Len(wire'[e]), serving'[d] = s
          PROVE  wire'[e][j] # s
      BY <2>1, <2>2, <2>3, <3>3 DEF Alone
    <3> QED
      BY <3>1, <3>2, <3>3 DEF Alone
  <2>7. Honest(s)' /\ Stated(s)'
    BY <2>1, <2>4, <2>5 DEF Honest, Stated, Answered
  <2> QED
    BY <2>6, <2>7
<1> QED
  BY <1>1, <1>2 DEF Rest

\* A handler that answers has no order any more, and adds at most one ack.
LEMMA AnswerRest ==
    ASSUME IInv, NEW c \in Conns, NEW ok, serving[c] \in Signals,
           Answer(c, ok), NEW s \in Signals, raced[s] = {}
    PROVE  /\ Alone(s)'
           /\ OnTheWay(s)' => OnTheWay(s) /\ s # serving[c]
           /\ s # serving[c] => (Answered(s)' => Answered(s))
           /\ \A i \in 1..Len(back') : back'[i].sig = s =>
                  \/ i \in 1..Len(back) /\ back'[i] = back[i]
                  \/ i = Len(back) + 1 /\ s = serving[c] /\ back'[i].ok = ok
<1> USE ForwardingAssumption
<1>1. Alone(s) /\ TypeOK
  BY DEF IInv
<1>2. wire' = wire /\ serving'[c] = NoSignal /\ \A d \in Conns \ {c} : serving'[d] = serving[d]
  BY <1>1 DEF Answer, TypeOK
<1>3. Alone(s)'
  BY <1>1, <1>2 DEF Alone
<1>4. OnTheWay(s)' => OnTheWay(s) /\ s # serving[c]
  BY <1>1, <1>2 DEF OnTheWay, Alone
<1>5. \A i \in 1..Len(back') : back'[i].sig = s =>
                  \/ i \in 1..Len(back) /\ back'[i] = back[i]
                  \/ i = Len(back) + 1 /\ s = serving[c] /\ back'[i].ok = ok
  <2> DEFINE a == [sig |-> serving[c], ok |-> ok]
  <2>1. a.sig = serving[c] /\ a.ok = ok
    OBVIOUS
  <2>2. back' = back \/ back' = Append(back, a)
    BY DEF Answer
  <2> HIDE DEF a
  <2>3. CASE back' = back
    BY <2>3
  <2>4. CASE back' = Append(back, a)
    <3>1. Len(back') = Len(back) + 1 /\ back'[Len(back) + 1] = a
          /\ \A i \in 1..Len(back) : back'[i] = back[i]
      BY <1>1, <2>4 DEF TypeOK
    <3>2. Len(back) \in Nat
      BY <1>1 DEF TypeOK
    <3> QED
      BY <3>1, <3>2, <2>1
  <2> QED
    BY <2>2, <2>3, <2>4
<1>6. s # serving[c] => (Answered(s)' => Answered(s))
  BY <1>5 DEF Answered
<1> QED
  BY <1>3, <1>4, <1>5, <1>6

LEMMA ExecuteRest == ASSUME IInv, NEW c \in Conns, Execute(c) PROVE Rest'
<1>1. Waits'
  BY DEF IInv, Waits, Execute, Answer
<1>2. serving[c] \in Signals /\ Answer(c, TRUE) /\ raced' = raced
  BY DEF Execute, IInv, TypeOK
<1>3. ASSUME NEW s \in Signals PROVE Sound(s)'
  <2> SUFFICES ASSUME raced[s] = {} PROVE Alone(s)' /\ Honest(s)' /\ Stated(s)'
    BY <1>2 DEF Sound
  <2>1. Alone(s) /\ Honest(s) /\ Stated(s) /\ TypeOK
    BY DEF IInv
  <2>2. /\ Alone(s)'
        /\ OnTheWay(s)' => OnTheWay(s) /\ s # serving[c]
        /\ s # serving[c] => (Answered(s)' => Answered(s))
        /\ \A i \in 1..Len(back') : back'[i].sig = s =>
               \/ i \in 1..Len(back) /\ back'[i] = back[i]
               \/ i = Len(back) + 1 /\ s = serving[c] /\ back'[i].ok = TRUE
    BY <1>2, AnswerRest
  <2>3. UNCHANGED <<status, waiting>>
    BY <1>2 DEF Answer
  <2>4. CASE s # serving[c]
    <3>1. opened'[s] = opened[s]
      BY <2>1, <2>4 DEF Execute, TypeOK
    <3> QED
      BY <2>1, <2>2, <2>3, <2>4, <3>1 DEF Honest, Stated
  <2>5. CASE s = serving[c]
    <3>1. OnTheWay(s)
      BY <2>5 DEF OnTheWay
    <3>2. opened[s] = 0 /\ ~Answered(s) /\ opened'[s] = 1
      BY <2>1, <2>5, <3>1 DEF Execute, TypeOK, Honest
    <3>3. \A i \in 1..Len(back') : back'[i].sig = s => i = Len(back) + 1 /\ back'[i].ok = TRUE
      BY <2>2, <3>2 DEF Answered
    <3>4. Honest(s)'
      BY <2>2, <2>5, <3>2, <3>3 DEF Honest
    <3>5. status[s] \notin {"none", "pending", "expired"}
      BY <2>1, <3>1 DEF Stated
    <3> QED
      BY <2>2, <2>3, <3>2, <3>4, <3>5 DEF Stated
  <2> QED
    BY <2>4, <2>5
<1> QED
  BY <1>1, <1>3 DEF Rest

LEMMA RefuseRest == ASSUME IInv, NEW c \in Conns, Refuse(c) PROVE Rest'
<1>1. Waits'
  BY DEF IInv, Waits, Refuse, Answer
<1>2. serving[c] \in Signals /\ Answer(c, FALSE) /\ raced' = raced /\ opened' = opened
  BY DEF Refuse, IInv, TypeOK
<1>3. ASSUME NEW s \in Signals PROVE Sound(s)'
  <2> SUFFICES ASSUME raced[s] = {} PROVE Alone(s)' /\ Honest(s)' /\ Stated(s)'
    BY <1>2 DEF Sound
  <2>1. Alone(s) /\ Honest(s) /\ Stated(s) /\ TypeOK
    BY DEF IInv
  <2>2. /\ Alone(s)'
        /\ OnTheWay(s)' => OnTheWay(s) /\ s # serving[c]
        /\ s # serving[c] => (Answered(s)' => Answered(s))
        /\ \A i \in 1..Len(back') : back'[i].sig = s =>
               \/ i \in 1..Len(back) /\ back'[i] = back[i]
               \/ i = Len(back) + 1 /\ s = serving[c] /\ back'[i].ok = FALSE
    <3>1. PICK ok : ok = FALSE /\ Answer(c, ok)
      BY <1>2
    <3>2. /\ Alone(s)'
          /\ OnTheWay(s)' => OnTheWay(s) /\ s # serving[c]
          /\ s # serving[c] => (Answered(s)' => Answered(s))
          /\ \A i \in 1..Len(back') : back'[i].sig = s =>
                 \/ i \in 1..Len(back) /\ back'[i] = back[i]
                 \/ i = Len(back) + 1 /\ s = serving[c] /\ back'[i].ok = ok
      BY <1>2, <3>1, AnswerRest
    <3> QED
      BY <3>1, <3>2
  <2>3. UNCHANGED <<status, waiting>>
    BY <1>2 DEF Answer
  <2>4. CASE s # serving[c]
    BY <1>2, <2>1, <2>2, <2>3, <2>4 DEF Honest, Stated
  <2>5. CASE s = serving[c]
    <3>1. OnTheWay(s)
      BY <2>5 DEF OnTheWay
    <3>2. opened[s] = 0 /\ ~Answered(s)
      BY <2>1, <3>1 DEF Honest
    <3>3. \A i \in 1..Len(back') : back'[i].sig = s => i = Len(back) + 1 /\ back'[i].ok = FALSE
      BY <2>2, <3>2 DEF Answered
    <3>4. Honest(s)'
      BY <1>2, <2>2, <2>5, <3>2, <3>3 DEF Honest
    <3>5. status[s] \notin {"none", "pending", "expired"}
      BY <2>1, <3>1 DEF Stated
    <3> QED
      BY <1>2, <2>1, <2>2, <2>3, <3>2, <3>4, <3>5 DEF Stated
  <2> QED
    BY <2>4, <2>5
<1> QED
  BY <1>1, <1>3 DEF Rest

\* The order the VPS could not account for is marked; the others are as after a
\* refusal.
LEMMA BlurRest == ASSUME IInv, NEW c \in Conns, Blur(c) PROVE Rest'
<1>1. Waits'
  BY DEF IInv, Waits, Blur, Answer
<1>2. serving[c] \in Signals /\ Answer(c, FALSE)
  BY DEF Blur, IInv, TypeOK
<1>3. ASSUME NEW s \in Signals PROVE Sound(s)'
  <2> SUFFICES ASSUME raced'[s] = {} PROVE Alone(s)' /\ Honest(s)' /\ Stated(s)'
    BY DEF Sound
  <2>1. s # serving[c] /\ raced[s] = {}
    BY DEF Blur, Mark
  <2>2. Alone(s) /\ Honest(s) /\ Stated(s) /\ TypeOK
    BY <2>1 DEF IInv
  <2>3. /\ Alone(s)'
        /\ OnTheWay(s)' => OnTheWay(s)
        /\ Answered(s)' => Answered(s)
        /\ \A i \in 1..Len(back') : back'[i].sig = s =>
               i \in 1..Len(back) /\ back'[i] = back[i]
    BY <1>2, <2>1, AnswerRest
  <2>4. UNCHANGED <<status, waiting>> /\ opened'[s] = opened[s]
    BY <1>2, <2>1, <2>2 DEF Answer, Blur, TypeOK
  <2> QED
    BY <2>2, <2>3, <2>4 DEF Honest, Stated
<1> QED
  BY <1>1, <1>3 DEF Rest

\* The answer at the head tells whoever waits for it what became of the order;
\* the others that wait take it too, and are marked.
LEMMA ReadAckRest == IInv /\ ReadAck => Rest'
<1> SUFFICES ASSUME IInv, ReadAck PROVE Rest'
  OBVIOUS
<1> USE ForwardingAssumption
<1>1. Waits'
  BY DEF ReadAck, Waits
<1>2. ASSUME NEW s \in Signals PROVE Sound(s)'
  <2> SUFFICES ASSUME raced'[s] = {} PROVE Alone(s)' /\ Honest(s)' /\ Stated(s)'
    BY DEF Sound
  <2>1. raced[s] = {} /\ (s \in waiting => s = Head(back).sig)
    BY DEF ReadAck, Mark
  <2>2. Alone(s) /\ Honest(s) /\ Stated(s) /\ TypeOK /\ Waits
    BY <2>1 DEF IInv
  <2>3. UNCHANGED <<wire, serving, opened>> /\ waiting' = {}
    BY DEF ReadAck
  <2>4. /\ 1 \in 1..Len(back) /\ Head(back) = back[1]
        /\ Len(back') = Len(back) - 1
        /\ \A i \in 1..Len(back') : i + 1 \in 1..Len(back) /\ back'[i] = back[i + 1]
    BY <2>2 DEF ReadAck, TypeOK
  <2>5. Alone(s)' /\ (OnTheWay(s)' <=> OnTheWay(s))
    BY <2>2, <2>3 DEF Alone, OnTheWay
  <2>6. Answered(s)' => Answered(s)
    BY <2>4 DEF Answered
  <2>7. Honest(s)'
    <3>1. ASSUME NEW i \in 1..Len(back'), NEW j \in 1..Len(back'),
                 back'[i].sig = s, back'[j].sig = s
          PROVE  i = j
      <4>1. /\ i + 1 \in 1..Len(back) /\ back[i + 1].sig = s
            /\ j + 1 \in 1..Len(back) /\ back[j + 1].sig = s
        BY <2>4, <3>1
      <4>2. i + 1 = j + 1
        BY <2>2, <4>1 DEF Honest
      <4> QED
        BY <4>2, <3>1
    <3>2. ASSUME NEW i \in 1..Len(back'), back'[i].sig = s
          PROVE  opened'[s] = IF back'[i].ok THEN 1 ELSE 0
      <4>1. i + 1 \in 1..Len(back) /\ back[i + 1].sig = s /\ back'[i] = back[i + 1]
        BY <2>4, <3>2
      <4> QED
        BY <2>2, <2>3, <4>1 DEF Honest
    <3>3. OnTheWay(s)' => opened'[s] = 0 /\ ~Answered(s)'
      BY <2>2, <2>3, <2>5, <2>6 DEF Honest
    <3>4. opened'[s] <= 1
      BY <2>2, <2>3 DEF Honest
    <3> QED
      BY <3>1, <3>2, <3>3, <3>4 DEF Honest
  <2>8. CASE s \notin waiting
    <3>1. status'[s] = status[s]
      BY <2>2, <2>8 DEF ReadAck, TypeOK
    <3> QED
      BY <2>2, <2>3, <2>5, <2>6, <2>7, <2>8, <3>1 DEF Stated
  <2>9. CASE s \in waiting
    <3>1. back[1].sig = s
      BY <2>1, <2>4, <2>9
    <3>2. opened[s] = (IF back[1].ok THEN 1 ELSE 0) /\ Answered(s)
      BY <2>2, <2>4, <3>1 DEF Honest, Answered
    <3>3. ~Answered(s)'
      <4>1. ASSUME NEW i \in 1..Len(back'), back'[i].sig = s PROVE FALSE
        <5>1. i + 1 \in 1..Len(back) /\ back[i + 1].sig = s
          BY <2>4, <4>1
        <5>2. i + 1 = 1
          BY <2>2, <2>4, <3>1, <5>1 DEF Honest
        <5> QED
          BY <5>2, <4>1
      <4> QED
        BY <4>1 DEF Answered
    <3>4. ~OnTheWay(s)
      BY <2>2, <3>2 DEF Honest
    <3>5. CASE back[1].ok
      <4>1. status'[s] = status[s] /\ opened[s] = 1
        BY <2>4, <3>2, <3>5 DEF ReadAck
      <4>2. status[s] \in {"activating", "active"}
        BY <2>2, <2>9 DEF Waits
      <4> QED
        BY <2>3, <2>5, <2>7, <4>1, <4>2 DEF Stated
    <3>6. CASE ~back[1].ok
      <4>1. status'[s] = "pending" /\ opened[s] = 0
        BY <2>4, <2>9, <3>2, <3>6 DEF ReadAck
      <4> QED
        BY <2>3, <2>5, <2>7, <3>3, <3>4, <4>1 DEF Stated
    <3> QED
      BY <3>5, <3>6
  <2> QED
    BY <2>8, <2>9
<1> QED
  BY <1>1, <1>2 DEF Rest

\* Steps that change statuses only.
LEMMA CreateExpireRest ==
    ASSUME IInv, NEW s \in Signals, CreateSignal(s) \/ Expire(s) \/ ForwardOffline(s)
    PROVE  Rest'
<1>1. Waits'
  BY DEF IInv, TypeOK, Waits, CreateSignal, Expire, ForwardOffline
<1>2. ASSUME NEW r \in Signals PROVE Sound(r)'
  <2>1. /\ UNCHANGED <<waiting, wire, serving, back, opened, raced>>
        /\ \/ status'[r] = status[r]
           \/ status[r] \in {"none", "pending"} /\ status'[r] \in {"pending", "expired", "unknown"}
    BY DEF CreateSignal, Expire, ForwardOffline, linkVars, IInv, TypeOK
  <2> QED
    BY <2>1 DEF IInv, Sound, Alone, Honest, Stated, OnTheWay, Answered
<1> QED
  BY <1>1, <1>2 DEF Rest

LEMMA AckTimeoutRest == ASSUME IInv, NEW s \in Signals, AckTimeout(s) PROVE Rest'
<1>1. Waits'
  BY DEF IInv, TypeOK, Waits, AckTimeout
<1>2. ASSUME NEW r \in Signals PROVE Sound(r)'
  <2>1. /\ UNCHANGED <<wire, serving, back, opened, raced>>
        /\ \/ status'[r] = status[r] /\ (r \in waiting' <=> r \in waiting)
           \/ status'[r] = "unknown"
    BY DEF AckTimeout, linkVars, IInv, TypeOK
  <2> QED
    BY <2>1 DEF IInv, Sound, Alone, Honest, Stated, OnTheWay, Answered
<1> QED
  BY <1>1, <1>2 DEF Rest

LEMMA ReleaseRest == ASSUME IInv, NEW s \in Signals, Release(s) PROVE Rest'
<1>1. Waits'
  BY DEF IInv, TypeOK, Waits, Release
<1>2. ASSUME NEW r \in Signals PROVE Sound(r)'
  <2>1. /\ UNCHANGED <<waiting, wire, serving, back, opened>>
        /\ raced'[r] = {} => raced[r] = {} /\ status'[r] = status[r]
    BY DEF Release, Mark, linkVars, IInv, TypeOK
  <2> QED
    BY <2>1 DEF IInv, Sound, Alone, Honest, Stated, OnTheWay, Answered
<1> QED
  BY <1>1, <1>2 DEF Rest

\* A new order at the end of the live connection.
LEMMA AppendedOrder ==
    ASSUME TypeOK, NEW s \in Signals, live # 0,
           wire' = [wire EXCEPT ![live] = Append(@, s)]
    PROVE  /\ live \in Conns
           /\ Len(wire'[live]) = Len(wire[live]) + 1
           /\ Len(wire[live]) \in Nat
           /\ wire'[live][Len(wire[live]) + 1] = s
           /\ \A i \in 1..Len(wire[live]) : wire'[live][i] = wire[live][i]
           /\ \A d \in Conns \ {live} : wire'[d] = wire[d]
  BY ForwardingAssumption DEF TypeOK, Conns

LEMMA ForwardRest == ASSUME IInv, NEW s \in Signals, Forward(s) PROVE Rest'
<1> USE ForwardingAssumption
<1>1. TypeOK /\ live # 0 /\ wire' = [wire EXCEPT ![live] = Append(@, s)]
  BY DEF IInv, Forward
<1>2. /\ live \in Conns
      /\ Len(wire'[live]) = Len(wire[live]) + 1
      /\ Len(wire[live]) \in Nat
      /\ wire'[live][Len(wire[live]) + 1] = s
      /\ \A i \in 1..Len(wire[live]) : wire'[live][i] = wire[live][i]
      /\ \A d \in Conns \ {live} : wire'[d] = wire[d]
  BY <1>1, AppendedOrder
<1>3. UNCHANGED <<serving, back, opened, raced>> /\ waiting' = waiting \cup {s}
  BY DEF Forward
<1>4. status[s] \in {"none", "pending"} /\ status'[s] \in {"activating", "active"}
      /\ \A r \in Signals \ {s} : status'[r] = status[r]
  BY <1>1 DEF Forward, Taken, TypeOK
<1>5. Waits'
  BY <1>1, <1>3, <1>4 DEF Waits, IInv, TypeOK
<1>6. ASSUME NEW r \in Signals PROVE Sound(r)'
  <2> SUFFICES ASSUME raced[r] = {} PROVE Alone(r)' /\ Honest(r)' /\ Stated(r)'
    BY <1>3 DEF Sound
  <2>1. Alone(r) /\ Honest(r) /\ Stated(r)
    BY DEF IInv
  <2>2. CASE r # s
    <3>1. \A d \in Conns : \A i \in 1..Len(wire'[d]) :
              wire'[d][i] = r => i \in 1..Len(wire[d]) /\ wire[d][i] = r
      BY <1>2, <2>2
    <3>2. Alone(r)'
      BY <1>3, <2>1, <3>1 DEF Alone
    <3>3. OnTheWay(r)' => OnTheWay(r)
      BY <1>3, <3>1 DEF OnTheWay
    <3> QED
      BY <1>3, <1>4, <2>1, <2>2, <3>2, <3>3 DEF Honest, Stated, Answered
  <2>3. CASE r = s
    <3>1. opened[s] = 0 /\ ~OnTheWay(s) /\ ~Answered(s)
      BY <1>4, <2>1, <2>3 DEF Stated
    <3>2. \A d \in Conns : serving'[d] # s
      BY <1>3, <3>1 DEF OnTheWay
    <3>3. \A d \in Conns : \A i \in 1..Len(wire'[d]) :
              wire'[d][i] = s => d = live /\ i = Len(wire[live]) + 1
      BY <1>2, <3>1 DEF OnTheWay
    <3>4. Alone(s)'
      BY <3>2, <3>3 DEF Alone
    <3>5. opened'[s] = 0 /\ ~Answered(s)'
      BY <1>3, <3>1 DEF Answered
    <3>6. Honest(s)'
      BY <3>5 DEF Honest, Answered
    <3> QED
      BY <1>3, <1>4, <2>3, <3>4, <3>6 DEF Stated
  <2> QED
    BY <2>2, <2>3
<1> QED
  BY <1>5, <1>6 DEF Rest

\* An order that was written although the send raised is marked.
LEMMA ForwardTornRest == ASSUME IInv, NEW s \in Signals, ForwardTorn(s) PROVE Rest'
<1> USE ForwardingAssumption
<1>1. TypeOK /\ live # 0 /\ back' = <<>> /\ UNCHANGED <<waiting, serving, opened>>
      /\ status[s] \in {"none", "pending"} /\ status'[s] = "pending"
      /\ \A r \in Signals \ {s} : status'[r] = status[r]
  BY DEF IInv, ForwardTorn, TypeOK
<1>2. Waits'
  BY <1>1 DEF Waits, IInv, TypeOK
<1>3. ASSUME NEW r \in Signals PROVE Sound(r)'
  <2> SUFFICES ASSUME raced'[r] = {} PROVE Alone(r)' /\ Honest(r)' /\ Stated(r)'
    BY DEF Sound
  <2>1. /\ raced[r] = {}
        /\ \A d \in Conns : \A i \in 1..Len(wire'[d]) :
              wire'[d][i] = r => i \in 1..Len(wire[d]) /\ wire[d][i] = r
    <3>1. CASE UNCHANGED <<wire, raced>>
      BY <3>1
    <3>2. CASE wire' = [wire EXCEPT ![live] = Append(@, s)] /\ Mark({s}, "torn")
      <4>1. r # s /\ raced[r] = {}
        BY <3>2 DEF Mark
      <4>2. /\ Len(wire'[live]) = Len(wire[live]) + 1
            /\ Len(wire[live]) \in Nat
            /\ wire'[live][Len(wire[live]) + 1] = s
            /\ \A i \in 1..Len(wire[live]) : wire'[live][i] = wire[live][i]
            /\ \A d \in Conns \ {live} : wire'[d] = wire[d]
        BY <1>1, <3>2, AppendedOrder
      <4> QED
        BY <4>1, <4>2
    <3> QED
      BY <3>1, <3>2 DEF ForwardTorn
  <2>2. Alone(r) /\ Honest(r) /\ Stated(r)
    BY <2>1 DEF IInv
  <2>3. Alone(r)'
    BY <1>1, <2>1, <2>2 DEF Alone
  <2>4. OnTheWay(r)' => OnTheWay(r)
    BY <1>1, <2>1 DEF OnTheWay
  <2>5. ~Answered(r)' /\ Honest(r)'
    BY <1>1, <2>2, <2>4 DEF Answered, Honest
  <2>6. Stated(r)'
    <3>1. CASE r = s
      BY <1>1, <2>2, <2>4, <2>5, <3>1 DEF Stated
    <3>2. CASE r # s
      BY <1>1, <2>2, <2>4, <2>5, <3>2 DEF Stated
    <3> QED
      BY <3>1, <3>2
  <2> QED
    BY <2>3, <2>5, <2>6
<1> QED
  BY <1>2, <1>3 DEF Rest

-----------------------------------------------------------------------------
LEMMA NextInv == IInv /\ [Next]_vars => IInv'
<1> SUFFICES ASSUME IInv, [Next]_vars PROVE IInv'
  OBVIOUS
<1>1. TypeOK'
  BY NextType DEF IInv
<1>2. Rest'
  <2>1. CASE Connect
    BY <2>1, ConnectRest
  <2>2. CASE Disconnect \/ Crash
    BY <2>2, DisconnectRest
  <2>3. CASE ReadAck
    BY <2>3, ReadAckRest
  <2>4. CASE VpsRestart
    BY <2>4, VpsRestartRest
  <2>5. ASSUME NEW c \in Conns, Lose(c) \/ Serve(c) \/ Execute(c) \/ Refuse(c) \/ Blur(c)
        PROVE Rest'
    BY <2>5, LoseRest, ServeRest, ExecuteRest, RefuseRest, BlurRest
  <2>6. ASSUME NEW s \in Signals, CreateSignal(s) \/ Expire(s) \/ ForwardOffline(s)
        PROVE Rest'
    BY <2>6, CreateExpireRest
  <2>7. ASSUME NEW s \in Signals, Forward(s) \/ ForwardTorn(s) \/ AckTimeout(s) \/ Release(s)
        PROVE Rest'
    BY <2>7, ForwardRest, ForwardTornRest, AckTimeoutRest, ReleaseRest
  <2>8. CASE UNCHANGED vars
    BY <2>8 DEF vars, IInv, Rest, Waits, Sound, Alone, Honest, Stated, OnTheWay, Answered
  <2> QED
    BY <2>1, <2>2, <2>3, <2>4, <2>5, <2>6, <2>7, <2>8 DEF Next
<1> QED
  BY <1>1, <1>2 DEF IInv, Rest, Sound

\* The variables of OrderForwarding keep their types in every behaviour; the
\* part that needs care is that no answer is left once the Mac gave up the
\* connection (_run_loop).
THEOREM ForwardingTypes == Spec => []TypeOK
<1>1. IInv => TypeOK
  BY DEF IInv
<1> QED
  BY <1>1, InitInv, NextInv, PTL DEF Spec

\* Whatever the interleaving of forwards, answers and broken connections, a
\* signal that is queued again without a race has neither a position nor an
\* order on the way (open_trade.py's forwarding branch, send_dedup.py).
THEOREM ForwardingQueued == Spec => []QueuedIsUntraded
<1>1. IInv => QueuedIsUntraded
  BY DEF IInv, QueuedIsUntraded, Stated
<1> QED
  BY <1>1, InitInv, NextInv, PTL DEF Spec

\* Without a race the VPS opens at most one position per signal.
THEOREM ForwardingOnce == Spec => []ForwardedOnce
<1>1. IInv => ForwardedOnce
  BY DEF IInv, ForwardedOnce, Honest
<1> QED
  BY <1>1, InitInv, NextInv, PTL DEF Spec

\* Without a race, an open the Mac takes for executed was executed.
THEOREM ForwardingSuccess == Spec => []SuccessIsReal
<1>1. IInv => SuccessIsReal
  BY DEF IInv, SuccessIsReal, Stated
<1> QED
  BY <1>1, InitInv, NextInv, PTL DEF Spec

-----------------------------------------------------------------------------
(* Refinement: every step is a step of each signal in SignalContract        *)

\* The move the contract asks of signal s, in the terms of this module.
Move(s, from, to) ==
    PhaseOf(s) \in from /\ PhaseOf(s)' = to /\ opened'[s] = opened[s]

Kept(s) ==
    /\ PhaseOf(s) = "broken" => PhaseOf(s)' = "broken"
    /\ \/ PhaseOf(s)' = "broken"
       \/ PhaseOf(s)' = PhaseOf(s) /\ opened'[s] = opened[s]
       \/ Move(s, {"new"}, "queued")
       \/ Move(s, {"new", "queued"}, "opening")
       \/ Move(s, {"new", "queued", "opening"}, "parked")
       \/ Move(s, {"queued"}, "dropped")
       \/ opened[s] = 0 /\ Move(s, {"opening"}, "queued")
       \/ opened[s] = 1 /\ Move(s, {"opening"}, "confirmed")
       \/ /\ PhaseOf(s) \in {"opening", "parked"} /\ PhaseOf(s)' = PhaseOf(s)
          /\ opened[s] = 0 /\ opened'[s] = 1

\* A signal whose row, waiter, positions and races stay as they are stays.
LEMMA StayKept ==
    ASSUME TypeOK, NEW s \in Signals, status'[s] = status[s], raced'[s] = raced[s],
           opened'[s] = opened[s], s \in waiting' <=> s \in waiting
    PROVE  Kept(s)
<1>1. status[s] \in {"none", "pending", "activating", "active", "unknown", "expired"}
  BY DEF TypeOK, Statuses
<1>2. PhaseOf(s)' = PhaseOf(s)
  BY <1>1 DEF PhaseOf
<1> QED BY <1>2 DEF Kept

\* A signal that is raced after the step is broken.
LEMMA RacedKept ==
    ASSUME TypeOK, TypeOK', NEW s \in Signals, raced'[s] # {}
    PROVE  Kept(s)
<1>1. PhaseOf(s)' = "broken"
  BY DEF PhaseOf
<1> QED BY <1>1 DEF Kept

\* The steps on the Mac that concern one signal.
LEMMA MacKept ==
    ASSUME IInv, TypeOK', NEW r \in Signals, NEW s \in Signals,
           \/ CreateSignal(r) \/ Expire(r) \/ Forward(r) \/ ForwardOffline(r)
           \/ ForwardTorn(r) \/ AckTimeout(r) \/ Release(r)
    PROVE  Kept(s)
<1> USE DEF linkVars
<1>1. TypeOK /\ Waits
  BY DEF IInv
<1>2. CASE s # r
  <2>1. /\ status'[s] = status[s] /\ raced'[s] = raced[s] /\ opened'[s] = opened[s]
        /\ s \in waiting' <=> s \in waiting
    BY <1>1, <1>2 DEF CreateSignal, Expire, Forward, Taken, ForwardOffline, ForwardTorn,
       AckTimeout, Release, Mark, TypeOK
  <2> QED BY <1>1, <2>1, StayKept
<1>3. CASE s = r /\ raced'[s] # {}
  BY <1>1, <1>3, RacedKept
<1>4. CASE s = r /\ raced'[s] = {}
  <2>1. opened'[s] = opened[s] /\ raced[s] = {}
    <3>1. opened' = opened
      BY DEF CreateSignal, Expire, Forward, Taken, ForwardOffline, ForwardTorn, AckTimeout, Release
    <3>2. raced' = raced \/ Mark({s}, "torn") \/ Mark({s}, "swept")
      BY <1>4 DEF CreateSignal, Expire, Forward, Taken, ForwardOffline, ForwardTorn, AckTimeout,
         Release
    <3>3. raced[s] \subseteq raced'[s]
      BY <1>1, <3>2 DEF Mark, TypeOK
    <3> QED BY <1>4, <3>1, <3>3
  <2>2. CASE CreateSignal(r)
    <3>1. status[s] = "none" /\ status'[s] = "pending" /\ s \notin waiting /\ waiting' = waiting
      BY <1>1, <1>4, <2>2 DEF CreateSignal, TypeOK, Waits
    <3>2. PhaseOf(s) = "new" /\ PhaseOf(s)' = "queued"
      BY <1>4, <2>1, <3>1 DEF PhaseOf
    <3> QED BY <2>1, <3>2 DEF Kept, Move
  <2>3. CASE Expire(r)
    <3>1. status[s] = "pending" /\ status'[s] = "expired" /\ s \notin waiting /\ waiting' = waiting
      BY <1>1, <1>4, <2>3 DEF Expire, TypeOK, Waits
    <3>2. PhaseOf(s) = "queued" /\ PhaseOf(s)' = "dropped"
      BY <1>4, <2>1, <3>1 DEF PhaseOf
    <3> QED BY <2>1, <3>2 DEF Kept, Move
  <2>4. CASE Forward(r)
    <3>1. status[s] \in {"none", "pending"} /\ s \notin waiting /\ s \in waiting'
      BY <1>1, <1>4, <2>4 DEF Forward, Taken, TypeOK, Waits
    <3>2. PhaseOf(s) \in {"new", "queued"} /\ PhaseOf(s)' = "opening"
      BY <1>4, <2>1, <3>1 DEF PhaseOf
    <3> QED BY <2>1, <3>2 DEF Kept, Move
  <2>5. CASE ForwardOffline(r)
    <3>1. /\ status[s] \in {"none", "pending"} /\ status'[s] = "unknown"
          /\ s \notin waiting /\ waiting' = waiting
      BY <1>1, <1>4, <2>5 DEF ForwardOffline, TypeOK, Waits
    <3>2. PhaseOf(s) \in {"new", "queued"} /\ PhaseOf(s)' = "parked"
      BY <1>4, <2>1, <3>1 DEF PhaseOf
    <3> QED BY <2>1, <3>2 DEF Kept, Move
  <2>6. CASE ForwardTorn(r)
    <3>1. /\ status[s] \in {"none", "pending"} /\ status'[s] = "pending"
          /\ s \notin waiting /\ waiting' = waiting
      BY <1>1, <1>4, <2>6 DEF ForwardTorn, TypeOK, Waits
    <3>2. PhaseOf(s) \in {"new", "queued"} /\ PhaseOf(s)' = "queued"
      BY <1>4, <2>1, <3>1 DEF PhaseOf
    <3> QED BY <2>1, <3>2 DEF Kept, Move
  <2>7. CASE AckTimeout(r)
    <3>1. s \in waiting /\ s \notin waiting' /\ status'[s] = "unknown"
      BY <1>1, <1>4, <2>7 DEF AckTimeout, TypeOK
    <3>2. PhaseOf(s) = "opening" /\ PhaseOf(s)' = "parked"
      BY <1>4, <2>1, <3>1 DEF PhaseOf
    <3> QED BY <2>1, <3>2 DEF Kept, Move
  <2>8. CASE Release(r)
    BY <1>1, <1>4, <2>8 DEF Release, Mark, TypeOK
  <2> QED BY <2>2, <2>3, <2>4, <2>5, <2>6, <2>7, <2>8
<1> QED BY <1>2, <1>3, <1>4

\* An unmixed answer confirms what was executed and gives back what was not.
LEMMA ReadAckKept == ASSUME IInv, TypeOK', ReadAck, NEW s \in Signals PROVE Kept(s)
<1>1. /\ TypeOK /\ Waits /\ back # <<>> /\ 1 \in 1..Len(back) /\ Head(back) = back[1]
      /\ waiting' = {} /\ opened' = opened
  BY DEF IInv, TypeOK, ReadAck
<1>2. CASE raced'[s] # {}
  BY <1>1, <1>2, RacedKept
<1>3. CASE raced'[s] = {} /\ s \notin waiting
  <2>1. status'[s] = status[s] /\ raced'[s] = raced[s]
    BY <1>1, <1>3 DEF ReadAck, Mark, TypeOK
  <2> QED BY <1>1, <1>3, <2>1, StayKept
<1>4. CASE raced'[s] = {} /\ s \in waiting
  <2>1. raced[s] = {} /\ s = back[1].sig
    BY <1>1, <1>4 DEF ReadAck, Mark, TypeOK
  <2>2. opened[s] = IF back[1].ok THEN 1 ELSE 0
    BY <1>1, <2>1 DEF IInv, Honest
  <2>3. PhaseOf(s) = "opening"
    BY <1>4, <2>1 DEF PhaseOf
  <2>4. CASE back[1].ok
    <3>1. status'[s] = status[s] /\ status[s] \in {"activating", "active"}
      BY <1>1, <1>4, <2>4 DEF ReadAck, Waits
    <3>2. PhaseOf(s)' = "confirmed"
      BY <1>1, <1>4, <3>1 DEF PhaseOf
    <3> QED BY <1>1, <2>2, <2>3, <2>4, <3>2 DEF Kept, Move
  <2>5. CASE ~back[1].ok
    <3>1. status'[s] = "pending"
      BY <1>1, <1>4, <2>5 DEF ReadAck
    <3>2. PhaseOf(s)' = "queued"
      BY <1>1, <1>4, <3>1 DEF PhaseOf
    <3> QED BY <1>1, <2>2, <2>3, <2>5, <3>2 DEF Kept, Move
  <2> QED BY <2>4, <2>5
<1> QED BY <1>2, <1>3, <1>4

\* An execution fills the one order of a signal that is opening or parked.
LEMMA ExecuteKept ==
    ASSUME IInv, TypeOK', NEW c \in Conns, Execute(c), NEW s \in Signals
    PROVE  Kept(s)
<1>1. /\ TypeOK /\ serving[c] \in Signals
      /\ status' = status /\ waiting' = waiting /\ raced' = raced
      /\ opened' = [opened EXCEPT ![serving[c]] = @ + 1]
  BY DEF IInv, TypeOK, Execute, Answer
<1>2. CASE s # serving[c]
  BY <1>1, <1>2, StayKept DEF TypeOK
<1>3. CASE raced[s] # {}
  BY <1>1, <1>3, RacedKept
<1>4. CASE s = serving[c] /\ raced[s] = {}
  <2>1. OnTheWay(s)
    BY <1>4 DEF OnTheWay
  <2>2. Honest(s) /\ Stated(s)
    BY <1>4 DEF IInv
  <2>3. opened[s] = 0 /\ opened'[s] = 1
    BY <1>1, <1>4, <2>1, <2>2 DEF Honest, TypeOK
  <2>4. s \in waiting \/ status[s] = "unknown"
    BY <1>1, <2>1, <2>2, <2>3 DEF Stated, TypeOK, Statuses
  <2>5. PhaseOf(s) \in {"opening", "parked"} /\ PhaseOf(s)' = PhaseOf(s)
    BY <1>1, <1>4, <2>4 DEF PhaseOf
  <2> QED BY <2>3, <2>5 DEF Kept
<1> QED BY <1>2, <1>3, <1>4

\* Every step of the system is a step of each signal's contract.
LEMMA StepKept == ASSUME IInv, TypeOK', [Next]_vars, NEW s \in Signals PROVE Kept(s)
<1>1. TypeOK
  BY DEF IInv
<1>2. CASE Connect \/ Disconnect \/ VpsRestart
  BY <1>1, <1>2, StayKept DEF Connect, Disconnect, VpsRestart
<1>3. ASSUME NEW c \in Conns, Lose(c) \/ Serve(c) \/ Refuse(c) PROVE Kept(s)
  BY <1>1, <1>3, StayKept DEF Lose, Serve, Refuse, Answer
<1>4. ASSUME NEW c \in Conns, Execute(c) PROVE Kept(s)
  BY <1>4, ExecuteKept
<1>5. ASSUME NEW c \in Conns, Blur(c) PROVE Kept(s)
  <2>1. CASE s = serving[c]
    BY <1>1, <1>5, <2>1, RacedKept DEF Blur, Mark, TypeOK
  <2>2. CASE s # serving[c]
    <3>1. /\ status'[s] = status[s] /\ raced'[s] = raced[s] /\ opened'[s] = opened[s]
          /\ waiting' = waiting
      BY <1>1, <1>5, <2>2 DEF Blur, Mark, Answer, TypeOK
    <3> QED BY <1>1, <3>1, StayKept
  <2> QED BY <2>1, <2>2
<1>6. CASE ReadAck
  BY <1>6, ReadAckKept
<1>7. CASE Crash
  <2>1. CASE s \in waiting
    BY <1>1, <1>7, <2>1, RacedKept DEF Crash, Mark, TypeOK
  <2>2. CASE s \notin waiting
    <3>1. /\ status'[s] = status[s] /\ raced'[s] = raced[s] /\ opened'[s] = opened[s]
          /\ waiting' = {}
      BY <1>1, <1>7, <2>2 DEF Crash, Mark, TypeOK
    <3> QED BY <1>1, <2>2, <3>1, StayKept
  <2> QED BY <2>1, <2>2
<1>8. ASSUME NEW r \in Signals,
             \/ CreateSignal(r) \/ Expire(r) \/ Forward(r) \/ ForwardOffline(r)
             \/ ForwardTorn(r) \/ AckTimeout(r) \/ Release(r)
      PROVE  Kept(s)
  BY <1>8, MacKept
<1>9. CASE UNCHANGED vars
  BY <1>1, <1>9, StayKept DEF vars
<1> QED BY <1>2, <1>3, <1>4, <1>5, <1>6, <1>7, <1>8, <1>9 DEF Next

\* The steps of OrderForwarding, seen through PhaseOf, are steps of the contract.
LEMMA StepRefines == IInv /\ TypeOK' /\ [Next]_vars => [Contract!Next]_(Contract!vars)
<1> SUFFICES ASSUME IInv, TypeOK', [Next]_vars PROVE Contract!Next
    OBVIOUS
<1>1. \A s \in Signals : Kept(s)
  BY StepKept
<1>2. \A s \in Signals : PhaseOf(s)' \in Contract!Phases
  <2>1. \A s \in Signals : PhaseOf(s)' \in {"new", "queued", "opening", "confirmed",
                                            "parked", "dropped", "broken"}
    BY DEF PhaseOf, TypeOK, Statuses
  <2> QED BY <2>1 DEF Contract!Phases
<1>3. opened' \in [Signals -> Nat]
  BY DEF TypeOK
<1>4. ASSUME NEW s \in Signals
      PROVE  /\ PhaseOf(s) = "broken" => PhaseOf(s)' = "broken"
             /\ Contract!Step(s)
  BY <1>1, <1>3 DEF Kept, Move, Contract!Step, Contract!Queue, Contract!Begin, Contract!Park,
     Contract!Drop, Contract!GiveBack, Contract!Confirm, Contract!Fill, Contract!Break,
     Contract!Stay, Contract!Moves
<1> QED BY <1>2, <1>3, <1>4 DEF Contract!Next, Contract!Break

\* Forwarding implements SignalContract for every number of signals, sends,
\* connections and crashes: an open through the VPS is given back only
\* untraded, confirmed only traded, and otherwise parked for good.
THEOREM ForwardingRefines == Spec => ForwardingKeepsContract
<1>1. Init => Contract!Init
  BY DEF Init, Contract!Init, PhaseOf
<1>2. IInv => TypeOK
  BY DEF IInv
<1> QED
  BY <1>1, <1>2, InitInv, NextInv, StepRefines, PTL DEF Spec, ForwardingKeepsContract, Contract!Spec
=============================================================================
