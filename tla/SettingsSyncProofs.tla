-------------------------- MODULE SettingsSyncProofs --------------------------
(***************************************************************************)
(* Proofs about SettingsSync, for any number of keys, values, saves,       *)
(* connections and process deaths.                                         *)
(***************************************************************************)
EXTENDS SettingsSync, TLAPS

\* What Append does to a sequence.
LEMMA Appends ==
    ASSUME NEW S, NEW s \in Seq(S), NEW x \in S
    PROVE  /\ Append(s, x) \in Seq(S)
           /\ Len(Append(s, x)) = Len(s) + 1
           /\ Append(s, x)[Len(s) + 1] = x
           /\ \A i \in 1..Len(s) : Append(s, x)[i] = s[i]
  OBVIOUS

\* What Tail leaves of one.
LEMMA Tails ==
    ASSUME NEW S, NEW s \in Seq(S), s # <<>>
    PROVE  /\ Tail(s) \in Seq(S) /\ Head(s) \in S /\ Head(s) = s[1]
           /\ Len(s) \in Nat /\ Len(s) > 0 /\ Len(Tail(s)) = Len(s) - 1
           /\ \A i \in 1..Len(Tail(s)) : Tail(s)[i] = s[i + 1]
  OBVIOUS

\* Type correctness.
LEMMA InitTypes == Init => TypeOK
  <1> SUFFICES ASSUME Init PROVE TypeOK
    OBVIOUS
  <1> USE SyncAssumption DEF Init
  <1>1. NoUpdates \in Updates
    BY DEF NoUpdates, Updates
  <1>2. value \in [Nodes -> Tables]
    BY DEF Tables
  <1>3. raced \in [Keys -> SUBSET Races] /\ mine \in [Keys -> {"open", "held", "ceded"}]
    OBVIOUS
  <1>4. edits \in [Nodes -> SUBSET Edit]
    OBVIOUS
  <1>5. greeted \in BOOLEAN
    BY Zenon
  <1> QED BY <1>1, <1>2, <1>3, <1>4, <1>5 DEF TypeOK

\* A merged table is a table, a merged proposal a proposal.
LEMMA MergeTypes ==
    ASSUME NEW u \in Updates
    PROVE  /\ \A t \in Tables : Merge(t, u) \in Tables
           /\ \A t \in Updates : Merge(t, u) \in Updates
  BY DEF Merge, Tables, Updates

LEMMA MarkTypes ==
    ASSUME raced \in [Keys -> SUBSET Races], NEW r \in Races, NEW ks, Mark(r, ks)
    PROVE  /\ raced' \in [Keys -> SUBSET Races]
           /\ \A k \in Keys : raced[k] \subseteq raced'[k]
           /\ \A k \in Keys : k \in ks => r \in raced'[k]
  BY DEF Mark

LEMMA SaveRaces ==
    ASSUME TypeOK, NEW n \in Nodes, NEW t \in Threads, NEW k \in Keys, NEW v \in Values,
           Save(n, t, k, v)
    PROVE  /\ raced' \in [Keys -> SUBSET Races]
           /\ \A j \in Keys : raced[j] \subseteq raced'[j]
  <1>1. CASE n = "mac"
    <2> DEFINE new == (IF v \in UnderWay(k) THEN {"reused"} ELSE {})
                      \cup (IF \E e \in edits[n] : e.key = k THEN {"crossed"} ELSE {})
    <2>1. new \subseteq Races
      BY DEF Races
    <2>2. raced' = [raced EXCEPT ![k] = raced[k] \cup new]
      BY <1>1 DEF Save
    <2> HIDE DEF new
    <2> QED BY <2>1, <2>2 DEF TypeOK
  <1>2. CASE n # "mac"
    <2>1. Mark("reused", {k}) \/ raced' = raced
      BY <1>2 DEF Save
    <2> QED BY <2>1, MarkTypes DEF TypeOK, Races
  <1> QED BY <1>1, <1>2

LEMMA StepTypes == TypeOK /\ [Next]_vars => TypeOK'
  <1> SUFFICES ASSUME TypeOK, [Next]_vars PROVE TypeOK'
    OBVIOUS
  <1> USE SyncAssumption
  <1>0. NoUpdates \in Updates
    BY DEF NoUpdates, Updates
  <1>1. ASSUME NEW n \in Nodes, NEW t \in Threads, NEW k \in Keys, NEW v \in Values,
               Save(n, t, k, v)
        PROVE TypeOK'
    <2>1. value' \in [Nodes -> Tables]
      BY <1>1 DEF Save, TypeOK, Tables
    <2>2. edits' \in [Nodes -> SUBSET Edit]
      BY <1>1 DEF Save, TypeOK, Edit, Stages
    <2>3. want' \in Updates
      BY <1>1 DEF Save, TypeOK, Updates
    <2>4. mine' \in [Keys -> {"open", "held", "ceded"}]
      BY <1>1 DEF Save, TypeOK
    <2>5. raced' \in [Keys -> SUBSET Races]
      BY <1>1, SaveRaces
    <2>6. events' \in 0..MaxEvents
      BY <1>1 DEF Save, TypeOK
    <2> QED BY <1>1, <2>1, <2>2, <2>3, <2>4, <2>5, <2>6 DEF Save, TypeOK, linkVars
  <1>2. ASSUME NEW n \in Nodes, NEW e \in edits[n], Skip(n, e) PROVE TypeOK'
    <2>1. edits' \in [Nodes -> SUBSET Edit]
      BY <1>2 DEF Skip, TypeOK
    <2>2. raced' \in [Keys -> SUBSET Races]
      BY <1>2, MarkTypes DEF Skip, TypeOK, Races
    <2> QED BY <1>2, <2>1, <2>2 DEF Skip, TypeOK, linkVars
  <1>3. ASSUME NEW n \in Nodes, NEW e \in edits[n], NEW s \in Stages, MoveOn(n, e, s)
        PROVE TypeOK'
    <2>0. e \in Edit
      BY DEF TypeOK
    <2>3. [e EXCEPT !.at = s] \in Edit
      BY <2>0 DEF Edit
    <2>1. edits' \in [Nodes -> SUBSET Edit]
      BY <1>3, <2>3 DEF MoveOn, TypeOK
    <2> QED BY <1>3, <2>1 DEF MoveOn, TypeOK, linkVars, history
  <1>4. ASSUME NEW n \in Nodes, NEW e \in edits[n], Schedule(n, e) PROVE TypeOK'
    <2>1. edits' \in [Nodes -> SUBSET Edit] /\ e.key \in Keys /\ e.val \in Values
      BY <1>4 DEF Schedule, TypeOK, Edit
    <2>2. One(e.key, e.val) \in Updates
      BY <2>1, <1>0 DEF One, Updates
    <2>4. Append(todo, One(e.key, e.val)) \in Seq(Updates)
      BY <2>2, Appends DEF TypeOK
    <2>3. todo' \in Seq(Updates) /\ untold' \subseteq Keys
      <3>1. CASE n = "mac"
        BY <1>4, <2>4, <3>1 DEF Schedule, TypeOK
      <3>2. CASE n # "mac"
        BY <1>4, <3>2 DEF Schedule, TypeOK
      <3> QED BY <3>1, <3>2
    <2> QED BY <1>4, <2>1, <2>3 DEF Schedule, TypeOK, linkVars, history
  <1>5. CASE Propose
    <2>1. Head(todo) \in Updates /\ todo' \in Seq(Updates)
      BY <1>5 DEF Propose, TypeOK
    <2>2. pend' \in Updates
      BY <1>5, <2>1, MergeTypes DEF Propose, TypeOK
    <2>3. wire' \in [1..MaxConns -> Seq(Updates)]
      BY <1>5, <2>2 DEF Propose, TypeOK
    <2> QED BY <1>5, <2>1, <2>2, <2>3 DEF Propose, TypeOK, tables, linkVars, history
  <1>6. ASSUME back # <<>>, Mirror(Head(back).table)
        PROVE  value' \in [Nodes -> Tables] /\ raced' \in [Keys -> SUBSET Races]
    <2>0. Head(back) \in Frame
      BY <1>6 DEF TypeOK
    <2>1. Head(back).table \in Tables
      BY <2>0 DEF Frame
    <2>2. value' \in [Nodes -> Tables]
      BY <1>6, <2>1 DEF Mirror, TypeOK, Tables, Nodes
    <2>3. raced' \in [Keys -> SUBSET Races]
      BY <1>6, MarkTypes DEF Mirror, TypeOK, Races
    <2> QED BY <2>2, <2>3
  <1>7. CASE ReadWelcome
    <2>1. todo' \in Seq(Updates) /\ back' \in Seq(Frame)
      BY <1>0, <1>7 DEF ReadWelcome, TypeOK
    <2>2. greeted' \in BOOLEAN
      BY <1>7, Zenon DEF ReadWelcome
    <2> QED BY <1>6, <1>7, <2>1, <2>2 DEF ReadWelcome, TypeOK
  <1>8. CASE ReadState
    <2>1. back' \in Seq(Frame) /\ pend' \in Updates
      BY <1>8 DEF ReadState, TypeOK, Updates
    <2> QED BY <1>6, <1>8, <2>1 DEF ReadState, TypeOK, linkVars
  <1>9. ASSUME NEW c \in 1..MaxConns, Serve(c) PROVE TypeOK'
    <2>1. Head(wire[c]) \in Updates /\ wire' \in [1..MaxConns -> Seq(Updates)]
      BY <1>9 DEF Serve, TypeOK
    <2>2. value' \in [Nodes -> Tables]
      BY <1>9, <2>1, MergeTypes DEF Serve, TypeOK, Nodes
    <2>3. mine' \in [Keys -> {"open", "held", "ceded"}]
      BY <1>9 DEF Serve, TypeOK
    <2>4. raced' \in [Keys -> SUBSET Races]
      BY <1>9, MarkTypes DEF Serve, TypeOK, Races
    <2> QED BY <1>9, <2>1, <2>2, <2>3, <2>4 DEF Serve, TypeOK, linkVars
  <1>10. ASSUME Broadcast PROVE back' \in Seq(Frame) /\ untold' \subseteq Keys
    <2>1. [welcome |-> FALSE, table |-> value["vps"]] \in Frame
      BY DEF TypeOK, Nodes, Frame
    <2>2. CASE link = 0
      BY <1>10, <2>2 DEF Broadcast, TypeOK
    <2>3. CASE link # 0
      <3>1. Append(back, [welcome |-> FALSE, table |-> value["vps"]]) \in Seq(Frame)
        BY <2>1, Appends DEF TypeOK
      <3> QED BY <1>10, <2>3, <3>1 DEF Broadcast
    <2> QED BY <2>2, <2>3
  <1>11. CASE Answer
    <2>1. raced' \in [Keys -> SUBSET Races]
      BY <1>11, MarkTypes DEF Answer, TypeOK, Races
    <2> QED BY <1>0, <1>10, <1>11, <2>1 DEF Answer, TypeOK, tables, linkVars
  <1>12. ASSUME NEW c \in 1..MaxConns, Refuse(c) PROVE TypeOK'
    <2>1. wire' \in [1..MaxConns -> Seq(Updates)]
      BY <1>12 DEF Refuse, TypeOK
    <2>2. raced' \in [Keys -> SUBSET Races]
      BY <1>12, MarkTypes DEF Refuse, TypeOK, Races
    <2> QED BY <1>12, <2>1, <2>2 DEF Refuse, TypeOK, tables, linkVars
  <1>14. CASE Connect
    <2>1. [welcome |-> TRUE, table |-> value["vps"]] \in Frame
      BY DEF TypeOK, Nodes, Frame
    <2>2. greeted' \in BOOLEAN
      BY <1>14, Zenon DEF Connect
    <2>3. back' \in Seq(Frame)
      BY <1>14, <2>1 DEF Connect
    <2> QED BY <1>14, <2>2, <2>3 DEF Connect, TypeOK, tables, history
  <1>15. CASE Disconnect
    <2>1. greeted' \in BOOLEAN
      BY <1>15, Zenon DEF Disconnect
    <2> QED BY <1>15, <2>1 DEF Disconnect, TypeOK, tables, history
  <1>16. ASSUME NEW c \in 1..MaxConns, Lose(c) PROVE TypeOK'
    <2>1. wire' \in [1..MaxConns -> Seq(Updates)]
      BY <1>16 DEF Lose, TypeOK
    <2> QED BY <1>16, <2>1 DEF Lose, TypeOK, tables, linkVars, history
  <1>17. CASE MacRestart
    <2>1. edits' \in [Nodes -> SUBSET Edit]
      BY <1>17 DEF MacRestart, TypeOK
    <2>2. greeted' \in BOOLEAN
      BY <1>17, Zenon DEF MacRestart
    <2>3. raced' \in [Keys -> SUBSET Races]
      BY <1>17, MarkTypes DEF MacRestart, TypeOK, Races
    <2> QED BY <1>17, <2>1, <2>2, <2>3 DEF MacRestart, TypeOK
  <1>18. CASE VpsRestart
    <2>1. edits' \in [Nodes -> SUBSET Edit]
      BY <1>18 DEF VpsRestart, TypeOK
    <2>2. greeted' \in BOOLEAN
      BY <1>18, Zenon DEF VpsRestart
    <2> QED BY <1>0, <1>18, <2>1, <2>2 DEF VpsRestart, TypeOK, history
  <1>19. CASE UNCHANGED vars
    BY <1>19 DEF vars, TypeOK
  <1> QED BY <1>1, <1>2, <1>3, <1>4, <1>5, <1>7, <1>8, <1>9, <1>11, <1>12,
             <1>14, <1>15, <1>16, <1>17, <1>18, <1>19 DEF Next, Forward, Enter, Post, Stages

\* The tables, proposals, queues and connections always have the shape the
\* code gives them.
THEOREM SyncTypes == Spec => []TypeOK
  BY InitTypes, StepTypes, PTL DEF Spec

-----------------------------------------------------------------------------
(* Agreement                                                               *)

LastTodo(k, i) == todo[i][k] # None /\ \A j \in (i + 1)..Len(todo) : todo[j][k] = None

\* The Mac's table shows the newest value that is still to be proposed or
\* confirmed.
Shown(k) ==
    /\ \A e \in edits["mac"] : e.key = k => value["mac"][k] = e.val
    /\ ~Saving(k) => \A i \in 1..Len(todo) : LastTodo(k, i) => value["mac"][k] = todo[i][k]
    /\ ~Saving(k) /\ ~Queued(k) /\ pend[k] # None => value["mac"][k] = pend[k]

\* While the link is up, the VPS's value is on its way to the Mac, or will be
\* sent, or is there, unless it was saved on the VPS since.
Told(k) ==
    \/ k \in untold \/ owed[k] # None
    \/ back # <<>> /\ back[Len(back)].table[k] = value["vps"][k]
    \/ back = <<>> /\ (pend[k] # None \/ Unproposed(k) \/ value["mac"][k] = value["vps"][k])

Agreement == \A k \in Keys : Sound(k) => Shown(k) /\ (link # 0 => Told(k))

\* Races are not forgotten.
LEMMA RacesStay ==
    ASSUME TypeOK, [Next]_vars
    PROVE  \A k \in Keys : raced[k] \subseteq raced'[k]
  <1> USE DEF TypeOK, Races, history
  <1>1. ASSUME NEW n \in Nodes, NEW t \in Threads, NEW k \in Keys, NEW v \in Values,
               Save(n, t, k, v)
        PROVE \A j \in Keys : raced[j] \subseteq raced'[j]
    BY <1>1, SaveRaces
  <1>2. ASSUME NEW n \in Nodes, NEW e \in edits[n], Skip(n, e)
        PROVE \A j \in Keys : raced[j] \subseteq raced'[j]
    BY <1>2, MarkTypes DEF Skip
  <1>3. ASSUME NEW n \in Nodes, NEW e \in edits[n], Enter(n, e) \/ Post(n, e) \/ Schedule(n, e)
        PROVE \A j \in Keys : raced[j] \subseteq raced'[j]
    BY <1>3 DEF Enter, Post, MoveOn, Schedule
  <1>4. CASE Propose \/ Connect \/ Disconnect \/ VpsRestart
    BY <1>4 DEF Propose, Connect, Disconnect, VpsRestart
  <1>5. CASE ReadWelcome \/ ReadState
    BY <1>5, MarkTypes DEF ReadWelcome, ReadState, Mirror
  <1>6. ASSUME NEW c \in 1..MaxConns, Serve(c) \/ Refuse(c) \/ Lose(c)
        PROVE \A j \in Keys : raced[j] \subseteq raced'[j]
    BY <1>6, MarkTypes DEF Serve, Refuse, Lose
  <1>7. CASE Answer \/ MacRestart
    BY <1>7, MarkTypes DEF Answer, MacRestart
  <1>8. CASE UNCHANGED vars
    BY <1>8 DEF vars
  <1> QED BY <1>1, <1>2, <1>3, <1>4, <1>5, <1>6, <1>7, <1>8 DEF Next, Forward

\* What scheduling a call does to the newest entry for a key.
LEMMA TodoAppend ==
    ASSUME TypeOK, NEW u \in Updates, todo' = Append(todo, u), NEW k \in Keys
    PROVE  /\ u[k] = None => /\ Queued(k)' <=> Queued(k)
                             /\ \A i \in 1..Len(todo') :
                                   LastTodo(k, i)' => i \in 1..Len(todo) /\ LastTodo(k, i)
           /\ u[k] # None => /\ Queued(k)'
                             /\ \A i \in 1..Len(todo') : LastTodo(k, i)' => i = Len(todo) + 1
           /\ Len(todo') = Len(todo) + 1 /\ todo'[Len(todo) + 1] = u
           /\ \A i \in 1..Len(todo) : todo'[i] = todo[i]
  <1>1. /\ Len(todo') = Len(todo) + 1 /\ todo'[Len(todo) + 1] = u
        /\ \A i \in 1..Len(todo) : todo'[i] = todo[i]
        /\ Len(todo) \in Nat
    BY Appends DEF TypeOK
  <1>2. ASSUME NEW i \in 1..Len(todo'), i \in 1..Len(todo), LastTodo(k, i)'
        PROVE  u[k] = None /\ LastTodo(k, i)
    BY <1>1, <1>2 DEF LastTodo
  <1>3. ASSUME NEW i \in 1..Len(todo'), i \notin 1..Len(todo), LastTodo(k, i)'
        PROVE  i = Len(todo) + 1 /\ u[k] # None
    BY <1>1, <1>3 DEF LastTodo
  <1>4. u[k] = None => (Queued(k)' <=> Queued(k))
    BY <1>1 DEF Queued
  <1>5. u[k] # None => Queued(k)'
    BY <1>1 DEF Queued
  <1> QED BY <1>1, <1>2, <1>3, <1>4, <1>5

\* What running the first one does.
LEMMA TodoTail ==
    ASSUME TypeOK, todo # <<>>, todo' = Tail(todo), NEW k \in Keys
    PROVE  /\ Queued(k)' => Queued(k)
           /\ Queued(k) => Queued(k)' \/ Head(todo)[k] # None
           /\ \A i \in 1..Len(todo') : LastTodo(k, i)' =>
                  /\ i + 1 \in 1..Len(todo) /\ LastTodo(k, i + 1)
                  /\ todo'[i] = todo[i + 1]
           /\ ~Queued(k)' /\ Head(todo)[k] # None =>
                  /\ 1 \in 1..Len(todo) /\ LastTodo(k, 1) /\ todo[1] = Head(todo)
           /\ \A i \in 1..Len(todo') : i + 1 \in 1..Len(todo) /\ todo'[i] = todo[i + 1]
  <1>1. /\ Head(todo) = todo[1] /\ Len(todo) \in Nat /\ Len(todo) > 0
        /\ Len(todo') = Len(todo) - 1
        /\ \A i \in 1..Len(todo') : todo'[i] = todo[i + 1]
    BY Tails DEF TypeOK
  <1>2. Queued(k)' => Queued(k)
    BY <1>1 DEF Queued
  <1>3. ASSUME NEW i \in 1..Len(todo), i # 1
        PROVE  i - 1 \in 1..Len(todo') /\ todo'[i - 1] = todo[i]
    BY <1>1, <1>3
  <1>4. Queued(k) => Queued(k)' \/ Head(todo)[k] # None
    BY <1>1, <1>3 DEF Queued
  <1>5. ASSUME NEW i \in 1..Len(todo'), LastTodo(k, i)'
        PROVE  LastTodo(k, i + 1)
    <2>1. \A j \in (i + 2)..Len(todo) : todo[j][k] = None
      <3> TAKE j \in (i + 2)..Len(todo)
      <3>1. j - 1 \in (i + 1)..Len(todo') /\ todo'[j - 1] = todo[j]
        BY <1>1, <1>3
      <3> QED BY <3>1, <1>5 DEF LastTodo
    <2> QED BY <1>1, <1>5, <2>1 DEF LastTodo
  <1>6. ~Queued(k)' /\ Head(todo)[k] # None => LastTodo(k, 1)
    <2> SUFFICES ASSUME ~Queued(k)', Head(todo)[k] # None PROVE LastTodo(k, 1)
      OBVIOUS
    <2>1. \A j \in 2..Len(todo) : todo[j][k] = None
      <3> TAKE j \in 2..Len(todo)
      <3>1. j - 1 \in 1..Len(todo') /\ todo'[j - 1] = todo[j]
        BY <1>1, <1>3
      <3> QED BY <3>1 DEF Queued
    <2> QED BY <1>1, <2>1 DEF LastTodo
  <1> QED BY <1>1, <1>2, <1>4, <1>5, <1>6

LEMMA InitAgreement == Init => Agreement
  BY DEF Init, Agreement, Shown, Saving, LastTodo, NoUpdates, Nodes

\* Copying the VPS's table, for a key whose saves it does not run over.
LEMMA MirrorCopies ==
    ASSUME TypeOK, back # <<>>, Mirror(Head(back).table), NEW k \in Keys, Sound(k)'
    PROVE  /\ pend[k] = None => value'["mac"][k] = Head(back).table[k] /\ ~Unproposed(k)
           /\ pend[k] # None => value'["mac"][k] = value["mac"][k]
           /\ value'["vps"] = value["vps"]
  <1>1. pend[k] = None => ~Unproposed(k)
    <2> SUFFICES ASSUME pend[k] = None, Unproposed(k) PROVE FALSE
      OBVIOUS
    <2> DEFINE ks == {j \in {i \in Keys : pend[i] = None} : Unproposed(j)}
    <2>1. Mark("mirrored", ks) /\ k \in ks
      BY DEF Mirror
    <2>2. "mirrored" \in raced'[k]
      BY <2>1, MarkTypes DEF TypeOK, Races
    <2> QED BY <2>2 DEF Sound
  <1> QED BY <1>1 DEF Mirror, TypeOK, Nodes, Tables

LEMMA StepShown ==
    ASSUME TypeOK, TypeOK', Agreement, [Next]_vars, NEW k \in Keys, Sound(k)'
    PROVE  Shown(k)'
  <1> USE SyncAssumption
  <1>0. Sound(k) /\ Shown(k) /\ (link # 0 => Told(k))
    BY RacesStay DEF Sound, Agreement
  <1>a. ASSUME UNCHANGED <<edits, todo, pend>>, value'["mac"] = value["mac"]
        PROVE Shown(k)'
    BY <1>0, <1>a DEF Shown, Saving, Queued, LastTodo
  <1>1. ASSUME NEW n \in Nodes, NEW t \in Threads, NEW j \in Keys, NEW v \in Values,
               Save(n, t, j, v)
        PROVE Shown(k)'
    <2>1. todo' = todo /\ pend' = pend
      BY <1>1 DEF Save
    <2>2. CASE n = "vps"
      BY <1>0, <1>1, <2>1, <2>2 DEF Save, Shown, Saving, Queued, LastTodo, TypeOK, Nodes
    <2>3. CASE n = "mac" /\ j = k
      <3>1. \A e \in edits["mac"] : e.key # k
        <4> SUFFICES ASSUME NEW e \in edits["mac"], e.key = k PROVE FALSE
          OBVIOUS
        <4>1. raced' = [raced EXCEPT ![k] = raced[k]
                   \cup (IF v \in UnderWay(k) THEN {"reused"} ELSE {})
                   \cup (IF \E f \in edits["mac"] : f.key = k THEN {"crossed"} ELSE {})]
          BY <1>1, <2>3 DEF Save
        <4>2. "crossed" \in raced'[k]
          BY <4>1 DEF TypeOK
        <4> QED BY <4>2 DEF Sound
      <3>2. edits'["mac"] = edits["mac"] \cup
                               {[by |-> t, key |-> k, val |-> v, at |-> "saved"]}
            /\ value'["mac"][k] = v
        BY <1>1, <2>3 DEF Save, TypeOK, Nodes, Tables
      <3>3. Saving(k)'
        <4>1. [by |-> t, key |-> k, val |-> v, at |-> "saved"] \in edits'["mac"]
          BY <3>2
        <4> QED BY <4>1 DEF Saving
      <3>4. \A e \in edits'["mac"] : e.key = k => e.val = v
        BY <3>1, <3>2
      <3> QED BY <3>2, <3>3, <3>4 DEF Shown
    <2>4. CASE n = "mac" /\ j # k
      <3>1. edits'["mac"] = edits["mac"] \cup
                               {[by |-> t, key |-> j, val |-> v, at |-> "saved"]}
            /\ value'["mac"][k] = value["mac"][k]
        BY <1>1, <2>4 DEF Save, TypeOK, Nodes, Tables
      <3> QED BY <1>0, <2>1, <2>4, <3>1 DEF Shown, Saving, Queued, LastTodo
    <2> QED BY <2>2, <2>3, <2>4 DEF Nodes
  <1>2. ASSUME NEW n \in Nodes, NEW e \in edits[n], Skip(n, e) PROVE Shown(k)'
    <2>1. n = "mac" => e.key # k
      BY <1>2, MarkTypes DEF Skip, Sound, TypeOK, Races
    <2>2. todo' = todo /\ pend' = pend /\ value' = value
      BY <1>2 DEF Skip
    <2>3. \A f : f.key = k => (f \in edits'["mac"] <=> f \in edits["mac"])
      BY <1>2, <2>1 DEF Skip, TypeOK, Nodes
    <2> QED BY <1>0, <2>2, <2>3 DEF Shown, Saving, Queued, LastTodo
  <1>3. ASSUME NEW n \in Nodes, NEW e \in edits[n], NEW s \in Stages, MoveOn(n, e, s)
        PROVE Shown(k)'
    <2>1. todo' = todo /\ pend' = pend /\ value' = value
      BY <1>3 DEF MoveOn
    <2> DEFINE d == [e EXCEPT !.at = s]
    <2>2. d.key = e.key /\ d.val = e.val
      BY DEF TypeOK, Edit
    <2>3. CASE n = "vps"
      BY <1>0, <1>3, <2>1, <2>3 DEF MoveOn, Shown, Saving, Queued, LastTodo, TypeOK, Nodes
    <2>4. CASE n = "mac"
      <3>1. edits'["mac"] = (edits["mac"] \ {e}) \cup {d} /\ e \in edits["mac"]
        BY <1>3, <2>4 DEF MoveOn, TypeOK, Nodes
      <3> HIDE DEF d
      <3>2. Saving(k)' <=> Saving(k)
        BY <2>2, <3>1 DEF Saving
      <3> QED BY <1>0, <2>1, <2>2, <3>1, <3>2 DEF Shown, Queued, LastTodo
    <2> QED BY <2>3, <2>4 DEF Nodes
  <1>4. ASSUME NEW n \in Nodes, NEW e \in edits[n], Schedule(n, e) PROVE Shown(k)'
    <2>1. pend' = pend /\ value' = value
      BY <1>4 DEF Schedule
    <2>2. CASE n = "vps"
      BY <1>0, <1>4, <2>1, <2>2 DEF Schedule, Shown, Saving, Queued, LastTodo, TypeOK, Nodes
    <2>3. CASE n = "mac"
      <3>1. edits'["mac"] = edits["mac"] \ {e} /\ e \in edits["mac"]
            /\ todo' = Append(todo, One(e.key, e.val))
        BY <1>4, <2>3 DEF Schedule, TypeOK, Nodes
      <3>2. e.key \in Keys /\ e.val \in Values
        BY DEF TypeOK, Edit
      <3>3. One(e.key, e.val) \in Updates
            /\ One(e.key, e.val)[k] = IF e.key = k THEN e.val ELSE None
        BY <3>2 DEF One, NoUpdates, Updates
      <3>4. CASE e.key = k
        <4>1. value["mac"][k] = e.val
          BY <1>0, <3>1, <3>4 DEF Shown
        <4>2. One(e.key, e.val)[k] = e.val /\ One(e.key, e.val)[k] # None
          BY <3>2, <3>3, <3>4
        <4> QED BY <1>0, <2>1, <3>1, <3>3, <4>1, <4>2, TodoAppend DEF Shown, Saving
      <3>5. CASE e.key # k
        <4>1. Saving(k)' <=> Saving(k)
          BY <3>1, <3>5 DEF Saving
        <4>2. One(e.key, e.val)[k] = None
          BY <3>3, <3>5
        <4> QED BY <1>0, <2>1, <3>1, <3>3, <4>1, <4>2, TodoAppend DEF Shown
      <3> QED BY <3>4, <3>5
    <2> QED BY <2>2, <2>3 DEF Nodes
  <1>5. CASE Propose
    <2>1. /\ todo # <<>> /\ todo' = Tail(todo) /\ edits' = edits /\ value' = value
          /\ pend'[k] = IF Head(todo)[k] = None THEN pend[k] ELSE Head(todo)[k]
      BY <1>5 DEF Propose, Merge, tables
    <2>2. Saving(k)' <=> Saving(k)
      BY <2>1 DEF Saving
    <2> QED BY <1>0, <2>1, <2>2, TodoTail DEF Shown
  <1>7. CASE ReadWelcome
    <2>1. edits' = edits /\ pend' = pend /\ back # <<>> /\ Mirror(Head(back).table)
      BY <1>7 DEF ReadWelcome
    <2>2. Saving(k)' <=> Saving(k)
      BY <2>1 DEF Saving
    <2>3. NoUpdates \in Updates /\ NoUpdates[k] = None
      BY DEF NoUpdates, Updates
    <2>4. (Queued(k)' <=> Queued(k))
          /\ \A i \in 1..Len(todo') : LastTodo(k, i)' =>
                i \in 1..Len(todo) /\ LastTodo(k, i) /\ todo'[i] = todo[i]
      <3>1. CASE todo' = todo
        BY <3>1 DEF Queued, LastTodo
      <3>2. CASE todo' = Append(todo, NoUpdates)
        BY <2>3, <3>2, TodoAppend
      <3> QED BY <1>7, <3>1, <3>2 DEF ReadWelcome
    <2>5. pend[k] = None => ~Saving(k) /\ ~Queued(k)
      BY <2>1, MirrorCopies DEF Unproposed
    <2>6. \A i \in 1..Len(todo) : LastTodo(k, i) => Queued(k)
      BY DEF LastTodo, Queued
    <2> QED BY <1>0, <2>1, <2>2, <2>4, <2>5, <2>6, MirrorCopies DEF Shown, Saving
  <1>8. CASE ReadState
    <2>1. edits' = edits /\ todo' = todo /\ back # <<>> /\ Mirror(Head(back).table)
          /\ pend'[k] = IF pend[k] = Head(back).table[k] THEN None ELSE pend[k]
      BY <1>8 DEF ReadState
    <2>2. (Saving(k)' <=> Saving(k)) /\ (Queued(k)' <=> Queued(k))
          /\ \A i \in 1..Len(todo') : LastTodo(k, i)' <=> LastTodo(k, i)
      BY <2>1 DEF Saving, Queued, LastTodo
    <2>5. pend[k] = None => ~Saving(k) /\ ~Queued(k)
      BY <2>1, MirrorCopies DEF Unproposed
    <2>6. \A i \in 1..Len(todo) : LastTodo(k, i) => Queued(k)
      BY DEF LastTodo, Queued
    <2> QED BY <1>0, <2>1, <2>2, <2>5, <2>6, MirrorCopies DEF Shown, Saving
  <1>9. ASSUME NEW c \in 1..MaxConns, Serve(c) \/ Refuse(c) \/ Lose(c) PROVE Shown(k)'
    <2>1. UNCHANGED <<edits, todo, pend>> /\ value'["mac"] = value["mac"]
      BY <1>9 DEF Serve, Refuse, Lose, tables, TypeOK, Nodes
    <2> QED BY <1>a, <2>1
  <1>10. CASE Answer \/ Connect \/ Disconnect
    BY <1>a, <1>10 DEF Answer, Connect, Disconnect, tables
  <1>11. CASE MacRestart
    <2>1. ~Unproposed(k)
      <3> SUFFICES ASSUME Unproposed(k) PROVE FALSE
        OBVIOUS
      <3> DEFINE ks == {j \in Keys : Unproposed(j)}
      <3>1. Mark("unsaved", ks) /\ k \in ks
        BY <1>11 DEF MacRestart
      <3>2. "unsaved" \in raced'[k]
        BY <3>1, MarkTypes DEF TypeOK, Races
      <3> QED BY <3>2 DEF Sound
    <2>2. edits'["mac"] = {} /\ todo' = <<>> /\ pend' = pend /\ value' = value
      BY <1>11 DEF MacRestart, TypeOK, Nodes
    <2> QED BY <1>0, <2>1, <2>2 DEF Shown, Unproposed, Saving, Queued
  <1>12. CASE VpsRestart
    BY <1>0, <1>12 DEF VpsRestart, Shown, Saving, Queued, LastTodo, TypeOK, Nodes
  <1>13. CASE UNCHANGED vars
    BY <1>a, <1>13 DEF vars
  <1> QED BY <1>1, <1>2, <1>3, <1>4, <1>5, <1>7, <1>8, <1>9, <1>10, <1>11, <1>12,
             <1>13 DEF Next, Forward, Enter, Post, Stages

LEMMA StepTold ==
    ASSUME TypeOK, TypeOK', Agreement, [Next]_vars, NEW k \in Keys, Sound(k)', link' # 0
    PROVE  Told(k)'
  <1> USE SyncAssumption
  <1>0. Sound(k) /\ Shown(k) /\ (link # 0 => Told(k))
    BY RacesStay DEF Sound, Agreement
  <1>a. ASSUME link' = link, UNCHANGED <<value, edits, untold, owed, back>>,
               pend[k] # None => pend'[k] # None,
               Queued(k) => Queued(k)' \/ pend'[k] # None
        PROVE  Told(k)'
    BY <1>0, <1>a DEF Told, Unproposed, Saving
  <1>b. ASSUME Broadcast, value' = value, link' = link PROVE Told(k)'
    <2>1. back' = Append(back, [welcome |-> FALSE, table |-> value["vps"]])
      BY <1>b DEF Broadcast
    <2>2. [welcome |-> FALSE, table |-> value["vps"]] \in Frame
      BY DEF TypeOK, Frame, Nodes
    <2>3. back' # <<>> /\ back'[Len(back')].table = value["vps"]
      <3> DEFINE new == [welcome |-> FALSE, table |-> value["vps"]]
      <3>1. new.table = value["vps"]
        OBVIOUS
      <3> HIDE DEF new
      <3>2. back \in Seq(Frame) /\ new \in Frame /\ back' = Append(back, new)
        BY <2>1, <2>2 DEF TypeOK, new
      <3>3. back'[Len(back')] = new /\ Len(back') = Len(back) + 1 /\ Len(back) \in Nat
        BY <3>2, Appends
      <3>4. back' # <<>>
        BY <3>3
      <3> QED BY <3>1, <3>3, <3>4
    <2> QED BY <1>b, <2>3 DEF Told
  <1>1. ASSUME NEW n \in Nodes, NEW t \in Threads, NEW j \in Keys, NEW v \in Values,
               Save(n, t, j, v)
        PROVE Told(k)'
    <2> DEFINE new == [by |-> t, key |-> j, val |-> v, at |-> "saved"]
    <2>a. /\ UNCHANGED <<todo, pend, back, owed, link>>
          /\ untold' = IF n = "vps" THEN untold \cup {j} ELSE untold
      BY <1>1 DEF Save, linkVars
    <2>b. edits'[n] = edits[n] \cup {new} /\ new.key = j
      BY <1>1 DEF Save, TypeOK
    <2>1. /\ UNCHANGED <<todo, pend, back, owed, link>>
          /\ untold' = IF n = "vps" THEN untold \cup {j} ELSE untold
          /\ edits'[n] = edits[n] \cup {new}
          /\ new.key = j
      BY <2>a, <2>b
    <2> HIDE DEF new
    <2>2. CASE n = "vps"
      <3>1. CASE j = k
        BY <2>1, <2>2, <3>1 DEF Told
      <3>2. CASE j # k
        <4>1. value'["vps"][k] = value["vps"][k] /\ value'["mac"] = value["mac"]
              /\ edits'["mac"] = edits["mac"]
          BY <1>1, <2>2, <3>2 DEF Save, TypeOK, Nodes, Tables
        <4> QED BY <1>0, <2>1, <2>2, <4>1 DEF Told, Unproposed, Saving, Queued
      <3> QED BY <3>1, <3>2
    <2>3. CASE n = "mac"
      <3>1. value'["vps"] = value["vps"] /\ edits'["vps"] = edits["vps"]
            /\ (j # k => value'["mac"][k] = value["mac"][k])
        BY <1>1, <2>3 DEF Save, TypeOK, Nodes, Tables
      <3>2. j = k => Unproposed(k)'
        BY <2>1, <2>3 DEF Unproposed, Saving
      <3>3. Unproposed(k) => Unproposed(k)'
        BY <2>1, <2>3 DEF Unproposed, Saving, Queued
      <3> QED BY <1>0, <2>1, <3>1, <3>2, <3>3 DEF Told
    <2> QED BY <2>2, <2>3 DEF Nodes
  <1>2. ASSUME NEW n \in Nodes, NEW e \in edits[n], Skip(n, e) PROVE Told(k)'
    <2>1. n = "mac" => e.key # k
      BY <1>2, MarkTypes DEF Skip, Sound, TypeOK, Races
    <2>2. UNCHANGED <<todo, pend, value, untold, back, owed, link>>
      BY <1>2 DEF Skip, linkVars
    <2>3. \A f : f.key = k => (f \in edits'["mac"] <=> f \in edits["mac"])
      BY <1>2, <2>1 DEF Skip, TypeOK, Nodes
    <2> QED BY <1>0, <2>2, <2>3 DEF Told, Unproposed, Saving, Queued, Nodes
  <1>3. ASSUME NEW n \in Nodes, NEW e \in edits[n], NEW s \in Stages, MoveOn(n, e, s)
        PROVE Told(k)'
    <2> DEFINE d == [e EXCEPT !.at = s]
    <2>1. UNCHANGED <<todo, pend, value, untold, back, owed, link>>
      BY <1>3 DEF MoveOn, linkVars
    <2>2. d.key = e.key
      BY DEF TypeOK, Edit
    <2>3. edits' = [edits EXCEPT ![n] = (edits[n] \ {e}) \cup {d}] /\ e \in edits[n]
      BY <1>3 DEF MoveOn
    <2> HIDE DEF d
    <2>4. \A m \in Nodes : (\E f \in edits[m] : f.key = k) => \E f \in edits'[m] : f.key = k
      BY <2>2, <2>3 DEF TypeOK
    <2> QED BY <1>0, <2>1, <2>4 DEF Told, Unproposed, Saving, Queued, Nodes
  <1>4. ASSUME NEW n \in Nodes, NEW e \in edits[n], Schedule(n, e) PROVE Told(k)'
    <2>1. CASE n = "vps"
      <3>1. /\ UNCHANGED <<pend, todo, value, untold, back, owed, link>>
            /\ edits'["mac"] = edits["mac"]
        BY <1>4, <2>1 DEF Schedule, linkVars, TypeOK, Nodes
      <3> QED BY <1>0, <3>1 DEF Told, Unproposed, Saving, Queued
    <2>2. CASE n = "mac"
      <3>1. /\ UNCHANGED <<pend, value, untold, back, owed, link>>
            /\ todo' = Append(todo, One(e.key, e.val))
            /\ edits'["vps"] = edits["vps"] /\ edits'["mac"] = edits["mac"] \ {e}
        BY <1>4, <2>2 DEF Schedule, linkVars, TypeOK, Nodes
      <3>2. e.key \in Keys /\ e.val \in Values
        BY DEF TypeOK, Edit
      <3>3. One(e.key, e.val) \in Updates
            /\ One(e.key, e.val)[k] = IF e.key = k THEN e.val ELSE None
        BY <3>2 DEF One, NoUpdates, Updates
      <3>4. Saving(k) => Saving(k)' \/ e.key = k
        BY <3>1 DEF Saving
      <3>5. e.key = k => Queued(k)'
        BY <3>1, <3>2, <3>3, TodoAppend
      <3>6. Queued(k) => Queued(k)'
        BY <3>1, <3>3, TodoAppend
      <3> QED BY <1>0, <3>1, <3>4, <3>5, <3>6 DEF Told, Unproposed
    <2> QED BY <2>1, <2>2 DEF Nodes
  <1>5. CASE Propose
    <2>1. /\ todo # <<>> /\ todo' = Tail(todo)
          /\ UNCHANGED <<value, edits, untold, owed, back, link>>
          /\ pend'[k] = IF Head(todo)[k] = None THEN pend[k] ELSE Head(todo)[k]
      BY <1>5 DEF Propose, Merge, tables, linkVars
    <2>2. Queued(k) => Queued(k)' \/ pend'[k] # None
      BY <2>1, TodoTail
    <2> QED BY <1>a, <2>1, <2>2
  <1>6. CASE ReadWelcome \/ ReadState
    <2>1. /\ back # <<>> /\ back' = Tail(back) /\ Mirror(Head(back).table)
          /\ UNCHANGED <<edits, untold, owed, link>>
          /\ \/ pend' = pend
             \/ pend'[k] = IF pend[k] = Head(back).table[k] THEN None ELSE pend[k]
      BY <1>6 DEF ReadWelcome, ReadState, linkVars
    <2>2. CASE back' # <<>>
      <3>1. back'[Len(back')] = back[Len(back)]
        BY <2>1, <2>2 DEF TypeOK
      <3> QED BY <1>0, <2>1, <2>2, <3>1, MirrorCopies DEF Told
    <2>3. CASE back' = <<>>
      <3>1. Head(back) = back[Len(back)]
        <4>1. Len(Tail(back)) = Len(back) - 1 /\ Head(back) = back[1] /\ Len(back) \in Nat
          BY <2>1, Tails DEF TypeOK
        <4>2. Tail(back) = <<>>
          BY <2>1, <2>3
        <4>3. Len(back) = 1
          <5>1. \A s : s = <<>> => Len(s) = 0
            OBVIOUS
          <5>2. Len(Tail(back)) = 0
            BY <4>2, <5>1
          <5> QED BY <4>1, <5>2
        <4> QED BY <4>1, <4>3
      <3>2. Saving(k)' <=> Saving(k)
        BY <2>1 DEF Saving
      <3>3. Queued(k) => Queued(k)'
        <4>1. todo' = todo \/ todo' = Append(todo, NoUpdates)
          BY <1>6 DEF ReadWelcome, ReadState
        <4>2. NoUpdates \in Updates /\ NoUpdates[k] = None
          BY DEF NoUpdates, Updates
        <4> QED BY <4>1, <4>2, TodoAppend DEF Queued
      <3>4. pend[k] # None /\ ~Unproposed(k) => value["mac"][k] = pend[k]
        BY <1>0 DEF Shown, Unproposed
      <3> QED BY <1>0, <2>1, <2>3, <3>1, <3>2, <3>3, <3>4, MirrorCopies
              DEF Told, Unproposed
    <2> QED BY <2>2, <2>3
  <1>7. ASSUME NEW c \in 1..MaxConns, Serve(c) PROVE Told(k)'
    <2>1. /\ UNCHANGED <<edits, pend, todo, untold, back, link>>
          /\ owed = NoUpdates /\ owed' = Head(wire[c])
          /\ value'["mac"] = value["mac"]
          /\ value'["vps"][k] = IF Head(wire[c])[k] = None THEN value["vps"][k]
                                ELSE Head(wire[c])[k]
      BY <1>7 DEF Serve, LoopFree, Merge, linkVars, TypeOK, Nodes
    <2>2. owed[k] = None
      BY <2>1 DEF NoUpdates
    <2> QED BY <1>0, <2>1, <2>2 DEF Told, Unproposed, Saving, Queued
  <1>8. CASE Answer
    BY <1>b, <1>8 DEF Answer, tables, linkVars
  <1>9. ASSUME NEW c \in 1..MaxConns, Refuse(c) \/ Lose(c) PROVE Told(k)'
    <2>1. link' = link /\ UNCHANGED <<value, edits, untold, owed, back, pend, todo>>
      BY <1>9 DEF Refuse, Lose, tables, linkVars
    <2> QED BY <1>a, <2>1 DEF Queued
  <1>10. CASE Connect
    <2>1. back' = <<[welcome |-> TRUE, table |-> value["vps"]]>> /\ value' = value
      BY <1>10 DEF Connect, tables
    <2>2. back' # <<>> /\ back'[Len(back')].table = value["vps"]
      BY <2>1
    <2> QED BY <2>1, <2>2 DEF Told
  <1>11. CASE Disconnect \/ MacRestart \/ VpsRestart
    BY <1>11 DEF Disconnect, MacRestart, VpsRestart
  <1>12. CASE UNCHANGED vars
    BY <1>a, <1>12 DEF vars, Queued
  <1> QED BY <1>1, <1>2, <1>3, <1>4, <1>5, <1>6, <1>7, <1>8, <1>9, <1>10, <1>11,
             <1>12 DEF Next, Forward, Enter, Post, Stages

\* Once nothing is under way, both nodes have the same settings, except what the
\* VPS has saved since it last sent its table, whatever the number of keys, saves
\* and connections.
THEOREM SyncAgreement == Spec => []NodesAgree
  <1>1. Init => TypeOK /\ Agreement
    BY InitTypes, InitAgreement
  <1>2. TypeOK /\ Agreement /\ [Next]_vars => (TypeOK /\ Agreement)'
    <2> SUFFICES ASSUME TypeOK, Agreement, [Next]_vars PROVE (TypeOK /\ Agreement)'
      OBVIOUS
    <2>1. TypeOK'
      BY StepTypes
    <2> QED BY <2>1, StepShown, StepTold DEF Agreement
  <1>3. TypeOK /\ Agreement => NodesAgree
    <2> SUFFICES ASSUME TypeOK, Agreement, Quiet, NEW k \in Keys, pend[k] = None, Sound(k),
                        k \notin untold
                 PROVE  value["mac"][k] = value["vps"][k]
      BY DEF NodesAgree
    <2>1. ~Unproposed(k)
      BY DEF Quiet, Unproposed, Saving, Queued, Nodes
    <2>2. owed[k] = None
      BY DEF Quiet, NoUpdates
    <2>3. Told(k)
      BY DEF Agreement, Quiet
    <2> QED BY <2>1, <2>2, <2>3 DEF Told, Quiet, Nodes
  <1> QED BY <1>1, <1>2, <1>3, PTL DEF Spec

-----------------------------------------------------------------------------
(* The newest edit                                                         *)

\* Where the Mac's newest save of k is: with its thread, else the last of the
\* scheduled calls, else among the unconfirmed.
Carried(k) ==
    /\ \A e, f \in edits["mac"] : e.key = k /\ f.key = k => e = f
    /\ \A e \in edits["mac"] : e.key = k => e.val = want[k]
    /\ ~Saving(k) => \A i \in 1..Len(todo) : LastTodo(k, i) => todo[i][k] = want[k]
    /\ \A i \in 1..Len(todo) :
           todo[i][k] # None /\ todo[i][k] = want[k] => ~Saving(k) /\ LastTodo(k, i)
    /\ Unproposed(k) => mine[k] = "open" /\ pend[k] # want[k]
    /\ ~Unproposed(k) => /\ pend[k] \in {None, want[k]}
                         /\ mine[k] = "open" => pend[k] = want[k]

\* The frames of c say nothing older about k.
Current(k, c) == \A i \in 1..Len(wire[c]) : wire[c][i][k] \in {None, want[k]}

\* Nothing older follows the newest save to the VPS, on its connection or on a
\* later one.
Sent(k) ==
    /\ Unproposed(k) => \A c \in 1..MaxConns : \A i \in 1..Len(wire[c]) : wire[c][i][k] # want[k]
    /\ made > 0 => \A i, j \in 1..Len(wire[made]) :
           i < j /\ wire[made][i][k] # None /\ wire[made][i][k] = want[k]
               => wire[made][j][k] \in {None, want[k]}
    /\ \A c \in 1..MaxConns : \A i \in 1..Len(wire[c]) :
           c < made /\ wire[c][i][k] # None /\ wire[c][i][k] = want[k] => Current(k, made)
    /\ made > 0 /\ mine[k] # "open" => Current(k, made)

\* What the VPS has and has sent of it.
Seen(k) ==
    /\ mine[k] = "open" => /\ want[k] # None /\ value["vps"][k] # want[k]
                           /\ \A i \in 1..Len(back) : back[i].table[k] # want[k]
    /\ mine[k] = "held" => value["vps"][k] = want[k]

Stands(k) == Carried(k) /\ Sent(k) /\ Seen(k)
Edits == /\ \A k \in Keys : Kept(k) => Stands(k)
         /\ \A c \in 1..MaxConns : c > made => wire[c] = <<>>

LEMMA InitEdits == Init => Edits
  <1> SUFFICES ASSUME Init PROVE Edits
    OBVIOUS
  <1> USE DEF Init
  <1>1. ASSUME NEW k \in Keys PROVE Carried(k) /\ Seen(k)
    BY DEF Carried, Seen, Saving, Queued, Unproposed, NoUpdates, Nodes
  <1>2. ASSUME NEW k \in Keys PROVE Sent(k)
    BY <1>1 DEF Sent, Carried, Unproposed, Saving, Queued, Nodes
  <1> QED BY <1>1, <1>2 DEF Edits, Stands

\* Reading or losing frames keeps them in order.
LEMMA SentShrinks ==
    ASSUME TypeOK, NEW k \in Keys, Sent(k),
           made' = made, want'[k] = want[k], Unproposed(k)' => Unproposed(k),
           \A c \in 1..MaxConns : \/ wire'[c] = <<>> \/ wire'[c] = wire[c]
                                  \/ wire[c] # <<>> /\ wire'[c] = Tail(wire[c]),
           made > 0 /\ mine'[k] # "open" => mine[k] # "open" \/ Current(k, made)'
    PROVE  Sent(k)'
  <1> USE SyncAssumption
  <1>1. ASSUME NEW c \in 1..MaxConns
        PROVE  \E d \in {0, 1} : \A i \in 1..Len(wire'[c]) :
                   i + d \in 1..Len(wire[c]) /\ wire'[c][i] = wire[c][i + d]
    <2>1. CASE wire'[c] = <<>>
      <3>1. \A s : s = <<>> => Len(s) = 0
        OBVIOUS
      <3>2. Len(wire'[c]) = 0
        BY <2>1, <3>1
      <3> QED BY <3>2
    <2>2. CASE wire'[c] = wire[c]
      <3>1. \A i \in 1..Len(wire'[c]) : i + 0 \in 1..Len(wire[c]) /\ wire'[c][i] = wire[c][i + 0]
        BY <2>2
      <3> QED BY <3>1
    <2>3. CASE wire[c] # <<>> /\ wire'[c] = Tail(wire[c])
      <3>1. /\ Len(wire[c]) \in Nat /\ Len(wire'[c]) = Len(wire[c]) - 1
            /\ \A i \in 1..Len(wire'[c]) : wire'[c][i] = wire[c][i + 1]
        BY <2>3, Tails DEF TypeOK
      <3>2. \A i \in 1..Len(wire'[c]) : i + 1 \in 1..Len(wire[c]) /\ wire'[c][i] = wire[c][i + 1]
        BY <3>1
      <3> QED BY <3>2
    <2> QED BY <2>1, <2>2, <2>3
  <1>2. ASSUME NEW c \in 1..MaxConns, Current(k, c) PROVE Current(k, c)'
    BY <1>1, <1>2 DEF Current
  <1>3. made > 0 => made \in 1..MaxConns
    BY DEF TypeOK
  <1>4. Unproposed(k)' => \A c \in 1..MaxConns : \A i \in 1..Len(wire'[c]) :
                              wire'[c][i][k] # want'[k]
    BY <1>1 DEF Sent
  <1>5. ASSUME made > 0, NEW i \in 1..Len(wire'[made]), NEW j \in 1..Len(wire'[made]), i < j,
               wire'[made][i][k] # None, wire'[made][i][k] = want[k]
        PROVE  wire'[made][j][k] \in {None, want[k]}
    <2>1. PICK d \in {0, 1} : \A l \in 1..Len(wire'[made]) :
                   l + d \in 1..Len(wire[made]) /\ wire'[made][l] = wire[made][l + d]
      BY <1>1, <1>3, <1>5
    <2>2. i \in Nat /\ j \in Nat /\ i + d < j + d
      BY <1>5
    <2>3. /\ i + d \in 1..Len(wire[made]) /\ j + d \in 1..Len(wire[made])
          /\ wire'[made][i] = wire[made][i + d] /\ wire'[made][j] = wire[made][j + d]
      BY <1>5, <2>1
    <2>4. \A l, m \in 1..Len(wire[made]) :
             l < m /\ wire[made][l][k] # None /\ wire[made][l][k] = want[k]
                => wire[made][m][k] \in {None, want[k]}
      BY <1>3, <1>5 DEF Sent
    <2> QED BY <1>5, <2>2, <2>3, <2>4
  <1>6. ASSUME NEW c \in 1..MaxConns, NEW i \in 1..Len(wire'[c]),
               c < made, wire'[c][i][k] # None, wire'[c][i][k] = want[k]
        PROVE  Current(k, made)'
    <2>1. Current(k, made)
      <3>1. PICK d \in {0, 1} : \A l \in 1..Len(wire'[c]) :
                     l + d \in 1..Len(wire[c]) /\ wire'[c][l] = wire[c][l + d]
        BY <1>1
      <3>2. i + d \in 1..Len(wire[c]) /\ wire'[c][i] = wire[c][i + d]
        BY <3>1
      <3>3. \A l \in 1..Len(wire[c]) :
               wire[c][l][k] # None /\ wire[c][l][k] = want[k] => Current(k, made)
        BY <1>6 DEF Sent
      <3> QED BY <1>6, <3>2, <3>3
    <2>2. made > 0
      BY <1>6 DEF TypeOK
    <2> QED BY <1>2, <1>3, <2>1, <2>2 DEF Current
  <1>7. made > 0 /\ mine'[k] # "open" => Current(k, made)'
    BY <1>2, <1>3 DEF Sent, Current
  <1> QED BY <1>4, <1>5, <1>6, <1>7 DEF Sent

\* What is read of the frames to the Mac, or added to them.
LEMMA BackFrames ==
    ASSUME TypeOK, NEW k \in Keys,
           \/ back' = back \/ back' = <<>>
           \/ back # <<>> /\ back' = Tail(back)
           \/ Broadcast
           \/ back' = <<[welcome |-> TRUE, table |-> value["vps"]]>>
    PROVE  \A i \in 1..Len(back') :
               \/ back'[i].table[k] = value["vps"][k]
               \/ \E j \in 1..Len(back) : back'[i].table[k] = back[j].table[k]
  <1> TAKE i \in 1..Len(back')
  <1>1. CASE back' = back
    BY <1>1
  <1>2. CASE back' = <<>>
    <2>1. \A s : s = <<>> => Len(s) = 0
      OBVIOUS
    <2> QED BY <1>2, <2>1
  <1>3. CASE back # <<>> /\ back' = Tail(back)
    <2>1. Len(back) \in Nat /\ Len(back') = Len(back) - 1 /\ back'[i] = back[i + 1]
      BY <1>3, Tails DEF TypeOK
    <2>2. i + 1 \in 1..Len(back)
      BY <2>1
    <2> QED BY <2>1, <2>2
  <1>4. CASE Broadcast /\ back' # back
    <2> DEFINE new == [welcome |-> FALSE, table |-> value["vps"]]
    <2>1. new \in Frame /\ new.table = value["vps"]
      BY DEF TypeOK, Frame, Nodes
    <2>2. back' = Append(back, new)
      BY <1>4 DEF Broadcast
    <2> HIDE DEF new
    <2>3. /\ Len(back) \in Nat /\ Len(back') = Len(back) + 1
          /\ back'[Len(back) + 1] = new
          /\ \A j \in 1..Len(back) : back'[j] = back[j]
      BY <2>1, <2>2, Appends DEF TypeOK
    <2>4. i \in 1..Len(back) \/ i = Len(back) + 1
      BY <2>3
    <2> QED BY <2>1, <2>3, <2>4
  <1>5. CASE back' = <<[welcome |-> TRUE, table |-> value["vps"]]>>
    BY <1>5
  <1> QED BY <1>1, <1>2, <1>3, <1>4, <1>5

\* A step that neither serves nor saves the key leaves what the VPS has of it.
LEMMA SeenSame ==
    ASSUME NEW k \in Keys, Seen(k), mine'[k] = mine[k], want'[k] = want[k],
           value'["vps"][k] = value["vps"][k],
           \A i \in 1..Len(back') :
               \/ back'[i].table[k] = value["vps"][k]
               \/ \E j \in 1..Len(back) : back'[i].table[k] = back[j].table[k]
    PROVE  Seen(k)'
  BY DEF Seen

\* A step that leaves the saves, the calls and the unconfirmed of a key alone.
LEMMA CarriedSame ==
    ASSUME NEW k \in Keys, Carried(k), todo' = todo, pend'[k] = pend[k],
           mine'[k] = mine[k], want'[k] = want[k],
           \A f : f.key = k => (f \in edits'["mac"] <=> f \in edits["mac"])
    PROVE  Carried(k)' /\ (Unproposed(k)' <=> Unproposed(k))
  <1>1. (Saving(k)' <=> Saving(k)) /\ (Queued(k)' <=> Queued(k))
    BY DEF Saving, Queued
  <1>2. \A i \in 1..Len(todo) : LastTodo(k, i)' <=> LastTodo(k, i)
    BY DEF LastTodo
  <1> QED BY <1>1, <1>2 DEF Carried, Unproposed

LEMMA StepCalm ==
    ASSUME TypeOK, NEW k \in Keys, Stands(k),
           \/ Answer \/ Disconnect \/ VpsRestart
           \/ \E c \in 1..MaxConns : Refuse(c) \/ Lose(c)
           \/ UNCHANGED vars
    PROVE  Stands(k)'
  <1> USE SyncAssumption
  <1>1. /\ todo' = todo /\ pend' = pend /\ mine' = mine /\ want' = want
        /\ value' = value /\ made' = made /\ edits'["mac"] = edits["mac"]
    BY DEF Answer, Disconnect, VpsRestart, Refuse, Lose, vars, tables,
           linkVars, history, TypeOK, Nodes
  <1>2. \A c \in 1..MaxConns : \/ wire'[c] = <<>> \/ wire'[c] = wire[c]
                               \/ wire[c] # <<>> /\ wire'[c] = Tail(wire[c])
    BY DEF Answer, Disconnect, VpsRestart, Refuse, Lose, vars, TypeOK
  <1>3. back' = back \/ back' = <<>> \/ Broadcast
    BY DEF Answer, Disconnect, VpsRestart, Refuse, Lose, vars
  <1>4. Carried(k)' /\ (Unproposed(k)' <=> Unproposed(k))
    BY <1>1, CarriedSame DEF Stands
  <1>5. Sent(k)'
    BY <1>1, <1>2, <1>4, SentShrinks DEF Stands
  <1>6. Seen(k)'
    BY <1>1, <1>3, BackFrames, SeenSame DEF Stands
  <1> QED BY <1>4, <1>5, <1>6 DEF Stands

LEMMA StepConnect ==
    ASSUME TypeOK, Edits, NEW k \in Keys, Stands(k), Connect
    PROVE  Stands(k)'
  <1> USE SyncAssumption
  <1>1. /\ todo' = todo /\ pend' = pend /\ mine' = mine /\ want' = want /\ wire' = wire
        /\ value' = value /\ made' = made + 1 /\ made + 1 \in 1..MaxConns /\ edits' = edits
    BY DEF Connect, tables, history, TypeOK
  <1>2. Carried(k)' /\ (Unproposed(k)' <=> Unproposed(k))
    BY <1>1, CarriedSame DEF Stands
  <1>3. Len(wire'[made']) = 0
    <2>1. wire[made + 1] = <<>>
      BY <1>1 DEF Edits, TypeOK
    <2>2. \A s : s = <<>> => Len(s) = 0
      OBVIOUS
    <2> QED BY <1>1, <2>1, <2>2
  <1>4. Sent(k)'
    BY <1>1, <1>2, <1>3 DEF Sent, Stands, Current
  <1>5. back' = <<[welcome |-> TRUE, table |-> value["vps"]]>>
    BY DEF Connect
  <1>6. Seen(k)'
    BY <1>1, <1>5, BackFrames, SeenSame DEF Stands
  <1> QED BY <1>2, <1>4, <1>6 DEF Stands

LEMMA StepServe ==
    ASSUME TypeOK, Edits, NEW k \in Keys, Stands(k), Kept(k)',
           NEW c \in 1..MaxConns, Serve(c)
    PROVE  Stands(k)'
  <1> USE SyncAssumption
  <1> DEFINE u == Head(wire[c])
  <1>1. /\ UNCHANGED <<edits, pend, todo, back, want>> /\ made' = made
        /\ wire[c] # <<>> /\ wire' = [wire EXCEPT ![c] = Tail(wire[c])]
        /\ value'["vps"][k] = IF u[k] = None THEN value["vps"][k] ELSE u[k]
        /\ mine'[k] = IF u[k] # None /\ u[k] = want[k] /\ mine[k] = "open"
                      THEN "held" ELSE mine[k]
    BY DEF Serve, linkVars, Merge, TypeOK, Nodes
  <1>2. /\ u = wire[c][1] /\ 1 \in 1..Len(wire[c]) /\ Len(wire'[c]) = Len(wire[c]) - 1
        /\ Len(wire[c]) \in Nat
        /\ \A i \in 1..Len(wire'[c]) : wire'[c][i] = wire[c][i + 1]
    BY <1>1, Tails DEF TypeOK
  <1>3. c <= made /\ made \in Nat
    BY <1>1 DEF Edits, TypeOK
  <1>4. c < made => u[k] = None \/ u[k] = want[k]
    <2> SUFFICES ASSUME c < made, u[k] # None, u[k] # want[k] PROVE FALSE
      OBVIOUS
    <2> DEFINE ks == {j \in Keys : u[j] # None /\ u[j] # want[j]}
    <2>1. Mark("straggler", ks) /\ k \in ks
      BY DEF Serve
    <2>2. "straggler" \in raced'[k]
      BY <2>1, MarkTypes DEF TypeOK, Races
    <2> QED BY <2>2 DEF Kept
  <1> HIDE DEF u
  <1>5. u[k] # None /\ u[k] = want[k] => ~Unproposed(k)
    BY <1>2 DEF Stands, Sent
  <1>6. c = made /\ u[k] # None /\ u[k] # want[k] => mine[k] = "open"
    BY <1>2, <1>3 DEF Stands, Sent, Current
  <1>7. (Saving(k)' <=> Saving(k)) /\ (Queued(k)' <=> Queued(k))
        /\ (Unproposed(k)' <=> Unproposed(k))
        /\ \A i \in 1..Len(todo) : LastTodo(k, i)' <=> LastTodo(k, i)
    BY <1>1 DEF Saving, Queued, Unproposed, LastTodo
  <1>8. Carried(k)'
    BY <1>1, <1>5, <1>7 DEF Stands, Carried
  <1>9. made > 0 /\ u[k] # None /\ u[k] = want[k] => Current(k, made)'
    <2> SUFFICES ASSUME made > 0, u[k] # None, u[k] = want[k] PROVE Current(k, made)'
      OBVIOUS
    <2>1. CASE c = made
      <3>1. \A i \in 1..Len(wire[made]) : 1 < i => wire[made][i][k] \in {None, want[k]}
        BY <1>2, <2>1 DEF Stands, Sent
      <3>2. \A i \in 1..Len(wire'[made]) :
               i + 1 \in 1..Len(wire[made]) /\ 1 < i + 1 /\ wire'[made][i] = wire[made][i + 1]
        <4>1. Len(wire[made]) \in Nat /\ Len(wire'[made]) = Len(wire[made]) - 1
          BY <1>2, <2>1
        <4>2. \A i \in 1..Len(wire'[made]) : i + 1 \in 1..Len(wire[made]) /\ 1 < i + 1
          BY <4>1
        <4>3. \A i \in 1..Len(wire'[made]) : wire'[made][i] = wire[made][i + 1]
          BY <1>2, <2>1
        <4> QED BY <4>2, <4>3
      <3>3. \A i \in 1..Len(wire'[made]) : wire'[made][i][k] \in {None, want[k]}
        BY <3>1, <3>2
      <3> QED BY <1>1, <3>3 DEF Current
    <2>2. CASE c < made
      <3>1. Current(k, made)
        BY <1>2, <2>2 DEF Stands, Sent
      <3>2. wire'[made] = wire[made]
        BY <1>1, <2>2 DEF TypeOK
      <3> QED BY <1>1, <3>1, <3>2 DEF Current
    <2> QED BY <1>3, <2>1, <2>2
  <1>10. Sent(k)'
    <2>1. \A d \in 1..MaxConns : \/ wire'[d] = <<>> \/ wire'[d] = wire[d]
                                 \/ wire[d] # <<>> /\ wire'[d] = Tail(wire[d])
      BY <1>1 DEF TypeOK
    <2>2. made > 0 /\ mine'[k] # "open" => mine[k] # "open" \/ Current(k, made)'
      BY <1>1, <1>9
    <2> QED BY <1>1, <1>7, <2>1, <2>2, SentShrinks DEF Stands
  <1>11. Seen(k)'
    BY <1>1, <1>3, <1>4, <1>6 DEF Stands, Seen
  <1> QED BY <1>8, <1>10, <1>11 DEF Stands

LEMMA StepSave ==
    ASSUME TypeOK, NEW k \in Keys, Stands(k), Kept(k)',
           NEW n \in Nodes, NEW t \in Threads, NEW j \in Keys, NEW v \in Values, Save(n, t, j, v)
    PROVE  Stands(k)'
  <1> USE SyncAssumption
  <1> DEFINE new == [by |-> t, key |-> j, val |-> v, at |-> "saved"]
  <1>1. /\ UNCHANGED <<pend, todo, made, wire, back>>
        /\ edits' = [edits EXCEPT ![n] = edits[n] \cup {new}]
        /\ value' = [value EXCEPT ![n][j] = v]
    BY DEF Save, linkVars
  <1>2. new.key = j /\ new.val = v
    OBVIOUS
  <1> HIDE DEF new
  <1>3. \A c \in 1..MaxConns : wire'[c] = wire[c]
    BY <1>1
  <1>4. CASE n = "mac" /\ j = k
    <2>1. /\ want'[k] = v /\ mine'[k] = "open" /\ value'["vps"] = value["vps"]
          /\ edits'["mac"] = edits["mac"] \cup {new}
      BY <1>1, <1>4 DEF Save, TypeOK, Nodes, Updates
    <2>2. v \notin UnderWay(k) /\ \A e \in edits["mac"] : e.key # k
      <3>1. raced'[k] = raced[k] \cup (IF v \in UnderWay(k) THEN {"reused"} ELSE {})
                \cup (IF \E e \in edits["mac"] : e.key = k THEN {"crossed"} ELSE {})
        BY <1>4 DEF Save, TypeOK
      <3>2. "reused" \notin raced'[k] /\ "crossed" \notin raced'[k]
        BY DEF Kept
      <3> QED BY <3>1, <3>2
    <2>3. /\ v # value["vps"][k] /\ v # pend[k]
          /\ \A i \in 1..Len(back) : back[i].table[k] # v
          /\ \A i \in 1..Len(todo) : todo[i][k] # v
      BY <2>2 DEF UnderWay
    <2>4. \A c \in 1..MaxConns : \A i \in 1..Len(wire[c]) : wire[c][i][k] # v
      BY <2>2 DEF UnderWay
    <2>5. Saving(k)'
      BY <1>2, <1>4, <2>1 DEF Saving
    <2>6. Carried(k)'
      <3>1. \A e \in edits'["mac"] : e.key = k => e = new
        BY <2>1, <2>2
      <3> QED BY <1>1, <1>2, <2>1, <2>3, <2>5, <3>1 DEF Carried, Unproposed
    <2>7. Sent(k)'
      BY <1>1, <2>1, <2>4 DEF Sent, TypeOK
    <2>8. Seen(k)'
      BY <1>1, <2>1, <2>3 DEF Seen
    <2> QED BY <2>6, <2>7, <2>8 DEF Stands
  <1>5. CASE n = "mac" /\ j # k
    <2>1. /\ want'[k] = want[k] /\ mine'[k] = mine[k] /\ value'["vps"] = value["vps"]
          /\ edits'["mac"] = edits["mac"] \cup {new}
      BY <1>1, <1>5 DEF Save, TypeOK, Nodes, Updates
    <2>2. \A f : f.key = k => (f \in edits'["mac"] <=> f \in edits["mac"])
      BY <1>2, <1>5, <2>1
    <2>3. Carried(k)' /\ (Unproposed(k)' <=> Unproposed(k))
      BY <1>1, <2>1, <2>2, CarriedSame DEF Stands
    <2>4. Sent(k)'
      BY <1>1, <1>3, <2>1, <2>3, SentShrinks DEF Stands
    <2>5. Seen(k)'
      BY <1>1, <2>1, BackFrames, SeenSame DEF Stands
    <2> QED BY <2>3, <2>4, <2>5 DEF Stands
  <1>6. CASE n = "vps"
    <2>1. /\ want' = want /\ edits'["mac"] = edits["mac"]
          /\ mine'[k] = IF j = k /\ mine[k] = "held" THEN "ceded" ELSE mine[k]
          /\ value'["vps"][k] = IF j = k THEN v ELSE value["vps"][k]
      BY <1>1, <1>6 DEF Save, TypeOK, Nodes, Tables
    <2>2. j = k => v # want[k]
      <3> SUFFICES ASSUME j = k, v = want[k] PROVE FALSE
        OBVIOUS
      <3>1. Mark("reused", {k})
        BY <1>6 DEF Save
      <3>2. "reused" \in raced'[k]
        BY <3>1, MarkTypes DEF TypeOK, Races
      <3> QED BY <3>2 DEF Kept
    <2>3. (Saving(k)' <=> Saving(k)) /\ (Queued(k)' <=> Queued(k))
          /\ (Unproposed(k)' <=> Unproposed(k))
          /\ \A i \in 1..Len(todo) : LastTodo(k, i)' <=> LastTodo(k, i)
      BY <1>1, <2>1 DEF Saving, Queued, Unproposed, LastTodo
    <2>4. Carried(k)'
      BY <1>1, <2>1, <2>3 DEF Carried, Stands
    <2>5. Sent(k)'
      BY <1>1, <1>3, <2>1, <2>3, SentShrinks DEF Stands
    <2>6. Seen(k)'
      BY <1>1, <2>1, <2>2 DEF Seen, Stands
    <2> QED BY <2>4, <2>5, <2>6 DEF Stands
  <1> QED BY <1>4, <1>5, <1>6 DEF Nodes

\* A save that neither starts nor gives up: entering changes nobody's turn.
LEMMA StepForward ==
    ASSUME TypeOK, NEW k \in Keys, Stands(k), Kept(k)',
           NEW n \in Nodes, NEW e \in edits[n], NEW s \in Stages, Skip(n, e) \/ MoveOn(n, e, s)
    PROVE  Stands(k)'
  <1> USE SyncAssumption
  <1>1. /\ UNCHANGED <<value, pend, todo, made, wire, back, want, mine>>
    BY DEF Skip, MoveOn, linkVars, history
  <1>0. e \in Edit
    BY DEF TypeOK
  <1> DEFINE new == [e EXCEPT !.at = s]
  <1>2. new.key = e.key /\ new.val = e.val
    BY <1>0 DEF Edit
  <1>3. \/ edits'["mac"] = edits["mac"]
        \/ edits'["mac"] = edits["mac"] \ {e} /\ Skip("mac", e) /\ e \in edits["mac"]
        \/ edits'["mac"] = (edits["mac"] \ {e}) \cup {new} /\ e \in edits["mac"]
    BY DEF Skip, MoveOn, TypeOK, Nodes
  <1> HIDE DEF new
  <1>4. Skip("mac", e) => e.key # k
    <2> SUFFICES ASSUME Skip("mac", e), e.key = k PROVE FALSE
      OBVIOUS
    <2>1. Mark("dropped", {k})
      BY DEF Skip
    <2>2. "dropped" \in raced'[k]
      BY <2>1, MarkTypes DEF TypeOK, Races
    <2> QED BY <2>2 DEF Kept
  <1>5. /\ \A f \in edits'["mac"] : f.key = k =>
               f \in edits["mac"] \/ (f = new /\ e \in edits["mac"] /\ e.key = k)
        /\ \A f \in edits["mac"] : f.key = k =>
               f \in edits'["mac"] \/ (f = e /\ new \in edits'["mac"])
    BY <1>2, <1>3, <1>4
  <1>6. Saving(k)' <=> Saving(k)
    BY <1>2, <1>5 DEF Saving
  <1>7. (Queued(k)' <=> Queued(k)) /\ (Unproposed(k)' <=> Unproposed(k))
        /\ \A i \in 1..Len(todo) : LastTodo(k, i)' <=> LastTodo(k, i)
    BY <1>1, <1>6 DEF Queued, Unproposed, LastTodo
  <1>8. \A f, g \in edits'["mac"] : f.key = k /\ g.key = k => f = g
    <2>1. \A f, g \in edits["mac"] : f.key = k /\ g.key = k => f = g
      BY DEF Stands, Carried
    <2> QED BY <1>2, <1>3, <2>1
  <1>9. \A f \in edits'["mac"] : f.key = k => f.val = want[k]
    BY <1>2, <1>5 DEF Stands, Carried
  <1>10. Carried(k)'
    BY <1>1, <1>6, <1>7, <1>8, <1>9 DEF Stands, Carried
  <1>11. \A c \in 1..MaxConns : wire'[c] = wire[c]
    BY <1>1
  <1>12. Sent(k)'
    BY <1>1, <1>7, <1>11, SentShrinks DEF Stands
  <1>13. Seen(k)'
    BY <1>1 DEF Stands, Seen
  <1> QED BY <1>10, <1>12, <1>13 DEF Stands

\* A scheduled call that does not mention the key changes nothing for it.
LEMMA CarriedAppend ==
    ASSUME TypeOK, NEW k \in Keys, Carried(k), NEW u \in Updates, u[k] = None,
           todo' = Append(todo, u), pend'[k] = pend[k],
           mine'[k] = mine[k], want'[k] = want[k],
           \A f : f.key = k => (f \in edits'["mac"] <=> f \in edits["mac"])
    PROVE  Carried(k)' /\ (Unproposed(k)' <=> Unproposed(k))
  <1>1. /\ Queued(k)' <=> Queued(k)
        /\ \A i \in 1..Len(todo') : LastTodo(k, i)' => i \in 1..Len(todo) /\ LastTodo(k, i)
        /\ Len(todo') = Len(todo) + 1 /\ todo'[Len(todo) + 1] = u
        /\ \A i \in 1..Len(todo) : todo'[i] = todo[i]
        /\ Len(todo) \in Nat
    BY TodoAppend DEF TypeOK
  <1>2. Saving(k)' <=> Saving(k)
    BY DEF Saving
  <1>3. \A i \in 1..Len(todo) : LastTodo(k, i) => LastTodo(k, i)'
    <2> SUFFICES ASSUME NEW i \in 1..Len(todo), LastTodo(k, i) PROVE LastTodo(k, i)'
      OBVIOUS
    <2>1. \A j \in (i + 1)..Len(todo') : todo'[j][k] = None
      <3> TAKE j \in (i + 1)..Len(todo')
      <3>1. j \in (i + 1)..Len(todo) \/ j = Len(todo) + 1
        BY <1>1
      <3> QED BY <1>1, <3>1 DEF LastTodo
    <2> QED BY <1>1, <2>1 DEF LastTodo
  <1>4. Unproposed(k)' <=> Unproposed(k)
    BY <1>1, <1>2 DEF Unproposed
  <1>5. \A i \in 1..Len(todo') : i \in 1..Len(todo) \/ todo'[i][k] = None
    BY <1>1
  <1>6. \A i \in 1..Len(todo') :
           todo'[i][k] # None /\ todo'[i][k] = want[k] => ~Saving(k)' /\ LastTodo(k, i)'
    BY <1>1, <1>2, <1>3, <1>5 DEF Carried
  <1>7. ~Saving(k)' => \A i \in 1..Len(todo') : LastTodo(k, i)' => todo'[i][k] = want[k]
    BY <1>1, <1>2 DEF Carried
  <1> QED BY <1>2, <1>4, <1>6, <1>7 DEF Carried

LEMMA StepSchedule ==
    ASSUME TypeOK, NEW k \in Keys, Stands(k),
           NEW n \in Nodes, NEW e \in edits[n], Schedule(n, e)
    PROVE  Stands(k)'
  <1> USE SyncAssumption
  <1>1. /\ UNCHANGED <<value, pend, made, wire, back, want, mine>>
        /\ edits' = [edits EXCEPT ![n] = edits[n] \ {e}]
    BY DEF Schedule, linkVars, history
  <1>2. \A c \in 1..MaxConns : wire'[c] = wire[c]
    BY <1>1
  <1>3. Carried(k)' /\ (Unproposed(k)' => Unproposed(k))
    <2>1. CASE n = "vps"
      <3>1. todo' = todo /\ edits'["mac"] = edits["mac"]
        BY <1>1, <2>1 DEF Schedule, TypeOK, Nodes
      <3> QED BY <1>1, <3>1, CarriedSame DEF Stands
    <2>2. CASE n = "mac"
      <3> DEFINE u == One(e.key, e.val)
      <3>0. e \in Edit
        BY DEF TypeOK
      <3>1. u \in Updates /\ u[k] = IF e.key = k THEN e.val ELSE None
        BY <3>0 DEF One, Updates, NoUpdates, Edit
      <3>2. todo' = Append(todo, u) /\ edits'["mac"] = edits["mac"] \ {e} /\ e \in edits["mac"]
        BY <1>1, <2>2 DEF Schedule, TypeOK, Nodes
      <3>3. e.val # None
        BY <3>0 DEF Edit
      <3> HIDE DEF u
      <3>4. CASE e.key # k
        <4>1. \A f : f.key = k => (f \in edits'["mac"] <=> f \in edits["mac"])
          BY <3>2, <3>4
        <4> QED BY <1>1, <3>1, <3>2, <3>4, <4>1, CarriedAppend DEF Stands
      <3>5. CASE e.key = k
        <4>1. e.val = want[k] /\ Saving(k) /\ \A f \in edits["mac"] : f.key = k => f = e
          BY <3>2, <3>5 DEF Stands, Carried, Saving
        <4>2. ~Saving(k)' /\ \A f \in edits'["mac"] : f.key # k
          BY <3>2, <4>1 DEF Saving
        <4>3. /\ Queued(k)'
              /\ \A i \in 1..Len(todo') : LastTodo(k, i)' => i = Len(todo) + 1
              /\ Len(todo') = Len(todo) + 1 /\ todo'[Len(todo) + 1] = u
              /\ \A i \in 1..Len(todo) : todo'[i] = todo[i]
              /\ Len(todo) \in Nat
          BY <3>1, <3>2, <3>3, <3>5, TodoAppend DEF TypeOK
        <4>4. \A i \in 1..Len(todo) : todo[i][k] = None \/ todo[i][k] # want[k]
          BY <4>1 DEF Stands, Carried
        <4>5. \A i \in 1..Len(todo') : i \in 1..Len(todo) \/ i = Len(todo) + 1
          BY <4>3
        <4>6. \A i \in 1..Len(todo') : i = Len(todo) + 1 => LastTodo(k, i)'
          BY <3>1, <3>3, <3>5, <4>3 DEF LastTodo
        <4>7. \A i \in 1..Len(todo') :
                 todo'[i][k] # None /\ todo'[i][k] = want[k] => LastTodo(k, i)'
          BY <4>3, <4>4, <4>5, <4>6
        <4>8. \A i \in 1..Len(todo') : LastTodo(k, i)' => todo'[i][k] = want[k]
          BY <3>1, <3>5, <4>1, <4>3
        <4>9. Unproposed(k) /\ Unproposed(k)'
          BY <4>1, <4>3 DEF Unproposed
        <4> QED BY <1>1, <4>2, <4>7, <4>8, <4>9 DEF Stands, Carried
      <3> QED BY <3>4, <3>5
    <2> QED BY <2>1, <2>2 DEF Nodes
  <1>4. Sent(k)'
    BY <1>1, <1>2, <1>3, SentShrinks DEF Stands
  <1>5. Seen(k)'
    BY <1>1 DEF Stands, Seen
  <1> QED BY <1>3, <1>4, <1>5 DEF Stands

LEMMA StepPropose ==
    ASSUME TypeOK, TypeOK', NEW k \in Keys, Stands(k), Propose
    PROVE  Stands(k)'
  <1> USE SyncAssumption
  <1> DEFINE h == Head(todo)
  <1>1. /\ UNCHANGED <<value, edits, link, made, back, want, mine>>
        /\ todo # <<>> /\ todo' = Tail(todo)
        /\ pend'[k] = IF h[k] = None THEN pend[k] ELSE h[k]
    BY DEF Propose, tables, linkVars, history, Merge
  <1>2. /\ h = todo[1] /\ 1 \in 1..Len(todo) /\ Len(todo) \in Nat
        /\ Len(todo') = Len(todo) - 1
        /\ \A i \in 1..Len(todo') : i + 1 \in 1..Len(todo) /\ todo'[i] = todo[i + 1]
    BY <1>1, Tails DEF TypeOK
  <1>3. /\ Queued(k)' => Queued(k)
        /\ Queued(k) => Queued(k)' \/ h[k] # None
        /\ \A i \in 1..Len(todo') : LastTodo(k, i)' => LastTodo(k, i + 1)
        /\ ~Queued(k)' /\ h[k] # None => LastTodo(k, 1)
    BY <1>1, TodoTail
  <1> HIDE DEF h
  <1>4. Saving(k)' <=> Saving(k)
    BY <1>1 DEF Saving
  <1>5. \A i \in 1..Len(todo') : LastTodo(k, i + 1) => LastTodo(k, i)'
    <2> SUFFICES ASSUME NEW i \in 1..Len(todo'), LastTodo(k, i + 1) PROVE LastTodo(k, i)'
      OBVIOUS
    <2>1. \A j \in (i + 1)..Len(todo') : todo'[j][k] = None
      <3> TAKE j \in (i + 1)..Len(todo')
      <3>1. j \in 1..Len(todo') /\ j + 1 \in (i + 1 + 1)..Len(todo)
        BY <1>2
      <3> QED BY <1>2, <3>1 DEF LastTodo
    <2> QED BY <1>2, <2>1 DEF LastTodo
  <1>6. h[k] # None /\ h[k] = want[k] => ~Saving(k) /\ ~Queued(k)'
    <2> SUFFICES ASSUME h[k] # None, h[k] = want[k] PROVE ~Saving(k) /\ ~Queued(k)'
      OBVIOUS
    <2>1. ~Saving(k) /\ LastTodo(k, 1)
      BY <1>2 DEF Stands, Carried
    <2>2. \A i \in 1..Len(todo') : i + 1 \in (1 + 1)..Len(todo)
      BY <1>2
    <2>3. \A i \in 1..Len(todo') : todo'[i][k] = None
      BY <1>2, <2>1, <2>2 DEF LastTodo
    <2> QED BY <2>1, <2>3 DEF Queued
  <1>7. Unproposed(k)' => Unproposed(k) /\ pend'[k] # want[k]
    <2> SUFFICES ASSUME Unproposed(k)' PROVE Unproposed(k) /\ pend'[k] # want[k]
      OBVIOUS
    <2>1. Unproposed(k)
      BY <1>3, <1>4 DEF Unproposed
    <2>2. pend[k] # want[k]
      BY <2>1 DEF Stands, Carried
    <2>3. h[k] = None \/ h[k] # want[k]
      BY <1>4, <1>6 DEF Unproposed
    <2> QED BY <1>1, <2>1, <2>2, <2>3
  <1>8. ~Unproposed(k) => pend'[k] = pend[k] /\ pend[k] \in {None, want[k]}
    BY <1>1, <1>2 DEF Stands, Carried, Unproposed, Queued
  <1>9. Unproposed(k) /\ ~Unproposed(k)' => pend'[k] = want[k]
    <2> SUFFICES ASSUME Unproposed(k), ~Unproposed(k)' PROVE pend'[k] = want[k]
      OBVIOUS
    <2>1. ~Saving(k) /\ h[k] # None /\ LastTodo(k, 1)
      BY <1>3, <1>4 DEF Unproposed
    <2>2. todo[1][k] = want[k]
      BY <1>2, <2>1 DEF Stands, Carried
    <2> QED BY <1>1, <1>2, <2>1, <2>2
  <1>10. Carried(k)'
    <2>1. ~Saving(k)' => \A i \in 1..Len(todo') : LastTodo(k, i)' => todo'[i][k] = want[k]
      BY <1>2, <1>3, <1>4 DEF Stands, Carried
    <2>2. \A i \in 1..Len(todo') :
             todo'[i][k] # None /\ todo'[i][k] = want[k] => ~Saving(k)' /\ LastTodo(k, i)'
      BY <1>2, <1>4, <1>5 DEF Stands, Carried
    <2>3. Unproposed(k)' => mine[k] = "open" /\ pend'[k] # want[k]
      BY <1>7 DEF Stands, Carried
    <2>4. ~Unproposed(k)' => /\ pend'[k] \in {None, want[k]}
                             /\ mine[k] = "open" => pend'[k] = want[k]
      BY <1>8, <1>9 DEF Stands, Carried
    <2>5. /\ \A e, f \in edits'["mac"] : e.key = k /\ f.key = k => e = f
          /\ \A e \in edits'["mac"] : e.key = k => e.val = want[k]
      BY <1>1 DEF Stands, Carried
    <2> QED BY <1>1, <2>1, <2>2, <2>3, <2>4, <2>5 DEF Carried
  <1>11. ASSUME NEW c \in 1..MaxConns, NEW i \in 1..Len(wire'[c])
         PROVE  \/ i \in 1..Len(wire[c]) /\ wire'[c][i] = wire[c][i]
                \/ /\ c = made /\ i = Len(wire'[c]) /\ i \in Nat
                   /\ wire'[c][i] = pend'
    <2>1. CASE wire'[c] = wire[c]
      BY <2>1
    <2>2. CASE wire'[c] # wire[c]
      <3>1. c = made /\ wire'[c] = Append(wire[c], pend')
        BY <2>2 DEF Propose, TypeOK
      <3>2. /\ Len(wire[c]) \in Nat /\ Len(wire'[c]) = Len(wire[c]) + 1
            /\ wire'[c][Len(wire[c]) + 1] = pend'
            /\ \A j \in 1..Len(wire[c]) : wire'[c][j] = wire[c][j]
        <4>1. wire[c] \in Seq(Updates) /\ pend' \in Updates
          BY DEF TypeOK
        <4> QED BY <3>1, <4>1, Appends
      <3> QED BY <3>1, <3>2
    <2> QED BY <2>1, <2>2
  <1>12. made \in Nat /\ (made > 0 => made \in 1..MaxConns)
    BY DEF TypeOK
  <1>13. made > 0 /\ Current(k, made) /\ ~Unproposed(k) => Current(k, made)'
    BY <1>1, <1>8, <1>11, <1>12 DEF Current
  <1>14. Sent(k)'
    <2>1. Unproposed(k)' => \A c \in 1..MaxConns : \A i \in 1..Len(wire'[c]) :
                                wire'[c][i][k] # want[k]
      BY <1>7, <1>11 DEF Stands, Sent
    <2>2. ASSUME made > 0, NEW i \in 1..Len(wire'[made]), NEW j \in 1..Len(wire'[made]), i < j,
                 wire'[made][i][k] # None, wire'[made][i][k] = want[k]
          PROVE  wire'[made][j][k] \in {None, want[k]}
      <3>1. i \in 1..Len(wire[made]) /\ wire'[made][i] = wire[made][i]
        BY <1>11, <1>12, <2>2
      <3>2. ~Unproposed(k)
        BY <1>12, <2>2, <3>1 DEF Stands, Sent
      <3>3. CASE j \in 1..Len(wire[made]) /\ wire'[made][j] = wire[made][j]
        BY <1>12, <2>2, <3>1, <3>3 DEF Stands, Sent
      <3>4. CASE wire'[made][j] = pend'
        BY <1>8, <3>2, <3>4
      <3> QED BY <1>11, <1>12, <2>2, <3>3, <3>4
    <2>3. ASSUME NEW c \in 1..MaxConns, NEW i \in 1..Len(wire'[c]),
                 c < made, wire'[c][i][k] # None, wire'[c][i][k] = want[k]
          PROVE  Current(k, made)'
      <3>1. i \in 1..Len(wire[c]) /\ wire'[c][i] = wire[c][i]
        BY <1>11, <1>12, <2>3
      <3>2. Current(k, made) /\ ~Unproposed(k) /\ made > 0
        BY <1>12, <2>3, <3>1 DEF Stands, Sent
      <3> QED BY <1>13, <3>2
    <2>4. made > 0 /\ mine[k] # "open" => Current(k, made)'
      BY <1>13 DEF Stands, Sent, Carried
    <2> QED BY <1>1, <2>1, <2>2, <2>3, <2>4 DEF Sent, Current
  <1>15. Seen(k)'
    BY <1>1 DEF Stands, Seen
  <1> QED BY <1>10, <1>14, <1>15 DEF Stands

LEMMA StepRead ==
    ASSUME TypeOK, NEW k \in Keys, Stands(k), ReadWelcome \/ ReadState
    PROVE  Stands(k)'
  <1> USE SyncAssumption
  <1>1. /\ UNCHANGED <<edits, made, wire, want, mine>>
        /\ back # <<>> /\ back' = Tail(back)
        /\ value'["vps"] = value["vps"]
    BY DEF ReadWelcome, ReadState, Mirror, linkVars, TypeOK, Nodes
  <1>2. \A c \in 1..MaxConns : wire'[c] = wire[c]
    BY <1>1
  <1>3. Carried(k)' /\ (Unproposed(k)' <=> Unproposed(k))
    <2>1. CASE ReadWelcome
      <3>0. NoUpdates \in Updates /\ NoUpdates[k] = None
        BY DEF NoUpdates, Updates
      <3>1. pend' = pend /\ (todo' = todo \/ todo' = Append(todo, NoUpdates))
        BY <2>1 DEF ReadWelcome
      <3>2. CASE todo' = todo
        BY <1>1, <3>1, <3>2, CarriedSame DEF Stands
      <3>3. CASE todo' = Append(todo, NoUpdates)
        BY <1>1, <3>0, <3>1, <3>3, CarriedAppend DEF Stands
      <3> QED BY <3>1, <3>2, <3>3
    <2>2. CASE ReadState
      <3>1. /\ todo' = todo
            /\ pend'[k] = IF pend[k] = Head(back).table[k] THEN None ELSE pend[k]
        BY <2>2 DEF ReadState
      <3>2. Head(back) = back[1] /\ 1 \in 1..Len(back)
        BY <1>1, Tails DEF TypeOK
      <3>3. mine[k] = "open" => want[k] # None /\ Head(back).table[k] # want[k]
        BY <3>2 DEF Stands, Seen
      <3>4. (Saving(k)' <=> Saving(k)) /\ (Queued(k)' <=> Queued(k))
            /\ (Unproposed(k)' <=> Unproposed(k))
            /\ \A i \in 1..Len(todo) : LastTodo(k, i)' <=> LastTodo(k, i)
        BY <1>1, <3>1 DEF Saving, Queued, Unproposed, LastTodo
      <3>5. Unproposed(k) => mine[k] = "open" /\ pend'[k] # want[k]
        BY <3>1, <3>3 DEF Stands, Carried
      <3>6. ~Unproposed(k) => /\ pend'[k] \in {None, want[k]}
                              /\ mine[k] = "open" => pend'[k] = want[k]
        BY <3>1, <3>3 DEF Stands, Carried
      <3> QED BY <1>1, <3>1, <3>4, <3>5, <3>6 DEF Stands, Carried
    <2> QED BY <2>1, <2>2
  <1>4. Sent(k)'
    BY <1>1, <1>2, <1>3, SentShrinks DEF Stands
  <1>5. Seen(k)'
    BY <1>1, BackFrames, SeenSame DEF Stands
  <1> QED BY <1>3, <1>4, <1>5 DEF Stands

LEMMA StepMacRestart ==
    ASSUME TypeOK, NEW k \in Keys, Stands(k), Kept(k)', MacRestart
    PROVE  Stands(k)'
  <1> USE SyncAssumption
  <1>1. /\ UNCHANGED <<value, pend, made, wire, want, mine>>
        /\ edits'["mac"] = {} /\ todo' = <<>> /\ back' = <<>>
    BY DEF MacRestart, TypeOK, Nodes
  <1>2. \A c \in 1..MaxConns : wire'[c] = wire[c]
    BY <1>1
  <1>3. ~Unproposed(k)
    <2> SUFFICES ASSUME Unproposed(k) PROVE FALSE
      OBVIOUS
    <2> DEFINE ks == {j \in Keys : Unproposed(j)}
    <2>1. Mark("unsaved", ks) /\ k \in ks
      BY DEF MacRestart
    <2>2. "unsaved" \in raced'[k]
      BY <2>1, MarkTypes DEF TypeOK, Races
    <2> QED BY <2>2 DEF Kept
  <1>4. Len(todo') = 0
    BY <1>1
  <1>5. ~Saving(k)' /\ ~Queued(k)' /\ ~Unproposed(k)'
    BY <1>1, <1>4 DEF Saving, Queued, Unproposed
  <1>6. Carried(k)'
    BY <1>1, <1>3, <1>4, <1>5 DEF Stands, Carried
  <1>7. Sent(k)'
    BY <1>1, <1>2, <1>5, SentShrinks DEF Stands
  <1>8. Seen(k)'
    BY <1>1, BackFrames, SeenSame DEF Stands
  <1> QED BY <1>6, <1>7, <1>8 DEF Stands

\* Nothing is sent on a connection before it is made.
LEMMA StepUnmade ==
    ASSUME TypeOK, Edits, [Next]_vars
    PROVE  \A c \in 1..MaxConns : c > made' => wire'[c] = <<>>
  <1> USE SyncAssumption
  <1>0. made \in Nat /\ \A c \in 1..MaxConns : c > made => wire[c] = <<>>
    BY DEF Edits, TypeOK
  <1>1. ASSUME made' = made \/ made' = made + 1, wire' = wire
        PROVE  \A c \in 1..MaxConns : c > made' => wire'[c] = <<>>
    BY <1>0, <1>1
  <1>2. ASSUME NEW n \in Nodes, NEW t \in Threads, NEW k \in Keys, NEW v \in Values,
               Save(n, t, k, v)
        PROVE  made' = made /\ wire' = wire
    BY <1>2 DEF Save, linkVars
  <1>3. ASSUME NEW n \in Nodes, NEW e \in edits[n],
               Skip(n, e) \/ Enter(n, e) \/ Post(n, e) \/ Schedule(n, e)
        PROVE  made' = made /\ wire' = wire
    BY <1>3 DEF Skip, Enter, Post, MoveOn, Schedule, linkVars
  <1>4. CASE Propose
    <2>1. made' = made /\ \A c \in 1..MaxConns : c # made => wire'[c] = wire[c]
      BY <1>4 DEF Propose, linkVars, TypeOK
    <2> QED BY <1>0, <2>1
  <1>5. CASE \/ ReadWelcome \/ ReadState \/ Answer \/ Connect
             \/ Disconnect \/ MacRestart \/ UNCHANGED vars
    BY <1>1, <1>5 DEF ReadWelcome, ReadState, Answer, Connect, Disconnect,
                      MacRestart, linkVars, vars
  <1>6. ASSUME NEW d \in 1..MaxConns, Serve(d) \/ Refuse(d) \/ Lose(d)
        PROVE  \A c \in 1..MaxConns : c > made' => wire'[c] = <<>>
    <2>1. made' = made /\ \A c \in 1..MaxConns : c # d => wire'[c] = wire[c]
      BY <1>6 DEF Serve, Refuse, Lose, linkVars, TypeOK
    <2>2. wire[d] # <<>>
      BY <1>6 DEF Serve, Refuse, Lose
    <2> QED BY <1>0, <2>1, <2>2
  <1>7. CASE VpsRestart
    BY <1>7 DEF VpsRestart
  <1> QED BY <1>1, <1>2, <1>3, <1>4, <1>5, <1>6, <1>7 DEF Next, Forward

LEMMA StepEdits == TypeOK /\ TypeOK' /\ Edits /\ [Next]_vars => Edits'
  <1> SUFFICES ASSUME TypeOK, TypeOK', Edits, [Next]_vars PROVE Edits'
    OBVIOUS
  <1>1. ASSUME NEW k \in Keys, Kept(k)' PROVE Stands(k)'
    <2>1. Stands(k)
      <3>1. raced[k] \subseteq raced'[k]
        BY RacesStay
      <3>2. Kept(k)
        BY <1>1, <3>1 DEF Kept
      <3> QED BY <3>2 DEF Edits
    <2>2. ASSUME NEW n \in Nodes, NEW t \in Threads, NEW j \in Keys, NEW v \in Values,
                 Save(n, t, j, v)
          PROVE  Stands(k)'
      BY <1>1, <2>1, <2>2, StepSave
    <2>3. ASSUME NEW n \in Nodes, NEW e \in edits[n], Skip(n, e) \/ Enter(n, e) \/ Post(n, e)
          PROVE  Stands(k)'
      BY <1>1, <2>1, <2>3, StepForward DEF Enter, Post, Stages
    <2>4. ASSUME NEW n \in Nodes, NEW e \in edits[n], Schedule(n, e) PROVE Stands(k)'
      BY <2>1, <2>4, StepSchedule
    <2>5. CASE Propose
      BY <2>1, <2>5, StepPropose
    <2>6. CASE ReadWelcome \/ ReadState
      BY <2>1, <2>6, StepRead
    <2>7. ASSUME NEW c \in 1..MaxConns, Serve(c) PROVE Stands(k)'
      BY <1>1, <2>1, <2>7, StepServe
    <2>8. CASE \/ Answer \/ Disconnect \/ VpsRestart
               \/ \E c \in 1..MaxConns : Refuse(c) \/ Lose(c)
               \/ UNCHANGED vars
      BY <2>1, <2>8, StepCalm
    <2>9. CASE Connect
      BY <2>1, <2>9, StepConnect
    <2>10. CASE MacRestart
      BY <1>1, <2>1, <2>10, StepMacRestart
    <2> QED BY <2>2, <2>3, <2>4, <2>5, <2>6, <2>7, <2>8, <2>9, <2>10 DEF Next, Forward
  <1> QED BY <1>1, StepUnmade DEF Edits

\* Unless one of the races came over its key, the newest edit made on the Mac
\* is not forgotten before the VPS has applied it, and is in force there until
\* the VPS is edited, whatever is lost with a connection or a process.
THEOREM SyncEdits == Spec => []LastEditStands
  <1>1. Init => TypeOK /\ Edits
    BY InitTypes, InitEdits
  <1>2. TypeOK /\ Edits /\ [Next]_vars => (TypeOK /\ Edits)'
    BY StepTypes, StepEdits
  <1>3. Edits => LastEditStands
    BY DEF Edits, Stands, Carried, Seen, LastEditStands
  <1> QED BY <1>1, <1>2, <1>3, PTL DEF Spec
=============================================================================
