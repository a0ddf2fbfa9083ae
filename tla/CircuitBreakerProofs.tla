------------------------ MODULE CircuitBreakerProofs ------------------------
(***************************************************************************)
(* Proofs about CircuitBreaker, for any number of trades, callers, baskets *)
(* and any threshold: the types, that the counter is the number of losses  *)
(* counted since it was last set, and that no leg counts on its own.       *)
(***************************************************************************)
EXTENDS CircuitBreaker, FiniteSetTheorems, TLAPS

\* This task recorded the close of its trade and has not finished scoring it.
Scores(c) == task[c].pc \in {"score", "write"} /\ task[c].mine

\* One task per recorded close: apply_full_close has one winner, its trade has
\* not been counted yet, and what was counted was recorded.
OneScorer ==
    /\ \A c \in Closers : task[c].pc # "idle" => task[c].t \in Trades
    /\ \A c \in Closers : task[c].pc = "write" => task[c].mine
    /\ \A c \in Closers : Scores(c) => state[task[c].t] = "recorded" /\ task[c].t \notin counted
    /\ \A c, d \in Closers : Scores(c) /\ Scores(d) /\ task[c].t = task[d].t => c = d
    /\ \A t \in counted : state[t] = "recorded"

\* One task at a time is inside a score; it has seen the counter as it is.
OneWriter ==
    /\ \A c, d \in Closers : task[c].pc = "write" /\ task[d].pc = "write" => c = d
    /\ "cleared" \notin slips => \A c \in Closers : task[c].pc = "write" => task[c].seen = consec

Counted == IsFiniteSet(counted) /\ StreakIsReal

\* The outcome of this trade has not been taken into account yet.
Unscored(t) ==
    state[t] # "recorded" \/ \E c \in Closers : /\ task[c].pc = "score" /\ task[c].mine
                                                /\ task[c].t = t

InBasket(t) == basketOf[t] # NoBasket /\ t \in legs[basketOf[t]]

\* A leg that was announced, and has not been scored, is found in its basket;
\* so no task that is counting a loss is counting a leg's.
LegsFound ==
    slips \cap {"held", "died"} = {} =>
        /\ \A t \in Trades : Unscored(t) /\ (t \in named \/ \E b \in Baskets : t \in legs[b])
               => InBasket(t)
        /\ \A c \in Closers : task[c].pc = "write" => task[c].t \notin named

IInv == TypeOK /\ OneScorer /\ OneWriter /\ Counted /\ LegsFound /\ LegsScoreTogether

-----------------------------------------------------------------------------
(* Types                                                                    *)

TaskType == [pc : {"idle", "read", "score", "write"}, t : Trades \cup {NoTrade},
             mine : BOOLEAN, seen : Nat]

\* An idle task is a task.
LEMMA IdleTask == Idle \in TaskType
<1>1. FALSE \in BOOLEAN
  BY Zenon
<1> QED BY <1>1 DEF Idle, TaskType

\* TypeOK holds in the initial states.
LEMMA InitTypes == Init => TypeOK
<1> SUFFICES ASSUME Init PROVE TypeOK
    OBVIOUS
<1>1. task \in [Closers -> TaskType]
  BY IdleTask DEF Init
<1>2. /\ lost \in [Trades -> BOOLEAN] /\ cooling \in BOOLEAN
      /\ scored \in [Baskets -> BOOLEAN] /\ gain \in [Baskets -> BOOLEAN]
  BY Zenon DEF Init
<1>3. consec \in 0..(Threshold - 1) /\ base \in 0..(Threshold - 1)
  BY BreakerAssumption DEF Init
<1> QED BY <1>1, <1>2, <1>3 DEF Init, TypeOK, TaskType, Slips

\* Every step keeps the types.
LEMMA StepTypes == TypeOK /\ OneScorer /\ [Next]_vars => TypeOK'
<1> SUFFICES ASSUME TypeOK, OneScorer, [Next]_vars PROVE TypeOK'
    OBVIOUS
<1>0. task \in [Closers -> TaskType]
  BY DEF TypeOK, TaskType
<1>1. ASSUME NEW t \in Trades, Shut(t) PROVE TypeOK'
  <2>1. PICK l \in BOOLEAN : lost' = [lost EXCEPT ![t] = l]
    BY <1>1, Zenon DEF Shut
  <2>2. lost' \in [Trades -> BOOLEAN]
    BY <2>1, Zenon DEF TypeOK
  <2> QED BY <1>1, <2>2 DEF Shut, TypeOK, registry
<1>2. ASSUME NEW c \in Closers, NEW t \in Trades, ReadRow(c, t) PROVE TypeOK'
  <2>1. task' \in [Closers -> TaskType]
    BY <1>0, <1>2 DEF ReadRow, TaskType
  <2> QED BY <1>2, <2>1 DEF ReadRow, TypeOK, registry, TaskType
<1>3. ASSUME NEW c \in Closers, Book(c) PROVE TypeOK'
  <2>1. PICK b \in BOOLEAN : b = (state[task[c].t] = "shut")
    BY Zenon
  <2>2. task' = [task EXCEPT ![c].pc = "score", ![c].mine = b]
    BY <1>3, <2>1 DEF Book
  <2>3. task' \in [Closers -> TaskType]
    BY <1>0, <2>2 DEF TaskType
  <2> QED BY <1>3, <2>3 DEF Book, TypeOK, registry, TaskType
<1>4. ASSUME NEW c \in Closers, Done(c) PROVE task' \in [Closers -> TaskType]
  BY <1>0, <1>4, IdleTask DEF Done
<1>5. ASSUME Clear PROVE /\ consec' \in 0..(Threshold - 1) /\ counted' \subseteq Trades
                         /\ base' \in 0..(Threshold - 1)
  BY <1>5, BreakerAssumption DEF Clear, Restart
<1>6. ASSUME NEW c \in Closers, ScoreNothing(c) PROVE TypeOK'
  BY <1>6, <1>4 DEF ScoreNothing, TypeOK, registry, TaskType
<1>7. ASSUME NEW c \in Closers, ScoreAlone(c) PROVE TypeOK'
  <2>1. consec \in Nat
    BY BreakerAssumption DEF TypeOK
  <2>2. task' \in [Closers -> TaskType]
    <3>1. CASE Done(c)
      BY <1>4, <3>1
    <3>2. CASE task' = [task EXCEPT ![c].pc = "write", ![c].seen = consec]
      BY <1>0, <2>1, <3>2 DEF TaskType
    <3> QED BY <1>7, <3>1, <3>2 DEF ScoreAlone
  <2>3. consec' \in 0..(Threshold - 1) /\ base' \in 0..(Threshold - 1) /\ counted' \subseteq Trades
    BY <1>7, <1>5 DEF ScoreAlone, TypeOK
  <2> QED BY <1>7, <2>2, <2>3 DEF ScoreAlone, TypeOK, registry, TaskType
<1>8. ASSUME NEW c \in Closers, WriteLoss(c) PROVE TypeOK'
  <2>1. task[c].seen \in Nat /\ task[c].t \in Trades
    BY <1>0, <1>8 DEF WriteLoss, TaskType, OneScorer
  <2>2. consec' \in 0..(Threshold - 1) /\ base' \in 0..(Threshold - 1) /\ counted' \subseteq Trades
    BY <1>8, <1>5, <2>1, BreakerAssumption DEF WriteLoss, TypeOK
  <2>3. cooling' \in BOOLEAN
    BY <1>8, Zenon DEF WriteLoss, TypeOK
  <2> QED BY <1>8, <1>4, <2>2, <2>3 DEF WriteLoss, TypeOK, registry, TaskType
<1>9. ASSUME NEW c \in Closers, ScoreLeg(c) PROVE TypeOK'
  <2>1. consec' \in 0..(Threshold - 1) /\ base' \in 0..(Threshold - 1) /\ counted' \subseteq Trades
    BY <1>9, <1>5 DEF ScoreLeg, TypeOK
  <2>2. scored' \in [Baskets -> BOOLEAN]
    BY <1>9, Zenon DEF ScoreLeg, TypeOK
  <2>3. legs' \in [Baskets -> SUBSET Trades] /\ basketOf' \in [Trades -> Baskets \cup {NoBasket}]
    BY <1>9 DEF ScoreLeg, TypeOK
  <2> QED BY <1>9, <1>4, <2>1, <2>2, <2>3 DEF ScoreLeg, TypeOK, TaskType
<1>10. ASSUME NEW b \in Baskets, NEW S \in SUBSET Trades, Announce(b, S) PROVE TypeOK'
  <2>1. named' \subseteq Trades /\ slips' \subseteq Slips
    BY <1>10 DEF Announce, TypeOK, Slips
  <2>2. CASE UNCHANGED registry
    BY <1>10, <2>1, <2>2 DEF Announce, TypeOK, registry
  <2>3. CASE legs[b] = {}
    <3>1. PICK g \in BOOLEAN : gain' = [gain EXCEPT ![b] = g]
      BY <1>10, <2>3, Zenon DEF Announce
    <3>2. scored' = [scored EXCEPT ![b] = FALSE]
      BY <1>10, <2>3, Zenon DEF Announce
    <3>3. gain' \in [Baskets -> BOOLEAN] /\ scored' \in [Baskets -> BOOLEAN]
      BY <3>1, <3>2, Zenon DEF TypeOK
    <3>4. legs' \in [Baskets -> SUBSET Trades] /\ basketOf' \in [Trades -> Baskets \cup {NoBasket}]
      BY <1>10, <2>3 DEF Announce, TypeOK
    <3> QED BY <1>10, <2>1, <3>3, <3>4 DEF Announce, TypeOK
  <2> QED BY <1>10, <2>2, <2>3 DEF Announce
<1>11. CASE ResetBreaker
  <2>1. cooling' \in BOOLEAN
    BY <1>11, Zenon DEF ResetBreaker
  <2> QED BY <1>11, <1>5, <2>1 DEF ResetBreaker, TypeOK, registry, Slips
<1>15. ASSUME NEW n \in 0..(Threshold - 1), SettingsMirror(n) PROVE TypeOK'
  <2>1. cooling' \in BOOLEAN
    BY <1>15, Zenon DEF SettingsMirror
  <2> QED BY <1>15, <2>1 DEF SettingsMirror, Restart, TypeOK, registry, Slips
<1>12. CASE CooldownEnds
  <2>1. cooling' \in BOOLEAN
    BY <1>12, Zenon DEF CooldownEnds
  <2> QED BY <1>12, <2>1 DEF CooldownEnds, TypeOK, registry
<1>13. CASE Die
  <2>1. task' \in [Closers -> TaskType]
    BY <1>13, IdleTask DEF Die
  <2> QED BY <1>13, <2>1 DEF Die, TypeOK, TaskType, Slips
<1>14. CASE UNCHANGED vars
  BY <1>14 DEF vars, registry, TypeOK
<1> QED BY <1>1, <1>2, <1>3, <1>6, <1>7, <1>8, <1>9, <1>10, <1>11, <1>12, <1>13, <1>14, <1>15
       DEF Next, CloseStep

-----------------------------------------------------------------------------
(* Who scores                                                               *)

\* What an idle task is not.
LEMMA IdleScoresNothing ==
    ASSUME TypeOK, NEW c \in Closers, Done(c)
    PROVE  /\ task'[c].pc = "idle" /\ ~Scores(c)'
           /\ \A d \in Closers : d # c => task'[d] = task[d]
  BY DEF TypeOK, Done, Idle, Scores

\* OneScorer looks at nothing but these.
LEMMA SameScorers ==
    ASSUME OneScorer, UNCHANGED <<state, task>>, counted' = counted \/ counted' = {}
    PROVE  OneScorer'
  BY DEF OneScorer, Scores

\* A task that has finished leaves the others as they were.
LEMMA FewerScorers ==
    ASSUME TypeOK, OneScorer, UNCHANGED state, NEW c \in Closers, Done(c),
           counted' = counted \/ counted' = {}
    PROVE  OneScorer'
<1>1. /\ task'[c].pc = "idle" /\ ~Scores(c)'
      /\ \A d \in Closers : d # c => task'[d] = task[d]
  BY IdleScoresNothing
<1>2. \A d \in Closers : Scores(d)' => d # c /\ Scores(d) /\ task'[d] = task[d]
  BY <1>1 DEF Scores
<1> QED BY <1>1, <1>2 DEF OneScorer

\* Every step keeps OneScorer.
LEMMA StepScorers == TypeOK /\ OneScorer /\ [Next]_vars => OneScorer'
<1> SUFFICES ASSUME TypeOK, OneScorer, [Next]_vars PROVE OneScorer'
    OBVIOUS
<1>1. ASSUME NEW t \in Trades, Shut(t) PROVE OneScorer'
  <2>1. \A u \in Trades : state[u] = "recorded" => state'[u] = "recorded"
    BY <1>1 DEF Shut, TypeOK
  <2>2. task' = task /\ counted' = counted /\ counted \subseteq Trades
    BY <1>1 DEF Shut, TypeOK
  <2> QED BY <2>1, <2>2 DEF OneScorer, Scores
<1>2. ASSUME NEW c \in Closers, NEW t \in Trades, ReadRow(c, t) PROVE OneScorer'
  <2>1. /\ task'[c].pc = "read" /\ task'[c].t = t
        /\ \A d \in Closers : d # c => task'[d] = task[d]
        /\ state' = state /\ counted' = counted
    BY <1>2 DEF ReadRow, TypeOK
  <2>2. \A d \in Closers : Scores(d)' => d # c /\ Scores(d)
    BY <2>1 DEF Scores
  <2> QED BY <2>1, <2>2 DEF OneScorer
<1>3. ASSUME NEW c \in Closers, Book(c) PROVE OneScorer'
  <2>1. task[c].t \in Trades
    BY <1>3 DEF Book, OneScorer
  <2>2. /\ task'[c].pc = "score" /\ task'[c].t = task[c].t
        /\ task'[c].mine <=> state[task[c].t] = "shut"
        /\ \A d \in Closers : d # c => task'[d] = task[d]
        /\ counted' = counted
    BY <1>3, <2>1 DEF Book, TypeOK
  <2>3. /\ state'[task[c].t] = "recorded"
        /\ \A u \in Trades : state[u] = "recorded" => state'[u] = "recorded"
    BY <1>3, <2>1 DEF Book, TypeOK
  <2>4. \A d \in Closers : Scores(d)' => d = c \/ Scores(d)
    BY <2>2 DEF Scores
  <2>5. Scores(c)' => /\ task[c].t \notin counted
                      /\ \A d \in Closers : Scores(d) => task[d].t # task[c].t
    BY <2>2 DEF Scores, OneScorer
  <2>6. \A d \in Closers : Scores(d) => task[d].t \in Trades
    BY DEF OneScorer, Scores
  <2>7. \A d, e \in Closers : Scores(d)' /\ Scores(e)' /\ task'[d].t = task'[e].t => d = e
    BY <2>2, <2>4, <2>5 DEF OneScorer
  <2>8. \A d \in Closers : Scores(d)' => /\ state'[task'[d].t] = "recorded"
                                         /\ task'[d].t \notin counted'
    BY <2>2, <2>3, <2>4, <2>5, <2>6 DEF OneScorer
  <2>9. \A t \in counted' : state'[t] = "recorded"
    BY <2>2, <2>3 DEF OneScorer, TypeOK
  <2>10. \A d \in Closers : /\ task'[d].pc # "idle" => task'[d].t \in Trades
                            /\ task'[d].pc = "write" => task'[d].mine
    BY <2>1, <2>2 DEF OneScorer
  <2> QED BY <2>7, <2>8, <2>9, <2>10 DEF OneScorer
<1>4. ASSUME NEW c \in Closers, ScoreNothing(c) PROVE OneScorer'
  BY <1>4, FewerScorers DEF ScoreNothing
<1>5. ASSUME NEW c \in Closers, ScoreAlone(c) PROVE OneScorer'
  <2>1. CASE Done(c) /\ Clear
    BY <1>5, <2>1, FewerScorers DEF ScoreAlone, Clear, Restart
  <2>2. CASE task' = [task EXCEPT ![c].pc = "write", ![c].seen = consec] /\ UNCHANGED counted
    <3>1. /\ task'[c].pc = "write" /\ task'[c].t = task[c].t /\ task'[c].mine = task[c].mine
          /\ \A d \in Closers : d # c => task'[d] = task[d]
      BY <2>2 DEF TypeOK
    <3>2. task[c].pc = "score" /\ task[c].mine /\ state' = state
      BY <1>5 DEF ScoreAlone
    <3>3. \A d \in Closers : Scores(d)' => Scores(d) /\ task'[d].t = task[d].t
      BY <3>1, <3>2 DEF Scores
    <3>4. \A d \in Closers : task'[d].pc = "write" => task'[d].mine
      BY <3>1, <3>2, Zenon DEF OneScorer
    <3>5. \A d \in Closers : task'[d].pc # "idle" => task'[d].t \in Trades
      BY <3>1, <3>2 DEF OneScorer
    <3>6. \A d \in Closers : Scores(d)' => /\ state'[task'[d].t] = "recorded"
                                           /\ task'[d].t \notin counted'
      <4>1. state' = state /\ counted' = counted
        BY <2>2, <3>2
      <4> QED BY <3>3, <4>1 DEF OneScorer
    <3>7. \A d, e \in Closers : Scores(d)' /\ Scores(e)' /\ task'[d].t = task'[e].t => d = e
      BY <3>3 DEF OneScorer
    <3>8. \A t \in counted' : state'[t] = "recorded"
      BY <2>2, <3>2 DEF OneScorer
    <3> QED BY <3>4, <3>5, <3>6, <3>7, <3>8, Zenon DEF OneScorer
  <2> QED BY <1>5, <2>1, <2>2 DEF ScoreAlone
<1>6. ASSUME NEW c \in Closers, WriteLoss(c) PROVE OneScorer'
  <2>1. CASE Clear
    BY <1>6, <2>1, FewerScorers DEF WriteLoss, Clear, Restart
  <2>2. CASE counted' = counted \cup {task[c].t}
    <3>1. /\ task'[c].pc = "idle" /\ ~Scores(c)'
          /\ \A d \in Closers : d # c => task'[d] = task[d]
      BY <1>6, IdleScoresNothing DEF WriteLoss
    <3>2. \A d \in Closers : Scores(d)' => d # c /\ Scores(d) /\ task'[d] = task[d]
      BY <3>1 DEF Scores
    <3>3. Scores(c) /\ state' = state
      BY <1>6 DEF WriteLoss, OneScorer, Scores
    <3> QED BY <2>2, <3>1, <3>2, <3>3 DEF OneScorer
  <2> QED BY <1>6, <2>1, <2>2 DEF WriteLoss
<1>7. ASSUME NEW c \in Closers, ScoreLeg(c) PROVE OneScorer'
  BY <1>7, FewerScorers DEF ScoreLeg, Clear, Restart
<1>8. ASSUME NEW b \in Baskets, NEW S \in SUBSET Trades, Announce(b, S) PROVE OneScorer'
  BY <1>8, SameScorers DEF Announce
<1>9. CASE ResetBreaker
  BY <1>9, SameScorers DEF ResetBreaker, Clear, Restart
<1>13. ASSUME NEW n \in 0..(Threshold - 1), SettingsMirror(n) PROVE OneScorer'
  BY <1>13, SameScorers DEF SettingsMirror, Restart
<1>10. CASE CooldownEnds
  BY <1>10, SameScorers DEF CooldownEnds
<1>11. CASE Die
  BY <1>11 DEF Die, Idle, OneScorer, Scores
<1>12. CASE UNCHANGED vars
  BY <1>12, SameScorers DEF vars
<1> QED BY <1>1, <1>2, <1>3, <1>4, <1>5, <1>6, <1>7, <1>8, <1>9, <1>10, <1>11, <1>12, <1>13
       DEF Next, CloseStep

-----------------------------------------------------------------------------
(* The counter                                                              *)

\* A finite set and its size, with one element more.
LEMMA OneMore ==
    ASSUME NEW S, IsFiniteSet(S), NEW x, x \notin S
    PROVE  IsFiniteSet(S \cup {x}) /\ Cardinality(S \cup {x}) = Cardinality(S) + 1
  BY FS_AddElement

\* Nothing has been counted when the counter has just been set.
LEMMA NoneCounted ==
    ASSUME NEW n \in Nat, Restart(n)
    PROVE  IsFiniteSet(counted') /\ consec' = base' + Cardinality(counted')
  BY FS_EmptySet DEF Restart

\* Every step keeps OneWriter.
LEMMA StepWriter == TypeOK /\ OneScorer /\ OneWriter /\ [Next]_vars => OneWriter'
<1> SUFFICES ASSUME TypeOK, OneScorer, OneWriter, [Next]_vars PROVE OneWriter'
    OBVIOUS
<1>1. ASSUME UNCHANGED <<task, consec, slips>> PROVE OneWriter'
  BY <1>1 DEF OneWriter
<1>2. ASSUME NEW c \in Closers, NEW r, r.pc # "write", task' = [task EXCEPT ![c] = r],
             UNCHANGED <<consec, slips>>
      PROVE  OneWriter'
  BY <1>2 DEF OneWriter, TypeOK
<1>3. ASSUME NEW t \in Trades, Shut(t) PROVE OneWriter'
  BY <1>1, <1>3 DEF Shut
<1>4. ASSUME NEW c \in Closers, NEW t \in Trades, ReadRow(c, t) PROVE OneWriter'
  BY <1>4 DEF ReadRow, OneWriter, TypeOK
<1>5. ASSUME NEW c \in Closers, Book(c) PROVE OneWriter'
  BY <1>5 DEF Book, OneWriter, TypeOK
<1>6. ASSUME NEW c \in Closers, ScoreNothing(c) PROVE OneWriter'
  BY <1>6 DEF ScoreNothing, Done, Idle, OneWriter, TypeOK
<1>7. ASSUME NEW c \in Closers, ScoreAlone(c) PROVE OneWriter'
  <2>1. \A d \in Closers : task[d].pc # "write"
    BY <1>7 DEF ScoreAlone, ThreadFree
  <2>2. CASE Done(c)
    BY <2>1, <2>2 DEF Done, Idle, OneWriter, TypeOK
  <2>3. CASE /\ task' = [task EXCEPT ![c].pc = "write", ![c].seen = consec]
             /\ UNCHANGED consec
    <3>1. /\ task'[c].seen = consec'
          /\ \A d \in Closers : d # c => task'[d] = task[d]
      BY <2>3 DEF TypeOK
    <3> QED BY <2>1, <3>1 DEF OneWriter
  <2> QED BY <1>7, <2>2, <2>3 DEF ScoreAlone
<1>8. ASSUME NEW c \in Closers, WriteLoss(c) PROVE OneWriter'
  <2>1. \A d \in Closers : d # c => task[d].pc # "write"
    BY <1>8 DEF WriteLoss, OneWriter
  <2> QED BY <1>8, <2>1 DEF WriteLoss, Done, Idle, OneWriter, TypeOK
<1>9. ASSUME NEW c \in Closers, ScoreLeg(c) PROVE OneWriter'
  <2>1. \A d \in Closers : task[d].pc # "write"
    BY <1>9 DEF ScoreLeg, ThreadFree
  <2> QED BY <1>9, <2>1 DEF ScoreLeg, Done, Idle, OneWriter, TypeOK
<1>10. ASSUME NEW b \in Baskets, NEW S \in SUBSET Trades, Announce(b, S) PROVE OneWriter'
  <2>1. "cleared" \notin slips' => "cleared" \notin slips
    BY <1>10 DEF Announce
  <2> QED BY <1>10, <2>1 DEF Announce, OneWriter
<1>11. CASE ResetBreaker
  <2>1. "cleared" \notin slips' => \A c \in Closers : task[c].pc # "write"
    BY <1>11 DEF ResetBreaker, ThreadFree
  <2> QED BY <1>11, <2>1 DEF ResetBreaker, OneWriter
<1>15. ASSUME NEW n \in 0..(Threshold - 1), SettingsMirror(n) PROVE OneWriter'
  <2>1. "cleared" \notin slips' => \A c \in Closers : task[c].pc # "write"
    BY <1>15 DEF SettingsMirror, ThreadFree
  <2> QED BY <1>15, <2>1 DEF SettingsMirror, OneWriter
<1>12. CASE CooldownEnds
  BY <1>1, <1>12 DEF CooldownEnds
<1>13. CASE Die
  BY <1>13 DEF Die, Idle, OneWriter
<1>14. CASE UNCHANGED vars
  BY <1>1, <1>14 DEF vars
<1> QED BY <1>3, <1>4, <1>5, <1>6, <1>7, <1>8, <1>9, <1>10, <1>11, <1>12, <1>13, <1>14, <1>15
       DEF Next, CloseStep

\* Every step keeps Counted.
LEMMA StepCounted == TypeOK /\ OneScorer /\ OneWriter /\ Counted /\ [Next]_vars => Counted'
<1> SUFFICES ASSUME TypeOK, OneScorer, OneWriter, Counted, [Next]_vars PROVE Counted'
    OBVIOUS
<1>1. ASSUME UNCHANGED <<consec, base, counted>>, slips \subseteq slips' PROVE Counted'
  BY <1>1 DEF Counted, StreakIsReal
<1>0. ASSUME NEW n \in Nat, Restart(n) PROVE Counted'
  BY <1>0, NoneCounted DEF Counted, StreakIsReal
<1>2. ASSUME Clear PROVE Counted'
  BY <1>0, <1>2 DEF Clear
<1>3. ASSUME NEW c \in Closers, WriteLoss(c) PROVE Counted'
  <2>1. CASE Clear
    BY <1>2, <2>1
  <2>2. CASE consec' = task[c].seen + 1 /\ counted' = counted \cup {task[c].t} /\ base' = base
    <3>1. task[c].t \notin counted
      BY <1>3 DEF WriteLoss, OneScorer, Scores
    <3>2. /\ IsFiniteSet(counted')
          /\ Cardinality(counted') = Cardinality(counted) + 1
      BY <2>2, <3>1, OneMore DEF Counted
    <3>3. "cleared" \notin slips =>
             task[c].seen = consec /\ consec = base + Cardinality(counted)
      BY <1>3 DEF WriteLoss, OneWriter, Counted, StreakIsReal
    <3>4. base \in Nat /\ Cardinality(counted) \in Nat
      BY FS_CardinalityType DEF Counted, TypeOK
    <3> QED BY <1>3, <2>2, <3>2, <3>3, <3>4 DEF WriteLoss, Counted, StreakIsReal
  <2> QED BY <1>3, <2>1, <2>2 DEF WriteLoss
<1>4. ASSUME NEW t \in Trades, Shut(t) PROVE Counted'
  BY <1>1, <1>4 DEF Shut
<1>5. ASSUME NEW c \in Closers, NEW t \in Trades, ReadRow(c, t) PROVE Counted'
  BY <1>1, <1>5 DEF ReadRow
<1>6. ASSUME NEW c \in Closers, Book(c) \/ ScoreNothing(c) PROVE Counted'
  BY <1>1, <1>6 DEF Book, ScoreNothing
<1>7. ASSUME NEW c \in Closers, ScoreAlone(c) PROVE Counted'
  BY <1>1, <1>2, <1>7 DEF ScoreAlone
<1>8. ASSUME NEW c \in Closers, ScoreLeg(c) PROVE Counted'
  BY <1>1, <1>2, <1>8 DEF ScoreLeg
<1>9. ASSUME NEW b \in Baskets, NEW S \in SUBSET Trades, Announce(b, S) PROVE Counted'
  BY <1>1, <1>9 DEF Announce
<1>10. CASE ResetBreaker
  BY <1>2, <1>10 DEF ResetBreaker
<1>14. ASSUME NEW n \in 0..(Threshold - 1), SettingsMirror(n) PROVE Counted'
  BY <1>0, <1>14 DEF SettingsMirror
<1>11. CASE CooldownEnds
  BY <1>1, <1>11 DEF CooldownEnds
<1>12. CASE Die
  BY <1>1, <1>12 DEF Die
<1>13. CASE UNCHANGED vars
  BY <1>1, <1>13 DEF vars
<1> QED BY <1>3, <1>4, <1>5, <1>6, <1>7, <1>8, <1>9, <1>10, <1>11, <1>12, <1>13, <1>14
       DEF Next, CloseStep

-----------------------------------------------------------------------------
(* Baskets                                                                  *)

\* A trade whose scoring task is done counts as scored from then on.
LEMMA ScoredStays ==
    ASSUME TypeOK, OneScorer, UNCHANGED state, NEW c \in Closers, Done(c)
    PROVE  /\ \A t \in Trades : Unscored(t)' => Unscored(t)
           /\ \A t \in Trades : Scores(c) /\ t = task[c].t => ~Unscored(t)'
           /\ \A d \in Closers : task'[d].pc = "write" => d # c /\ task'[d] = task[d]
<1>1. /\ task'[c].pc = "idle"
      /\ \A d \in Closers : d # c => task'[d] = task[d]
  BY IdleScoresNothing
<1>2. ASSUME NEW t \in Trades, Scores(c), t = task[c].t, Unscored(t)' PROVE FALSE
  <2>1. state'[t] = "recorded"
    BY <1>2 DEF OneScorer
  <2>2. PICK d \in Closers : task'[d].pc = "score" /\ task'[d].mine /\ task'[d].t = t
    BY <1>2, <2>1, Zenon DEF Unscored
  <2>3. d # c /\ Scores(d) /\ task[d].t = task[c].t
    BY <1>1, <1>2, <2>2 DEF Scores
  <2> QED BY <1>2, <2>3 DEF OneScorer
<1>3. ASSUME NEW t \in Trades, Unscored(t)' PROVE Unscored(t)
  <2>1. CASE state'[t] # "recorded"
    BY <2>1 DEF Unscored
  <2>2. ASSUME NEW d \in Closers, task'[d].pc = "score", task'[d].mine, task'[d].t = t
        PROVE  Unscored(t)
    <3>1. task'[d] = task[d]
      BY <1>1, <2>2
    <3> QED BY <2>2, <3>1 DEF Unscored
  <2> QED BY <1>3, <2>1, <2>2 DEF Unscored
<1> QED BY <1>1, <1>2, <1>3

\* Steps that neither announce nor score keep every leg in its basket.
LEMMA SameBaskets ==
    ASSUME LegsFound, UNCHANGED <<registry, named>>, slips' = slips,
           \A t \in Trades : Unscored(t)' => Unscored(t),
           \A d \in Closers : task'[d].pc = "write" => task[d].pc = "write" /\ task'[d].t = task[d].t
    PROVE  LegsFound'
<1> SUFFICES ASSUME slips' \cap {"held", "died"} = {}
             PROVE  /\ \A t \in Trades : Unscored(t)' /\ (t \in named' \/ \E b \in Baskets : t \in legs'[b])
                           => InBasket(t)'
                    /\ \A c \in Closers : task'[c].pc = "write" => task'[c].t \notin named'
    BY DEF LegsFound
<1>1. \A t \in Trades : InBasket(t)' <=> InBasket(t)
  BY DEF InBasket, registry
<1> QED BY <1>1 DEF LegsFound, registry

\* Every step keeps LegsFound.
LEMMA StepLegs == TypeOK /\ OneScorer /\ LegsFound /\ [Next]_vars => LegsFound'
<1> SUFFICES ASSUME TypeOK, OneScorer, LegsFound, [Next]_vars PROVE LegsFound'
    OBVIOUS
<1>1. ASSUME NEW t \in Trades, Shut(t) PROVE LegsFound'
  <2>1. \A u \in Trades : Unscored(u)' => Unscored(u)
    BY <1>1 DEF Shut, Unscored, TypeOK
  <2> QED BY <1>1, <2>1, SameBaskets DEF Shut
<1>2. ASSUME NEW c \in Closers, NEW t \in Trades, ReadRow(c, t) PROVE LegsFound'
  <2>1. /\ task'[c].pc = "read" /\ state' = state
        /\ \A d \in Closers : d # c => task'[d] = task[d]
    BY <1>2 DEF ReadRow, TypeOK
  <2>2. \A u \in Trades : Unscored(u)' => Unscored(u)
    BY <2>1 DEF Unscored
  <2> QED BY <1>2, <2>1, <2>2, SameBaskets DEF ReadRow
<1>3. ASSUME NEW c \in Closers, Book(c) PROVE LegsFound'
  <2>1. task[c].t \in Trades
    BY <1>3 DEF Book, OneScorer
  <2>2. /\ task'[c].pc = "score" /\ task'[c].t = task[c].t
        /\ task'[c].mine => state[task[c].t] = "shut"
        /\ \A d \in Closers : d # c => task'[d] = task[d]
        /\ \A u \in Trades : state'[u] # "recorded" => state[u] # "recorded"
    BY <1>3, <2>1 DEF Book, TypeOK
  <2>3. ASSUME NEW u \in Trades, Unscored(u)' PROVE Unscored(u)
    <3>1. CASE state'[u] # "recorded"
      BY <2>2, <3>1 DEF Unscored
    <3>2. ASSUME NEW d \in Closers, task'[d].pc = "score", task'[d].mine, task'[d].t = u
          PROVE  Unscored(u)
      <4>1. CASE d = c
        BY <2>2, <3>2, <4>1 DEF Unscored
      <4>2. CASE d # c
        <5>1. task'[d] = task[d]
          BY <2>2, <4>2
        <5> QED BY <3>2, <5>1 DEF Unscored
      <4> QED BY <4>1, <4>2
    <3> QED BY <2>3, <3>1, <3>2 DEF Unscored
  <2> QED BY <1>3, <2>2, <2>3, SameBaskets DEF Book
<1>4. ASSUME NEW c \in Closers, Done(c), UNCHANGED <<state, registry, named, slips>>
      PROVE  LegsFound'
  BY <1>4, ScoredStays, SameBaskets
<1>5. ASSUME NEW c \in Closers, ScoreNothing(c) PROVE LegsFound'
  BY <1>5, <1>4 DEF ScoreNothing
<1>6. ASSUME NEW c \in Closers, WriteLoss(c) PROVE LegsFound'
  BY <1>6, <1>4 DEF WriteLoss
<1>7. ASSUME NEW c \in Closers, ScoreAlone(c) PROVE LegsFound'
  <2>1. CASE Done(c)
    BY <1>7, <2>1, <1>4 DEF ScoreAlone
  <2>2. CASE task' = [task EXCEPT ![c].pc = "write", ![c].seen = consec]
    <3>1. /\ task'[c].pc = "write" /\ task'[c].t = task[c].t
          /\ \A d \in Closers : d # c => task'[d] = task[d]
      BY <2>2 DEF TypeOK
    <3>2. UNCHANGED <<state, basketOf, legs, named, slips>>
      BY <1>7 DEF ScoreAlone, registry
    <3>3. ASSUME NEW u \in Trades, Unscored(u)' PROVE Unscored(u)
      <4>1. ASSUME NEW d \in Closers, task'[d].pc = "score", task'[d].mine, task'[d].t = u
            PROVE  Unscored(u)
        <5>1. task'[d] = task[d]
          BY <3>1, <4>1
        <5> QED BY <4>1, <5>1 DEF Unscored
      <4> QED BY <3>2, <3>3, <4>1 DEF Unscored
    <3>4. task[c].t \in Trades /\ Unscored(task[c].t) /\ ~InBasket(task[c].t)
      <4>1. task[c].t \in Trades
        BY <1>7 DEF ScoreAlone, OneScorer
      <4>2. Unscored(task[c].t)
        BY <1>7, Zenon DEF ScoreAlone, Unscored
      <4> QED BY <1>7, <4>1, <4>2 DEF ScoreAlone, InBasket
    <3>5. slips \cap {"held", "died"} = {} => task[c].t \notin named
      BY <3>4 DEF LegsFound
    <3>6. \A t \in Trades : InBasket(t)' <=> InBasket(t)
      BY <3>2 DEF InBasket
    <3> QED BY <3>1, <3>2, <3>3, <3>5, <3>6 DEF LegsFound
  <2> QED BY <1>7, <2>1, <2>2 DEF ScoreAlone
<1>8. ASSUME NEW c \in Closers, ScoreLeg(c) PROVE LegsFound'
  <2> DEFINE u == task[c].t
             b == basketOf[u]
             left == legs[b] \ {u}
  <2>1. /\ u \in Trades /\ Scores(c) /\ b \in Baskets /\ state' = state /\ Done(c)
        /\ named' = named /\ slips' = slips
    BY <1>8 DEF ScoreLeg, OneScorer, Scores, TypeOK
  <2>2. /\ \A t \in Trades : Unscored(t)' => Unscored(t) /\ t # u
        /\ \A d \in Closers : task'[d].pc = "write" => task'[d] = task[d]
    BY <2>1, ScoredStays
  <2>3. /\ legs' = [legs EXCEPT ![b] = left]
        /\ \A t \in Trades : basketOf'[t] = IF left = {} /\ basketOf[t] = b THEN NoBasket ELSE basketOf[t]
    BY <1>8 DEF ScoreLeg
  <2>4. ASSUME NEW t \in Trades, slips' \cap {"held", "died"} = {}, Unscored(t)',
               t \in named' \/ \E k \in Baskets : t \in legs'[k]
        PROVE  InBasket(t)'
    <3>1. Unscored(t) /\ t # u
      BY <2>2, <2>4
    <3>2. t \in named \/ \E k \in Baskets : t \in legs[k]
      BY <2>1, <2>3, <2>4 DEF TypeOK
    <3>3. InBasket(t)
      BY <2>1, <2>4, <3>1, <3>2 DEF LegsFound
    <3>4. basketOf[t] \in Baskets /\ t \in legs[basketOf[t]]
      BY <3>3 DEF InBasket, TypeOK
    <3>5. basketOf'[t] = basketOf[t]
      BY <2>3, <3>1, <3>4
    <3>6. t \in legs'[basketOf[t]]
      BY <2>1, <2>3, <3>1, <3>4 DEF TypeOK
    <3> QED BY <3>3, <3>5, <3>6 DEF InBasket
  <2>5. slips' \cap {"held", "died"} = {}
            => \A d \in Closers : task'[d].pc = "write" => task'[d].t \notin named'
    BY <2>1, <2>2 DEF LegsFound
  <2> QED BY <2>4, <2>5 DEF LegsFound
<1>9. ASSUME NEW b \in Baskets, NEW S \in SUBSET Trades, Announce(b, S) PROVE LegsFound'
  <2> SUFFICES ASSUME slips' \cap {"held", "died"} = {}
               PROVE  /\ \A t \in Trades :
                           Unscored(t)' /\ (t \in named' \/ \E k \in Baskets : t \in legs'[k])
                             => InBasket(t)'
                      /\ \A c \in Closers : task'[c].pc = "write" => task'[c].t \notin named'
      BY DEF LegsFound
  <2>1. /\ state' = state /\ task' = task
        /\ named' = named \cup {t \in S : state[t] # "recorded"}
    BY <1>9 DEF Announce
  <2>2. slips \cap {"held", "died"} = {}
    BY <1>9 DEF Announce
  <2>3. \A t \in Trades : Unscored(t)' <=> Unscored(t)
    BY <2>1 DEF Unscored
  <2>4. \A c \in Closers : task'[c].pc = "write" => task'[c].t \notin named'
    <3>1. \A c \in Closers : task[c].pc = "write" => state[task[c].t] = "recorded"
      BY DEF OneScorer, Scores
    <3> QED BY <2>1, <2>2, <3>1 DEF LegsFound
  <2>5. ASSUME NEW t \in Trades, Unscored(t),
               t \in named' \/ \E k \in Baskets : t \in legs'[k]
        PROVE  InBasket(t)'
    <3>1. CASE legs[b] # {} /\ S \subseteq legs[b] /\ UNCHANGED registry
      <4>1. t \in named \/ \E k \in Baskets : t \in legs[k]
        BY <2>1, <2>5, <3>1 DEF registry
      <4>2. InBasket(t)
        BY <2>2, <2>5, <4>1 DEF LegsFound
      <4> QED BY <3>1, <4>2 DEF InBasket, registry
    <3>2. CASE /\ legs[b] = {}
               /\ legs' = [legs EXCEPT ![b] = S]
               /\ basketOf' = [x \in Trades |-> IF x \in S THEN b ELSE basketOf[x]]
      <4>1. CASE t \in S
        BY <3>2, <4>1, BreakerAssumption DEF InBasket, TypeOK
      <4>2. CASE t \notin S
        <5>1. t \in named \/ \E k \in Baskets : t \in legs[k]
          BY <2>1, <2>5, <3>2, <4>2 DEF TypeOK
        <5>2. InBasket(t)
          BY <2>2, <2>5, <5>1 DEF LegsFound
        <5>3. basketOf[t] # b
          BY <3>2, <5>2 DEF InBasket
        <5> QED BY <3>2, <4>2, <5>2, <5>3 DEF InBasket, TypeOK
      <4> QED BY <4>1, <4>2
    <3> QED BY <1>9, <3>1, <3>2 DEF Announce
  <2> QED BY <2>3, <2>4, <2>5
<1>10. ASSUME ResetBreaker \/ \E n \in 0..(Threshold - 1) : SettingsMirror(n)
       PROVE  LegsFound'
  <2>1. UNCHANGED <<state, task, registry, named>> /\ slips \subseteq slips'
    BY <1>10 DEF ResetBreaker, SettingsMirror
  <2>2. \A t \in Trades : (Unscored(t)' <=> Unscored(t)) /\ (InBasket(t)' <=> InBasket(t))
    BY <2>1 DEF Unscored, InBasket, registry
  <2> QED BY <2>1, <2>2 DEF LegsFound, registry
<1>11. CASE CooldownEnds
  <2>1. \A t \in Trades : Unscored(t)' <=> Unscored(t)
    BY <1>11 DEF CooldownEnds, Unscored
  <2> QED BY <1>11, <2>1, SameBaskets DEF CooldownEnds
<1>12. CASE Die
  BY <1>12 DEF Die, LegsFound
<1>13. CASE UNCHANGED vars
  <2>1. \A t \in Trades : Unscored(t)' <=> Unscored(t)
    BY <1>13 DEF vars, Unscored
  <2> QED BY <1>13, <2>1, SameBaskets DEF vars
<1> QED BY <1>1, <1>2, <1>3, <1>5, <1>6, <1>7, <1>8, <1>9, <1>10, <1>11, <1>12, <1>13
       DEF Next, CloseStep

\* Every step keeps LegsScoreTogether.
LEMMA StepTogether ==
    TypeOK /\ OneScorer /\ LegsFound /\ LegsScoreTogether /\ [Next]_vars => LegsScoreTogether'
<1> SUFFICES ASSUME TypeOK, OneScorer, LegsFound, LegsScoreTogether, [Next]_vars,
                    slips' \cap {"held", "died"} = {}
             PROVE  counted' \cap named' = {}
    BY DEF LegsScoreTogether
<1>1. ASSUME slips \subseteq slips', named' = named, counted' = counted \/ counted' = {}
      PROVE  counted' \cap named' = {}
  BY <1>1 DEF LegsScoreTogether
<1>2. ASSUME NEW t \in Trades, Shut(t) PROVE counted' \cap named' = {}
  BY <1>1, <1>2 DEF Shut
<1>3. ASSUME NEW c \in Closers, NEW t \in Trades, ReadRow(c, t) PROVE counted' \cap named' = {}
  BY <1>1, <1>3 DEF ReadRow
<1>4. ASSUME NEW c \in Closers, Book(c) \/ ScoreNothing(c) \/ ScoreAlone(c) \/ ScoreLeg(c)
      PROVE  counted' \cap named' = {}
  BY <1>1, <1>4 DEF Book, ScoreNothing, ScoreAlone, ScoreLeg, Clear, Restart
<1>5. ASSUME NEW c \in Closers, WriteLoss(c) PROVE counted' \cap named' = {}
  <2>1. task[c].t \notin named
    BY <1>5 DEF WriteLoss, LegsFound
  <2> QED BY <1>5, <2>1 DEF WriteLoss, Clear, Restart, LegsScoreTogether
<1>6. ASSUME NEW b \in Baskets, NEW S \in SUBSET Trades, Announce(b, S)
      PROVE  counted' \cap named' = {}
  <2>1. \A t \in counted : state[t] = "recorded"
    BY DEF OneScorer
  <2> QED BY <1>6, <2>1 DEF Announce, LegsScoreTogether
<1>7. ASSUME ResetBreaker \/ \E n \in 0..(Threshold - 1) : SettingsMirror(n)
      PROVE  counted' \cap named' = {}
  BY <1>1, <1>7 DEF ResetBreaker, SettingsMirror, Clear, Restart
<1>8. CASE CooldownEnds
  BY <1>1, <1>8 DEF CooldownEnds
<1>9. CASE Die
  BY <1>1, <1>9 DEF Die
<1>10. CASE UNCHANGED vars
  BY <1>1, <1>10 DEF vars
<1> QED BY <1>2, <1>3, <1>4, <1>5, <1>6, <1>7, <1>8, <1>9, <1>10 DEF Next, CloseStep

-----------------------------------------------------------------------------
\* The invariant holds in the initial states.
LEMMA InitInvariant == Init => IInv
<1> SUFFICES ASSUME Init PROVE IInv
    OBVIOUS
<1>1. TypeOK
  BY InitTypes
<1>2. OneScorer /\ OneWriter
  BY DEF Init, Idle, OneScorer, OneWriter, Scores
<1>3. Counted
  BY FS_EmptySet DEF Init, Counted, StreakIsReal
<1>4. LegsFound /\ LegsScoreTogether
  BY DEF Init, Idle, LegsFound, LegsScoreTogether
<1> QED BY <1>1, <1>2, <1>3, <1>4 DEF IInv

\* Every step keeps the invariant.
LEMMA StepInvariant == IInv /\ [Next]_vars => IInv'
  BY StepTypes, StepScorers, StepWriter, StepCounted, StepLegs, StepTogether DEF IInv

\* The invariant holds throughout.
LEMMA Invariance == Spec => []IInv
  BY InitInvariant, StepInvariant, PTL DEF Spec

\* Whatever is closed, announced, reset or restarted, the breaker's rows and the
\* registry keep their types; in particular the counter stays below the threshold.
THEOREM BreakerTypes == Spec => []TypeOK
<1>1. IInv => TypeOK
  BY DEF IInv
<1> QED BY Invariance, <1>1, PTL

\* The counter is what it was last set to plus the number of different trades
\* whose own loss was counted since (record_live_trade_outcome), for any number
\* of racing callers of record_close and of writes by the settings sync.
THEOREM BreakerCounts == Spec => []StreakIsReal
<1>1. IInv => StreakIsReal
  BY DEF IInv, Counted
<1> QED BY Invariance, <1>1, PTL

\* No leg of an announced basket is counted on its own (basket_breaker.register
\* and score_close), unless a name was still held or the registry lost.
THEOREM BreakerLegs == Spec => []LegsScoreTogether
<1>1. IInv => LegsScoreTogether
  BY DEF IInv
<1> QED BY Invariance, <1>1, PTL
=============================================================================
