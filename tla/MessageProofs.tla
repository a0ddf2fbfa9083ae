--------------------------- MODULE MessageProofs ---------------------------
(***************************************************************************)
(* Proofs about a channel's messages, for any number of messages, scripts, *)
(* edits, restarts and any limits.                                         *)
(*                                                                         *)
(* MessageReader: every step of the reader is a step MessageBuffer allows, *)
(* the safety half of the refinement (that it keeps the buffer's fairness  *)
(* is left to TLC).  MessageScanner: a CLOSE ALL acts once, the types, and  *)
(* that a message leads to one trade.                                      *)
(***************************************************************************)
EXTENDS MessageReader, MessageScanner, FiniteSetTheorems, TLAPS

(* The reader                                                               *)

Copies == [m : Messages, v : Nat]

\* Every copy under way is of a version the channel has shown.
Said(q) == \A i \in 1..Len(q) : q[i].v \in 1..version[q[i].m]

ReaderInv ==
    /\ posted \in 0..MaxPosts /\ online \in BOOLEAN
    /\ version \in [Messages -> Nat] /\ buffer \in [Messages -> Nat]
    /\ queue \in Seq(Copies) /\ page \in Seq(Copies)
    /\ \A m \in Messages : version[m] > 0 <=> m <= posted
    /\ Said(queue) /\ Said(page)

-----------------------------------------------------------------------------
\* A poll asks for no more messages than there are.
LEMMA PageFits ==
    ASSUME posted \in Nat, NEW n \in Nat
    PROVE  Cardinality(Recent(n)) \in 0..posted
<1>1. IsFiniteSet(1..posted) /\ Cardinality(1..posted) = posted
  <2>1. 1 \in Int /\ posted \in Int
    OBVIOUS
  <2>2. IsFiniteSet(1..posted) /\ Cardinality(1..posted) = IF 1 > posted THEN 0 ELSE posted - 1 + 1
    BY <2>1, FS_Interval
  <2> QED BY <2>2
<1>2. Recent(n) \subseteq 1..posted
  BY DEF Recent
<1>3. IsFiniteSet(Recent(n)) /\ Cardinality(Recent(n)) <= posted
  BY <1>1, <1>2, FS_Subset
<1> QED BY <1>3, FS_CardinalityType

\* What the queue becomes when an event is delivered or dropped.
LEMMA Delivered ==
    ASSUME ReaderInv, NEW m \in Messages, NEW v \in Nat, Deliver(m, v)
    PROVE  /\ queue' \in Seq(Copies)
           /\ \A i \in 1..Len(queue') : (i \in 1..Len(queue) /\ queue'[i] = queue[i])
                                        \/ (queue'[i].m = m /\ queue'[i].v = v)
<1>1. CASE UNCHANGED queue
  BY <1>1 DEF ReaderInv
<1>2. CASE queue' = Append(queue, [m |-> m, v |-> v])
  <2>1. queue \in Seq(Copies) /\ [m |-> m, v |-> v] \in Copies
    BY DEF ReaderInv, Copies
  <2>2. /\ queue' \in Seq(Copies) /\ Len(queue') = Len(queue) + 1
        /\ queue'[Len(queue) + 1] = [m |-> m, v |-> v]
        /\ \A i \in 1..Len(queue) : queue'[i] = queue[i]
    BY <1>2, <2>1
  <2> QED BY <2>1, <2>2
<1> QED BY <1>1, <1>2 DEF Deliver

\* The rest of a queue is made of what was in it.
LEMMA Rest ==
    ASSUME NEW q \in Seq(Copies), q # <<>>
    PROVE  /\ Head(q) \in Copies /\ Head(q) = q[1] /\ Len(q) >= 1
           /\ Tail(q) \in Seq(Copies)
           /\ \A i \in 1..Len(Tail(q)) : i + 1 \in 1..Len(q) /\ Tail(q)[i] = q[i + 1]
  OBVIOUS

\* What was said stays said: versions only grow.
LEMMA StillSaid ==
    ASSUME NEW q \in Seq(Copies), Said(q),
           \A m \in Messages : version[m] \in Nat /\ version'[m] \in Nat /\ version'[m] >= version[m]
    PROVE  \A i \in 1..Len(q) : q[i].v \in 1..version'[q[i].m]
<1> SUFFICES ASSUME NEW i \in 1..Len(q) PROVE q[i].v \in 1..version'[q[i].m]
    OBVIOUS
<1>1. q[i] \in Copies /\ q[i].v \in 1..version[q[i].m]
  BY DEF Said
<1>2. q[i].m \in Messages /\ q[i].v \in Nat
  BY <1>1 DEF Copies
<1> QED BY <1>1, <1>2

\* The invariant holds in the initial states.
LEMMA ReaderStarts == ReaderInit => ReaderInv
  BY BufferAssumption DEF ReaderInit, BufferInit, ReaderInv, Said, Messages

\* A copy taken from a queue goes into the buffer; the rest waits.
LEMMA TakeFirst ==
    ASSUME ReaderInv, NEW q \in Seq(Copies), Said(q), q # <<>>, BufferMessage(Head(q)),
           UNCHANGED <<posted, version>>
    PROVE  /\ buffer' \in [Messages -> Nat] /\ Tail(q) \in Seq(Copies)
           /\ \A i \in 1..Len(Tail(q)) : Tail(q)[i].v \in 1..version'[Tail(q)[i].m]
           /\ \A r \in Seq(Copies) : Said(r) => \A i \in 1..Len(r) : r[i].v \in 1..version'[r[i].m]
<1>1. /\ Head(q) \in Copies /\ Tail(q) \in Seq(Copies)
      /\ \A i \in 1..Len(Tail(q)) : i + 1 \in 1..Len(q) /\ Tail(q)[i] = q[i + 1]
  BY Rest
<1>2. buffer' \in [Messages -> Nat]
  BY <1>1 DEF BufferMessage, ReaderInv, Copies
<1>3. \A i \in 1..Len(Tail(q)) : Tail(q)[i].v \in 1..version'[Tail(q)[i].m]
  BY <1>1 DEF Said
<1>4. \A r \in Seq(Copies) : Said(r) => \A i \in 1..Len(r) : r[i].v \in 1..version'[r[i].m]
  BY DEF Said
<1> QED BY <1>1, <1>2, <1>3, <1>4

\* What a lost or a new connection changes: at most the page is given up.
LEMMA LinkSteps ==
    ASSUME ReaderInv, FetchFails \/ LinkDrops \/ LinkReturns \/ Watchdog \/ Reconnect
    PROVE  /\ UNCHANGED <<posted, version, buffer, queue>> /\ online' \in BOOLEAN
           /\ page' = page \/ page' = <<>>
  BY DEF ReaderInv, FetchFails, LinkDrops, LinkReturns, Watchdog, Reconnect, RestartListeners,
         Connect, Link, bufferVars

\* Every step keeps the invariant.
LEMMA ReaderKeeps == ReaderInv /\ [ReaderNext]_readerVars => ReaderInv'
<1> SUFFICES ASSUME ReaderInv, [ReaderNext]_readerVars PROVE ReaderInv'
    OBVIOUS
<1> USE BufferAssumption, ReaderAssumption
<1>0. \A m : m \in Messages <=> m \in Nat /\ 1 <= m /\ m <= MaxPosts
  BY DEF Messages
<1>a. /\ posted \in Nat /\ posted <= MaxPosts /\ MaxPosts \in Nat
      /\ \A m \in Messages : version[m] \in Nat /\ (version[m] > 0 <=> m <= posted)
  BY DEF ReaderInv
<1>1. CASE NewMessage
  <2>1. posted + 1 \in Messages /\ posted' = posted + 1 /\ UNCHANGED <<buffer, online, page>>
    BY <1>0, <1>1, <1>a DEF NewMessage, PostMessage
  <2>2. version[posted + 1] = 0
    BY <2>1 DEF ReaderInv
  <2>3. /\ version' \in [Messages -> Nat] /\ version'[posted + 1] = 1
        /\ \A m \in Messages : m # posted + 1 => version'[m] = version[m]
    BY <1>1, <2>1 DEF NewMessage, PostMessage, ReaderInv
  <2>4. \A m \in Messages : version[m] \in Nat /\ version'[m] \in Nat /\ version'[m] >= version[m]
    <3> SUFFICES ASSUME NEW m \in Messages
                 PROVE  version[m] \in Nat /\ version'[m] \in Nat /\ version'[m] >= version[m]
        OBVIOUS
    <3>1. version[m] \in Nat
      BY <1>a
    <3> QED BY <2>2, <2>3, <3>1
  <2>5. /\ queue' \in Seq(Copies)
        /\ \A i \in 1..Len(queue') : (i \in 1..Len(queue) /\ queue'[i] = queue[i])
                                     \/ (queue'[i].m = posted + 1 /\ queue'[i].v = 1)
    BY <1>1, <2>1, Delivered DEF NewMessage
  <2>6. \A i \in 1..Len(queue) : queue[i].v \in 1..version'[queue[i].m]
    BY <2>4, StillSaid DEF ReaderInv
  <2>7. Said(queue)'
    BY <2>3, <2>5, <2>6 DEF Said
  <2>8. Said(page)'
    BY <2>1, <2>4, StillSaid DEF ReaderInv, Said
  <2>9. \A m \in Messages : version'[m] > 0 <=> m <= posted'
    <3> SUFFICES ASSUME NEW m \in Messages PROVE version'[m] > 0 <=> m <= posted'
        OBVIOUS
    <3>1. m \in Nat
      BY <1>0
    <3>2. CASE m = posted + 1
      BY <2>1, <2>3, <3>1, <3>2
    <3>3. CASE m # posted + 1
      BY <1>a, <2>1, <2>3, <3>1, <3>3
    <3> QED BY <3>2, <3>3
  <2>10. posted' \in 0..MaxPosts
    BY <1>0, <2>1 DEF ReaderInv
  <2> QED BY <2>1, <2>3, <2>5, <2>7, <2>8, <2>9, <2>10 DEF ReaderInv
<1>2. ASSUME NEW m \in Messages, MessageEdited(m) PROVE ReaderInv'
  <2>1. m <= posted /\ UNCHANGED <<posted, buffer, online, page>>
    BY <1>2 DEF MessageEdited, EditMessage
  <2>2. /\ version' \in [Messages -> Nat] /\ version'[m] = version[m] + 1
        /\ \A k \in Messages : k # m => version'[k] = version[k]
    BY <1>2 DEF MessageEdited, EditMessage, ReaderInv
  <2>3. \A k \in Messages : version[k] \in Nat /\ version'[k] \in Nat /\ version'[k] >= version[k]
    <3> SUFFICES ASSUME NEW k \in Messages
                 PROVE  version[k] \in Nat /\ version'[k] \in Nat /\ version'[k] >= version[k]
        OBVIOUS
    <3>1. version[k] \in Nat /\ version[m] \in Nat
      BY <1>a
    <3>2. version'[k] = version[k] + 1 \/ version'[k] = version[k]
      BY <2>2
    <3> QED BY <3>1, <3>2
  <2>4. /\ queue' \in Seq(Copies)
        /\ \A i \in 1..Len(queue') : (i \in 1..Len(queue) /\ queue'[i] = queue[i])
                                     \/ (queue'[i].m = m /\ queue'[i].v = version[m] + 1)
    BY <1>2, Delivered DEF MessageEdited, ReaderInv
  <2>5. \A i \in 1..Len(queue) : queue[i].v \in 1..version'[queue[i].m]
    BY <2>3, StillSaid DEF ReaderInv
  <2>6. Said(queue)'
    BY <2>2, <2>3, <2>4, <2>5 DEF Said
  <2>7. Said(page)'
    BY <2>1, <2>3, StillSaid DEF ReaderInv, Said
  <2>8. \A k \in Messages : version'[k] > 0 <=> k <= posted'
    <3> SUFFICES ASSUME NEW k \in Messages PROVE version'[k] > 0 <=> k <= posted'
        OBVIOUS
    <3>1. CASE k = m
      BY <1>a, <2>1, <2>2, <3>1
    <3>2. CASE k # m
      BY <1>a, <2>1, <2>2, <3>2
    <3> QED BY <3>1, <3>2
  <2> QED BY <2>1, <2>2, <2>4, <2>6, <2>7, <2>8 DEF ReaderInv
<1>3. CASE ProcessEvent
  BY <1>3, TakeFirst DEF ProcessEvent, ReaderInv, Said
<1>4. CASE Fetch
  <2>1. PICK k \in Nat :
           LET n == Cardinality(Recent(k)) IN
           page' = [i \in 1..n |-> [m |-> posted + 1 - i, v |-> version[posted + 1 - i]]]
    BY <1>4 DEF Fetch
  <2>2. PICK n \in 0..posted : n = Cardinality(Recent(k))
    BY PageFits DEF ReaderInv
  <2>3. page' = [i \in 1..n |-> [m |-> posted + 1 - i, v |-> version[posted + 1 - i]]]
    BY <2>1, <2>2
  <2>4. \A i \in 1..n : /\ posted + 1 - i \in Messages
                        /\ version[posted + 1 - i] \in Nat \ {0}
    <3> SUFFICES ASSUME NEW i \in 1..n
                 PROVE  /\ posted + 1 - i \in Messages
                        /\ version[posted + 1 - i] \in Nat \ {0}
        OBVIOUS
    <3>1. posted + 1 - i \in Nat /\ 1 <= posted + 1 - i /\ posted + 1 - i <= posted
      BY <1>a
    <3>2. posted + 1 - i \in Messages
      BY <1>0, <1>a, <3>1
    <3> QED BY <1>a, <3>1, <3>2
  <2>5. \A i \in 1..n : [m |-> posted + 1 - i, v |-> version[posted + 1 - i]] \in Copies
    BY <2>4 DEF Copies
  <2>6. page' \in Seq(Copies) /\ Len(page') = n
    BY <2>3, <2>5
  <2>7. UNCHANGED <<posted, version, buffer, online, queue>>
    BY <1>4 DEF Fetch, bufferVars
  <2>8. Said(page)'
    BY <2>3, <2>4, <2>6, <2>7 DEF Said
  <2> QED BY <2>6, <2>7, <2>8 DEF ReaderInv, Said
<1>5. CASE RecordMessage
  BY <1>5, TakeFirst DEF RecordMessage, ReaderInv, Said
<1>6. CASE Restart
  BY <1>6 DEF Restart, Forget, ReaderInv, Said
<1>7. CASE UNCHANGED readerVars
  BY <1>7 DEF readerVars, bufferVars, ReaderInv, Said
<1>8. CASE FetchFails \/ LinkDrops \/ LinkReturns \/ Watchdog \/ Reconnect
  <2>1. /\ UNCHANGED <<posted, version, buffer, queue>> /\ online' \in BOOLEAN
        /\ page' = page \/ page' = <<>>
    BY <1>8, LinkSteps
  <2>2. page' \in Seq(Copies) /\ Said(page)'
    <3>1. page \in Seq(Copies) /\ Said(page)
      BY DEF ReaderInv
    <3>2. CASE page' = page
      BY <2>1, <3>1, <3>2 DEF Said
    <3>3. CASE page' = <<>>
      BY <3>3 DEF Said
    <3> QED BY <2>1, <3>2, <3>3
  <2> QED BY <2>1, <2>2 DEF ReaderInv, Said
<1> QED BY <1>1, <1>2, <1>3, <1>4, <1>5, <1>6, <1>7, <1>8 DEF ReaderNext

\* Every step of the reader is a step of the buffer, or none.
LEMMA ReaderRefines == ReaderInv /\ [ReaderNext]_readerVars => [BufferNext]_bufferVars
<1> SUFFICES ASSUME ReaderInv, [ReaderNext]_readerVars PROVE BufferNext \/ UNCHANGED bufferVars
    OBVIOUS
<1>1. ASSUME NEW c \in Copies, c.v \in 1..version[c.m], BufferMessage(c),
             UNCHANGED <<posted, version, online>>
      PROVE  BufferNext
  <2>1. Show(c.m, c.v)
    BY <1>1 DEF Show, BufferMessage
  <2> QED BY <1>1, <2>1 DEF BufferNext, Copies
<1>2. CASE NewMessage
  BY <1>2 DEF NewMessage, BufferNext
<1>3. ASSUME NEW m \in Messages, MessageEdited(m) PROVE BufferNext
  BY <1>3 DEF MessageEdited, BufferNext
<1>4. CASE ProcessEvent
  <2>1. Head(queue) \in Copies /\ Head(queue).v \in 1..version[Head(queue).m]
    BY <1>4, Rest DEF ProcessEvent, ReaderInv, Said
  <2> QED BY <1>1, <1>4, <2>1 DEF ProcessEvent
<1>5. CASE Fetch
  BY <1>5 DEF Fetch
<1>6. CASE RecordMessage
  <2>1. Head(page) \in Copies /\ Head(page).v \in 1..version[Head(page).m]
    BY <1>6, Rest DEF RecordMessage, ReaderInv, Said
  <2> QED BY <1>1, <1>6, <2>1 DEF RecordMessage
<1>7. CASE Restart
  BY <1>7 DEF Restart, BufferNext
<1>8. CASE UNCHANGED readerVars
  BY <1>8 DEF readerVars
<1>9. CASE FetchFails \/ LinkDrops \/ LinkReturns \/ Watchdog \/ Reconnect
  <2>1. UNCHANGED <<posted, version, buffer>> /\ online' \in BOOLEAN /\ online \in BOOLEAN
    BY <1>9, LinkSteps DEF ReaderInv
  <2>2. CASE online' = online
    BY <2>1, <2>2 DEF bufferVars
  <2>3. CASE online' # online
    BY <2>1, <2>3 DEF BufferNext, Link
  <2> QED BY <2>2, <2>3
<1> QED BY <1>2, <1>3, <1>4, <1>5, <1>6, <1>7, <1>8, <1>9 DEF ReaderNext

\* The reader's buffer never shows what was not said: however events and pages
\* overtake each other (_event_processor against _backfill), and whenever the
\* connection is lost (_connection_watchdog) or the process restarts, each of
\* its steps is one of MessageBuffer's.
THEOREM ReaderImplementsBuffer == ReaderSpec => BufferInit /\ [][BufferNext]_bufferVars
<1>1. ReaderInit => BufferInit
  BY DEF ReaderInit
<1> QED BY <1>1, ReaderStarts, ReaderKeeps, ReaderRefines, PTL DEF ReaderSpec

-----------------------------------------------------------------------------
(* The scanner: CLOSE ALL                                                   *)

\* A message that was not claimed has closed nothing and is not about to; one
\* that is about to has not done so before.
ClaimFirst ==
    /\ fired \in [Messages -> Nat] /\ claimed \subseteq Messages
    /\ DOMAIN task = {"pc", "m", "x"}
    /\ \A m \in Messages : m \notin claimed => fired[m] = 0
    /\ task.pc = "trigger" => task.m \in claimed /\ fired[task.m] = 0

IInv == ClaimFirst /\ TriggerActsOnce

-----------------------------------------------------------------------------
\* Nothing but the trigger and its CLOSE ALL touches claims or counts.
LEMMA Untouched ==
    ASSUME IInv, UNCHANGED <<claimed, fired>>,
           task' = task \/ (task'.pc # "trigger" /\ DOMAIN task' = {"pc", "m", "x"})
    PROVE  IInv'
  BY DEF IInv, ClaimFirst, TriggerActsOnce

\* Everything the scanner starts is not a trigger.
LEMMA Begun ==
    ASSUME NEW pc \in {"resolved", "ready", "instant"}, NEW m, NEW x, Begin(pc, m, x)
    PROVE  task'.pc # "trigger" /\ DOMAIN task' = {"pc", "m", "x"}
  BY DEF Begin

\* The branches of scan_messages other than the trigger.
LEMMA StepMessage ==
    ASSUME IInv, NEW m, NEW x,
           \/ Dedup(m, x) \/ EditInstant(m, x) \/ EditLevels(m, x) \/ EditFlip(m, x)
           \/ Promote(m, x) \/ Instant(m, x) \/ Signal(m, x) \/ Chatter(m, x) \/ Partial(m, x)
           \/ InsertHold(m, x) \/ ResolveHold(m, x) \/ Attach(m, x)
    PROVE  IInv'
<1> USE Untouched, Begun DEF Known, Unknown, Look, dbVars
<1>1. CASE Dedup(m, x)
  BY <1>1 DEF Dedup
<1>2. CASE EditInstant(m, x)
  BY <1>2 DEF EditInstant
<1>3. CASE EditLevels(m, x)
  BY <1>3 DEF EditLevels
<1>4. CASE EditFlip(m, x)
  BY <1>4 DEF EditFlip
<1>5. CASE Promote(m, x)
  BY <1>5 DEF Promote
<1>6. CASE Instant(m, x)
  BY <1>6 DEF Instant
<1>7. CASE Signal(m, x)
  BY <1>7 DEF Signal, Record, Idle
<1>8. CASE Chatter(m, x)
  BY <1>8 DEF Chatter
<1>9. CASE Partial(m, x)
  BY <1>9 DEF Partial
<1>10. CASE InsertHold(m, x)
  BY <1>10 DEF InsertHold
<1>11. CASE ResolveHold(m, x)
  BY <1>11 DEF ResolveHold
<1>12. CASE Attach(m, x)
  BY <1>12 DEF Attach
<1> QED BY <1>1, <1>2, <1>3, <1>4, <1>5, <1>6, <1>7, <1>8, <1>9, <1>10, <1>11, <1>12

\* The trigger claims its message, or finds it claimed.
LEMMA StepTrigger ==
    ASSUME IInv, NEW m \in Messages, NEW x, Trigger(m, x)
    PROVE  IInv'
<1>1. fired' = fired
  BY DEF Trigger, Look
<1>2. CASE UNCHANGED <<claimed, task>>
  BY <1>1, <1>2, Untouched
<1>3. CASE m \notin claimed /\ claimed' = claimed \cup {m} /\ Begin("trigger", m, x)
  <2>1. task'.m = m /\ fired[m] = 0 /\ DOMAIN task' = {"pc", "m", "x"}
    BY <1>3 DEF Begin, IInv, ClaimFirst
  <2> QED BY <1>1, <1>3, <2>1 DEF IInv, ClaimFirst, TriggerActsOnce
<1> QED BY <1>2, <1>3 DEF Trigger

\* CLOSE ALL acts for a claimed message that has not acted yet.
LEMMA StepCloseAll ==
    ASSUME IInv, CloseAll
    PROVE  IInv'
<1>1. /\ task.pc = "trigger" /\ task'.pc = "idle" /\ claimed' = claimed
      /\ DOMAIN task' = {"pc", "m", "x"}
      /\ fired' = [fired EXCEPT ![task.m] = @ + 1]
  BY DEF CloseAll, Idle
<1>2. task.m \in claimed /\ fired[task.m] = 0
  BY <1>1 DEF IInv, ClaimFirst
<1> QED BY <1>1, <1>2 DEF IInv, ClaimFirst, TriggerActsOnce

\* What the scanner has started is carried through.
LEMMA StepExecute ==
    ASSUME IInv, Execute
    PROVE  IInv'
<1> USE Untouched DEF Busy, Idle
<1>1. CASE CloseAll
  BY <1>1, StepCloseAll
<1>2. CASE RecordHeld
  BY <1>2 DEF RecordHeld, Record
<1>3. CASE Followup
  BY <1>3 DEF Followup
<1>4. CASE Refuse \/ QueueSignal
  BY <1>4 DEF Refuse, QueueSignal, OwnTrade
<1>5. CASE Activate
  <2>1. task' = [task EXCEPT !.pc = "open"] /\ DOMAIN task = {"pc", "m", "x"}
    BY <1>5 DEF Activate, OwnTrade, IInv, ClaimFirst
  <2>2. task'.pc = "open" /\ DOMAIN task' = {"pc", "m", "x"}
    BY <2>1
  <2> QED BY <1>5, <2>2 DEF Activate, OwnTrade
<1>6. CASE Open
  BY <1>6 DEF Open
<1>7. CASE InstantGate
  <2>1. CASE task' = Idle
    BY <1>7, <2>1 DEF InstantGate
  <2>2. CASE task' = [task EXCEPT !.pc = "instant_open"]
    <3>1. DOMAIN task = {"pc", "m", "x"}
      BY DEF IInv, ClaimFirst
    <3>2. task'.pc = "instant_open" /\ DOMAIN task' = {"pc", "m", "x"}
      BY <2>2, <3>1
    <3> QED BY <1>7, <3>2 DEF InstantGate
  <2> QED BY <1>7, <2>1, <2>2 DEF InstantGate
<1>8. CASE InstantOpen
  BY <1>8 DEF InstantOpen
<1>9. CASE OpenThenFails
  BY <1>9 DEF OpenThenFails, FilledThenFails
<1> QED BY <1>1, <1>2, <1>3, <1>4, <1>5, <1>6, <1>7, <1>8, <1>9 DEF Execute

\* Every step keeps the invariant.
LEMMA StepInvariant == IInv /\ [Next]_vars => IInv'
<1> SUFFICES ASSUME IInv, [Next]_vars PROVE IInv'
    OBVIOUS
<1> USE Untouched DEF dbVars
<1>1. CASE Post
  BY <1>1 DEF Post
<1>2. ASSUME NEW m \in Messages, Edit(m) PROVE IInv'
  BY <1>2 DEF Edit
<1>3. ASSUME NEW m \in Messages, NEW v, Arrive(m, v) PROVE IInv'
  BY <1>3 DEF Arrive
<1>4. CASE ScanStart \/ Skip
  BY <1>4 DEF ScanStart, Skip
<1>5. CASE ScanMessage
  <2>1. PICK m, x :
           /\ m \in Messages
           /\ \/ Trigger(m, x) \/ Dedup(m, x)
              \/ EditInstant(m, x) \/ EditLevels(m, x) \/ EditFlip(m, x) \/ Promote(m, x)
              \/ Instant(m, x) \/ Signal(m, x) \/ Chatter(m, x) \/ Partial(m, x)
              \/ InsertHold(m, x) \/ ResolveHold(m, x) \/ Attach(m, x)
    BY <1>5, Zenon DEF ScanMessage, Scanned
  <2> QED BY <2>1, StepTrigger, StepMessage
<1>6. CASE Execute
  BY <1>6, StepExecute
<1>7. ASSUME NEW m \in Messages, BotTake(m) PROVE IInv'
  BY <1>7 DEF BotTake
<1>8. CASE BotOpen
  BY <1>8 DEF BotOpen
<1>9. ASSUME NEW w \in waiting, Watch(w) PROVE IInv'
  BY <1>9 DEF Watch, Elsewhere
<1>10. ASSUME NEW m \in Messages, GrowOld(m) PROVE IInv'
  BY <1>10 DEF GrowOld, Elsewhere
<1>11. ASSUME NEW i \in DOMAIN held, HoldDue(i) PROVE IInv'
  BY <1>11 DEF HoldDue, Elsewhere
<1>12. ASSUME NEW i \in DOMAIN trades, TradeAges(i) \/ TradeEnds(i) PROVE IInv'
  BY <1>12 DEF TradeAges, TradeEnds, Elsewhere
<1>13. CASE Crash
  BY <1>13 DEF Crash, Idle
<1>14. CASE UNCHANGED vars
  BY <1>14 DEF vars
<1>15. ASSUME NEW m \in Messages, ExecuteRow(m) \/ DeleteRow(m) PROVE IInv'
  BY <1>15 DEF ExecuteRow, DeleteRow
<1>16. ASSUME NEW w \in waiting, WatchThenFails(w) PROVE IInv'
  BY <1>16 DEF WatchThenFails, FilledThenFails
<1>17. CASE LinkChanges
  BY <1>17 DEF LinkChanges
<1> QED BY <1>1, <1>2, <1>3, <1>4, <1>5, <1>6, <1>7, <1>8, <1>9, <1>10, <1>11, <1>12, <1>13, <1>14,
           <1>15, <1>16, <1>17
       DEF Next, Scan

\* A CLOSE ALL is carried out at most once (try_handle_close_all_trigger claims
\* its message first), however often it is scanned and edited and whenever the
\* process restarts.
THEOREM CloseAllActsOnce == Spec => []TriggerActsOnce
<1>1. Init => IInv
  BY DEF Init, Idle, IInv, ClaimFirst, TriggerActsOnce
<1>2. IInv => TriggerActsOnce
  BY DEF IInv
<1> QED BY <1>1, <1>2, StepInvariant, PTL DEF Spec

-----------------------------------------------------------------------------
(* The scanner: types                                                       *)

Copied == [Messages -> 0..(MaxEdits + 1)]
Rows == [st : Statuses, dir : Dirs \cup {"-"}, x : Texts \cup {NoText}]
Holds == [st : {"none", "waiting", "resolved"}, levels : SUBSET Messages, due : BOOLEAN]
Openings == [m : Messages, dir : Dirs, by : {"scan", "ime", "watcher", "bot", "table"},
             st : {"young", "old", "closed", "unseen"}]
Parkings == [m : Messages, dir : Dirs, by : {"scan", "bot", "table"}]
Works == [pc : {"idle", "trigger", "resolved", "ready", "open", "instant", "instant_open"},
          m : Messages \cup {0}, x : Texts \cup {NoText}]

Bots == [m : Messages, dir : Dirs] \cup {NoBot}

\* The buffer shows what was said.
ChannelOK ==
    /\ ime \in BOOLEAN /\ second \in BOOLEAN
    /\ posted \in 0..MaxPosts /\ online \in BOOLEAN
    /\ version \in Copied /\ buffer \in Copied
    /\ says \in Scripts /\ fresh \in [Messages -> BOOLEAN]
    /\ \A m \in Messages : version[m] > 0 => m <= posted
    /\ \A m \in Messages : buffer[m] <= version[m] /\ version[m] <= Len(says[m])

\* A row that is there has a direction.
RowsOK ==
    /\ row \in [Messages -> Rows]
    /\ \A m \in Messages : row[m].st = "none" => row[m] = NoRow
    /\ \A m \in Messages : row[m].st # "none" => row[m].dir \in Dirs

\* A task has its message, and, past the trigger, a direction.
TaskOK ==
    /\ left \in 0..MaxPosts /\ task \in Works
    /\ task.pc # "idle" => task.m \in Messages
    /\ task.pc \notin {"idle", "trigger"} => task.x.dir \in Dirs
    /\ bot \in Bots

\* A hold is in the list once.
HoldsOK ==
    /\ hold \in [Messages -> Holds]
    /\ \A m \in Messages : Cardinality(hold[m].levels) <= 1
    /\ held \in Seq(Messages) /\ \A i, j \in DOMAIN held : held[i] = held[j] => i = j
    /\ \A i \in DOMAIN held : hold[held[i]].st # "none"

BookOK == trades \in Seq(Openings) /\ waiting \subseteq Parkings

HistoryOK ==
    /\ claimed \subseteq Messages /\ mishaps \in 0..MaxMishaps
    /\ fired \in [Messages -> Nat] /\ raced \subseteq Messages

Types == ChannelOK /\ RowsOK /\ TaskOK /\ HoldsOK /\ BookOK /\ HistoryOK

\* Together the parts are the module's type invariant.
LEMMA TypesCover == Types => TypeOK
BY DEF Types, ChannelOK, RowsOK, TaskOK, HoldsOK, BookOK, HistoryOK, TypeOK, Copied, Rows, Holds,
       Openings, Parkings, Works, Bots

\* Texts that can open a trade name a direction.
LEMMA TextDirs ==
    \A x \in Texts : /\ x.dir \in Dirs \cup {"-"}
                     /\ x.kind \in {"full", "entry", "now"} => x.dir \in Dirs
BY DEF Texts, Dirs

\* Every message of a script says something.
LEMMA ScriptLines ==
    ASSUME NEW s \in Scripts, NEW m \in Messages
    PROVE  s[m] \in Seq(Texts) /\ s[m] # <<>> /\ Len(s[m]) \in Nat \ {0}
<1>1. s[m] \in Seq(Texts) \ {<<>>}
  BY ScannerAssumption
<1> QED
  BY <1>1

\* The parts hold at the start.
LEMMA InitTypes == Init => Types
<1> SUFFICES ASSUME Init PROVE Types
  OBVIOUS
<1> USE BufferAssumption, ScannerAssumption
<1>1. ChannelOK
  <2>1. \A m \in Messages : Len(says[m]) \in Nat \ {0}
    BY ScriptLines DEF Init
  <2> QED
    BY <2>1 DEF Init, BufferInit, ChannelOK, Copied, Messages
<1>2. RowsOK
  BY DEF Init, RowsOK, Rows, NoRow, Statuses, NoText
<1>3. TaskOK
  BY DEF Init, TaskOK, Works, Idle, NoText, Bots
<1>4. HoldsOK
  <2>1. \A m \in Messages : hold[m] = NoHold
    BY DEF Init
  <2>2. Cardinality({}) = 0 /\ NoHold.levels = {}
    BY FS_EmptySet DEF NoHold
  <2>3. hold \in [Messages -> Holds]
    BY DEF Init, Holds, NoHold
  <2>4. ASSUME NEW m \in Messages PROVE Cardinality(hold[m].levels) <= 1
    <3>1. hold[m].levels = {}
      BY <2>1, <2>2
    <3> QED
      BY <2>2, <3>1
  <2>5. held = <<>> /\ held \in Seq(Messages) /\ DOMAIN held = {}
    BY DEF Init
  <2> QED
    BY <2>3, <2>4, <2>5 DEF HoldsOK
<1>5. BookOK /\ HistoryOK
  BY DEF Init, BookOK, HistoryOK
<1> QED
  BY <1>1, <1>2, <1>3, <1>4, <1>5 DEF Types

\* What the pass reads when it comes to a message.
LEMMA LookAt ==
    ASSUME Types, NEW m, NEW x, Look(m, x)
    PROVE  /\ m \in Messages /\ x \in Texts /\ task = Idle
           /\ left' \in 0..MaxPosts
           /\ UNCHANGED <<ime, second, channelVars, bot, mishaps, fired, raced>>
<1>1. m \in Messages /\ buffer[m] # 0 /\ x = says[m][buffer[m]]
  BY DEF Look, Scanned
<1>2. buffer[m] \in 1..Len(says[m])
  BY <1>1, ScriptLines DEF Types, ChannelOK, Copied
<1>3. x \in Texts
  BY <1>1, <1>2, ScriptLines DEF Types, ChannelOK
<1>4. left' \in 0..MaxPosts
  BY <1>1, BufferAssumption DEF Look, Messages, Types, TaskOK
<1> QED
  BY <1>1, <1>3, <1>4 DEF Look

\* A message has no more versions than there may be edits, and one.
LEMMA EditsBound ==
    ASSUME ChannelOK, NEW m \in Messages, EditMessage(m)
    PROVE  version[m] <= MaxEdits
<1> USE BufferAssumption
<1> DEFINE Own == {<<m, k>> : k \in 2..(MaxEdits + 1)}
           All == {e \in Messages \X (2..(MaxEdits + 1)) : e[2] <= version[e[1]]}
<1> SUFFICES ASSUME version[m] = MaxEdits + 1 PROVE FALSE
  BY DEF ChannelOK, Copied
<1>1. IsFiniteSet(2..(MaxEdits + 1)) /\ Cardinality(2..(MaxEdits + 1)) = MaxEdits
  <2>1. 2 \in Int /\ MaxEdits + 1 \in Int
    OBVIOUS
  <2>2. /\ IsFiniteSet(2..(MaxEdits + 1))
        /\ Cardinality(2..(MaxEdits + 1))
             = IF 2 > MaxEdits + 1 THEN 0 ELSE MaxEdits + 1 - 2 + 1
    BY <2>1, FS_Interval
  <2> QED
    BY <2>2
<1>2. IsFiniteSet(Own) /\ Cardinality(Own) = MaxEdits
  <2> DEFINE f == [k \in 2..(MaxEdits + 1) |-> <<m, k>>]
  <2>1. f \in Bijection(2..(MaxEdits + 1), Own)
    BY DEF Bijection, Injection, Surjection, IsInjective
  <2> QED
    BY <1>1, <2>1, FS_Bijection DEF ExistsBijection
<1>3. IsFiniteSet(All)
  <2>1. IsFiniteSet(Messages)
    BY FS_Interval DEF Messages
  <2>2. IsFiniteSet(Messages \X (2..(MaxEdits + 1)))
    BY <1>1, <2>1, FS_Product
  <2> QED
    BY <2>2, FS_Subset
<1>4. Own \subseteq All
  OBVIOUS
<1>5. MaxEdits <= Cardinality(All)
  BY <1>2, <1>3, <1>4, FS_Subset
<1>6. Cardinality(All) \in Nat /\ Cardinality(All) < MaxEdits
  BY <1>3, FS_CardinalityType DEF EditMessage, Edits
<1> QED
  BY <1>5, <1>6

\* A new message shows its first version.
LEMMA PostOK == ChannelOK /\ Post => ChannelOK'
<1> SUFFICES ASSUME ChannelOK, Post PROVE ChannelOK'
  OBVIOUS
<1> USE BufferAssumption
<1>1. posted + 1 \in Messages /\ posted' = posted + 1 /\ posted' \in 0..MaxPosts
  BY DEF Post, PostMessage, Messages, ChannelOK
<1>2. /\ version' = [version EXCEPT ![posted + 1] = 1]
      /\ UNCHANGED <<ime, second, says, buffer, online>>
      /\ fresh' = [fresh EXCEPT ![posted + 1] = TRUE]
  BY DEF Post, PostMessage
<1>3. version' \in Copied /\ buffer' \in Copied /\ fresh' \in [Messages -> BOOLEAN]
  BY <1>1, <1>2 DEF ChannelOK, Copied
<1>4. \A k \in Messages : buffer[k] \in Nat /\ version[k] \in Nat /\ Len(says[k]) \in Nat \ {0}
  BY ScriptLines DEF ChannelOK, Copied
<1>5. version[posted + 1] = 0
  BY <1>1, <1>4 DEF ChannelOK
<1>6. ASSUME NEW k \in Messages
      PROVE  /\ version'[k] > 0 => k <= posted'
             /\ buffer'[k] <= version'[k] /\ version'[k] <= Len(says'[k])
  <2>1. CASE k = posted + 1
    BY <1>1, <1>2, <1>4, <1>5, <2>1 DEF ChannelOK, Copied
  <2>2. CASE k # posted + 1
    <3>1. version'[k] = version[k]
      BY <1>2, <2>2 DEF ChannelOK, Copied
    <3>2. k \in Nat /\ posted \in Nat
      BY DEF Messages, ChannelOK
    <3> QED
      BY <1>1, <1>2, <1>4, <3>1, <3>2 DEF ChannelOK
  <2> QED
    BY <2>1, <2>2
<1> QED
  BY <1>1, <1>2, <1>3, <1>6 DEF ChannelOK

\* An edit adds a version that the script has.
LEMMA EditOK == ASSUME ChannelOK, NEW m \in Messages, Edit(m) PROVE ChannelOK'
<1> USE BufferAssumption
<1>1. /\ m <= posted /\ version' = [version EXCEPT ![m] = @ + 1]
      /\ version[m] < Len(says[m])
      /\ UNCHANGED <<ime, second, says, buffer, online, fresh, posted>>
  BY DEF Edit, EditMessage
<1>2. version[m] <= MaxEdits
  BY EditsBound DEF Edit
<1>3. \A k \in Messages : buffer[k] \in Nat /\ version[k] \in Nat /\ Len(says[k]) \in Nat
  BY ScriptLines DEF ChannelOK, Copied
<1>4. version' \in Copied
  BY <1>1, <1>2, <1>3 DEF ChannelOK, Copied
<1>5. \A k \in Messages : version'[k] = IF k = m THEN version[m] + 1 ELSE version[k]
  BY <1>1 DEF ChannelOK, Copied
<1>6. \A k \in Messages : /\ version'[k] > 0 => k <= posted'
                          /\ buffer'[k] <= version'[k] /\ version'[k] <= Len(says'[k])
  BY <1>1, <1>3, <1>5 DEF ChannelOK
<1> QED
  BY <1>1, <1>4, <1>6 DEF ChannelOK

\* A copy shows a version that was said.
LEMMA ArriveOK == ASSUME ChannelOK, NEW m \in Messages, NEW v, Arrive(m, v) PROVE ChannelOK'
<1>1. /\ v \in 1..version[m] /\ buffer' = [buffer EXCEPT ![m] = v]
      /\ UNCHANGED <<ime, second, says, fresh, posted, version, online>>
  BY DEF Arrive, Show
<1>2. v \in 0..(MaxEdits + 1) /\ v <= version[m]
  BY <1>1, BufferAssumption DEF ChannelOK, Copied
<1>3. buffer' \in Copied /\ \A k \in Messages : buffer'[k] = IF k = m THEN v ELSE buffer[k]
  BY <1>1, <1>2 DEF ChannelOK, Copied
<1> QED
  BY <1>1, <1>2, <1>3 DEF ChannelOK

\* Only these steps touch the channel and its buffer.
LEMMA ChannelSteps ==
    ASSUME [Next]_vars
    PROVE  \/ Post \/ (\E m \in Messages : Edit(m) \/ GrowOld(m))
           \/ (\E m \in Messages : \E v \in 1..version[m] : Arrive(m, v))
           \/ Crash \/ LinkChanges \/ UNCHANGED <<ime, second, channelVars>>
<1> DEFINE Same == UNCHANGED <<ime, second, channelVars>>
<1>1. CASE Scan
  <2>1. CASE ScanMessage
    <3>1. PICK m, x : Look(m, x)
      BY <2>1, ZenonT(60) DEF ScanMessage, Trigger, Dedup, EditInstant, EditLevels, EditFlip, Promote, Instant,
             Signal, Chatter, Partial, InsertHold, ResolveHold, Attach, Known, Unknown
    <3> QED
      BY <3>1 DEF Look
  <2> QED
    BY <1>1, <2>1 DEF Scan, ScanStart, Skip
<1>2. CASE Execute
  BY <1>2 DEF Execute, CloseAll, RecordHeld, Followup, Refuse, QueueSignal, Activate, Open,
              OpenThenFails, FilledThenFails, InstantGate, InstantOpen, OwnTrade, Busy
<1>3. CASE (\E m \in Messages : BotTake(m) \/ ExecuteRow(m) \/ DeleteRow(m)) \/ BotOpen
  BY <1>3 DEF BotTake, BotOpen, ExecuteRow, DeleteRow
<1>6. CASE \E w \in waiting : WatchThenFails(w)
  BY <1>6 DEF WatchThenFails, FilledThenFails
<1>4. CASE \/ \E w \in waiting : Watch(w)
           \/ \E i \in DOMAIN held : HoldDue(i)
           \/ \E i \in DOMAIN trades : TradeAges(i) \/ TradeEnds(i)
  BY <1>4 DEF Watch, HoldDue, TradeAges, TradeEnds, Elsewhere, channelVars
<1>5. CASE UNCHANGED vars
  BY <1>5 DEF vars
<1> QED
  BY <1>1, <1>2, <1>3, <1>4, <1>5, <1>6 DEF Next

\* Every step keeps channel and buffer.
LEMMA StepChannel == ChannelOK /\ [Next]_vars => ChannelOK'
<1> SUFFICES ASSUME ChannelOK, [Next]_vars PROVE ChannelOK'
  OBVIOUS
<1>1. ASSUME NEW m \in Messages, GrowOld(m) PROVE ChannelOK'
  BY <1>1 DEF GrowOld, Elsewhere, bufferVars, ChannelOK
<1>2. CASE Crash
  <2>1. /\ buffer' = [m \in Messages |-> 0]
        /\ UNCHANGED <<ime, second, says, fresh, posted, version>> /\ online' \in BOOLEAN
    BY <1>2 DEF Crash, Forget
  <2>2. buffer' \in Copied
    BY <2>1, BufferAssumption DEF Copied
  <2>3. \A m \in Messages : buffer'[m] = 0 /\ version[m] \in Nat
    BY <2>1 DEF ChannelOK, Copied
  <2> QED
    BY <2>1, <2>2, <2>3 DEF ChannelOK
<1>3. CASE UNCHANGED <<ime, second, channelVars>>
  BY <1>3 DEF channelVars, bufferVars, ChannelOK
<1>4. CASE LinkChanges
  BY <1>4 DEF LinkChanges, Link, ChannelOK
<1> QED
  BY <1>1, <1>2, <1>3, <1>4, ChannelSteps, PostOK, EditOK, ArriveOK

Written == Statuses \ {"none"}

\* A row that is written, and the rows beside it.
LEMMA SetRowOK ==
    ASSUME RowsOK, NEW m \in Messages, NEW st \in Written, NEW dir \in Dirs, NEW x \in Texts,
           SetRow(m, st, dir, x)
    PROVE  /\ RowsOK'
           /\ row'[m].st = st /\ \A k \in Messages : k # m => row'[k] = row[k]
<1> DEFINE r == [st |-> st, dir |-> dir, x |-> x]
<1>1. r \in Rows /\ r.st = st /\ r.dir = dir /\ st # "none"
  BY DEF Rows, Written
<1>2. row' = [row EXCEPT ![m] = r]
  BY DEF SetRow
<1>3. row' \in [Messages -> Rows]
  BY <1>1, <1>2 DEF RowsOK
<1>4. row'[m] = r /\ \A k \in Messages : k # m => row'[k] = row[k]
  BY <1>2 DEF RowsOK
<1> HIDE DEF r
<1>5. RowsOK'
  BY <1>1, <1>3, <1>4 DEF RowsOK
<1> QED
  BY <1>1, <1>4, <1>5

\* A row whose status changes, if it is there, and the rows beside it.
LEMMA StatusOK ==
    ASSUME RowsOK, NEW m \in Messages, NEW st \in Written, SetStatus(m, st)
    PROVE  /\ RowsOK' /\ (row[m].st = "none" => row' = row)
           /\ row[m].st # "none" => row'[m].st = st /\ row'[m].dir = row[m].dir
           /\ \A k \in Messages : k # m => row'[k] = row[k]
<1> DEFINE r == [row[m] EXCEPT !.st = IF @ = "none" THEN @ ELSE st]
<1>1. row[m] \in Rows /\ row \in [Messages -> Rows]
  BY DEF RowsOK
<1>2. /\ r \in Rows /\ r.dir = row[m].dir
      /\ r.st = (IF row[m].st = "none" THEN "none" ELSE st) /\ st # "none"
      /\ row[m].st = "none" => r = row[m]
  BY <1>1 DEF Rows, Written
<1>3. row' = [row EXCEPT ![m] = r]
  BY DEF SetStatus
<1> HIDE DEF r
<1>4. row' \in [Messages -> Rows]
  BY <1>1, <1>2, <1>3
<1>5. row'[m] = r /\ \A k \in Messages : k # m => row'[k] = row[k]
  BY <1>1, <1>3
<1>6. row[m].st = "none" => row' = row
  BY <1>1, <1>2, <1>3
<1>7. RowsOK'
  BY <1>2, <1>4, <1>5 DEF RowsOK
<1> QED
  BY <1>2, <1>5, <1>6, <1>7

\* Steps that leave the rows alone.
LEMMA SameRows == ASSUME RowsOK, UNCHANGED row PROVE RowsOK'
  BY DEF RowsOK

\* A task that goes on, ends or begins.
LEMMA TaskStays ==
    ASSUME TaskOK, UNCHANGED <<task, bot>>, left' \in 0..MaxPosts
    PROVE  TaskOK'
  BY DEF TaskOK

\* ... ends ...
LEMMA TaskEnds ==
    ASSUME TaskOK, task' = Idle, UNCHANGED bot, left' \in 0..MaxPosts
    PROVE  TaskOK'
<1>1. task' \in Works /\ task'.pc = "idle"
  BY DEF Idle, Works, NoText
<1> QED
  BY <1>1 DEF TaskOK

\* ... or is begun.
LEMMA TaskBegins ==
    ASSUME TaskOK, UNCHANGED bot, left' \in 0..MaxPosts,
           NEW m \in Messages, NEW x \in Texts,
           NEW pc \in {"trigger", "resolved", "ready", "open", "instant", "instant_open"},
           task' = [pc |-> pc, m |-> m, x |-> x],
           pc # "trigger" => x.dir \in Dirs
    PROVE  TaskOK'
<1>1. task' \in Works /\ task'.pc = pc /\ task'.m = m /\ task'.x = x
  BY DEF Works
<1> QED
  BY <1>1 DEF TaskOK

\* The branches of scan_messages.
Branch(m, x) ==
    \/ Trigger(m, x) \/ Dedup(m, x)
    \/ EditInstant(m, x) \/ EditLevels(m, x) \/ EditFlip(m, x) \/ Promote(m, x)
    \/ Instant(m, x) \/ Signal(m, x) \/ Chatter(m, x) \/ Partial(m, x)
    \/ InsertHold(m, x) \/ ResolveHold(m, x) \/ Attach(m, x)

\* A message is looked at in one of the branches.
LEMMA OneBranch == ScanMessage => \E m, x : Branch(m, x) /\ Look(m, x)
<1>1. ScanMessage => \E m, x : Branch(m, x)
  BY Zenon DEF ScanMessage, Branch
<1>2. ASSUME NEW m, NEW x, Branch(m, x) PROVE Look(m, x)
  BY <1>2, Zenon DEF Branch, Trigger, Dedup, EditInstant, EditLevels, EditFlip, Promote, Instant,
         Signal, Chatter, Partial, InsertHold, ResolveHold, Attach, Known, Unknown
<1> QED
  BY <1>1, <1>2

\* record_staleness_or_new writes a row and may begin a task.
LEMMA RecordOK ==
    ASSUME RowsOK, TaskOK, NEW m \in Messages, NEW x \in Texts, x.dir \in Dirs, Record(m, x),
           UNCHANGED bot, left' \in 0..MaxPosts
    PROVE  RowsOK' /\ TaskOK'
<1>1. RowsOK'
  <2>1. PICK st \in Written : SetRow(m, st, x.dir, x)
    BY DEF Record, Written, Statuses
  <2> QED
    BY <2>1, SetRowOK
<1>2. CASE task' = Idle
  BY <1>1, <1>2, TaskEnds
<1>3. CASE task' = [pc |-> "ready", m |-> m, x |-> x]
  BY <1>1, <1>3, TaskBegins
<1> QED
  BY <1>1, <1>2, <1>3 DEF Record

\* Every branch keeps rows and tasks.
LEMMA BranchRows ==
    ASSUME Types, NEW m, NEW x, Look(m, x), Branch(m, x)
    PROVE  RowsOK' /\ TaskOK'
<1>1. /\ m \in Messages /\ x \in Texts /\ task = Idle
      /\ left' \in 0..MaxPosts /\ bot' = bot
      /\ RowsOK /\ TaskOK
  BY LookAt DEF Types
<1>2. x.kind \in {"full", "entry", "now"} => x.dir \in Dirs
  BY <1>1, TextDirs
<1>3. row[m] # NoRow => row[m].st \in Written /\ row[m].dir \in Dirs
  BY <1>1 DEF RowsOK, Rows, Written
<1>4. CASE Trigger(m, x)
  <2>1. UNCHANGED row
    BY <1>4 DEF Trigger
  <2>2. RowsOK'
    BY <1>1, <2>1, SameRows
  <2>3. CASE UNCHANGED task
    BY <1>1, <2>2, <2>3, TaskStays
  <2>4. CASE Begin("trigger", m, x)
    BY <1>1, <2>2, <2>4, TaskBegins DEF Begin
  <2> QED
    BY <1>4, <2>2, <2>3, <2>4 DEF Trigger
<1>5. CASE Dedup(m, x) \/ Chatter(m, x) \/ InsertHold(m, x) \/ Attach(m, x)
  <2>1. UNCHANGED <<row, task>>
    BY <1>5 DEF Dedup, Chatter, InsertHold, Attach, dbVars
  <2> QED
    BY <1>1, <2>1, SameRows, TaskStays
<1>6. CASE EditInstant(m, x) \/ EditLevels(m, x) \/ EditFlip(m, x) \/ Partial(m, x)
  <2>1. PICK st \in Written, dir \in Dirs : SetRow(m, st, dir, x)
    <3>1. CASE EditInstant(m, x)
      BY <1>2, <1>3, <3>1 DEF EditInstant, Known
    <3>2. CASE EditLevels(m, x)
      <4>1. "followup_applied" \in Written
        BY DEF Written, Statuses
      <4> QED
        BY <1>2, <1>3, <3>2, <4>1 DEF EditLevels, Known
    <3>3. CASE EditFlip(m, x)
      BY <1>2, <1>3, <3>3 DEF EditFlip, Known
    <3>4. CASE Partial(m, x)
      <4>1. "pending_followup" \in Written
        BY DEF Written, Statuses
      <4> QED
        BY <1>2, <3>4, <4>1 DEF Partial
    <3> QED
      BY <1>6, <3>1, <3>2, <3>3, <3>4
  <2>2. RowsOK'
    BY <1>1, <2>1, SetRowOK
  <2>3. UNCHANGED task
    BY <1>6 DEF EditInstant, EditLevels, EditFlip, Partial
  <2> QED
    BY <1>1, <2>2, <2>3, TaskStays
<1>7. CASE Promote(m, x)
  <2>1. SetRow(m, "new", x.dir, x) /\ "new" \in Written /\ x.dir \in Dirs
    BY <1>2, <1>7 DEF Promote, Written, Statuses
  <2>2. RowsOK'
    BY <1>1, <2>1, SetRowOK
  <2>3. CASE UNCHANGED task
    BY <1>1, <2>2, <2>3, TaskStays
  <2>4. CASE Begin("ready", m, x)
    BY <1>1, <2>1, <2>2, <2>4, TaskBegins DEF Begin
  <2> QED
    BY <1>7, <2>2, <2>3, <2>4 DEF Promote
<1>8. CASE Instant(m, x)
  <2>1. x.dir \in Dirs /\ "instant_pending" \in Written /\ "instant_historical" \in Written
    BY <1>2, <1>8 DEF Instant, Written, Statuses
  <2>2. CASE UNCHANGED <<row, task>>
    BY <1>1, <2>2, SameRows, TaskStays
  <2>3. CASE SetRow(m, "instant_pending", x.dir, x) /\ Begin("instant", m, x)
    <3>1. RowsOK'
      BY <1>1, <2>1, <2>3, SetRowOK
    <3> QED
      BY <1>1, <2>1, <2>3, <3>1, TaskBegins DEF Begin
  <2>4. CASE SetRow(m, "instant_historical", x.dir, x) /\ UNCHANGED task
    BY <1>1, <2>1, <2>4, SetRowOK, TaskStays
  <2> QED
    BY <1>8, <2>2, <2>3, <2>4 DEF Instant
<1>9. CASE Signal(m, x)
  BY <1>1, <1>2, <1>9, RecordOK DEF Signal
<1>10. CASE ResolveHold(m, x)
  <2>1. UNCHANGED row /\ x.dir \in Dirs
    BY <1>2, <1>10 DEF ResolveHold
  <2>2. RowsOK'
    BY <1>1, <2>1, SameRows
  <2>3. CASE UNCHANGED task
    BY <1>1, <2>2, <2>3, TaskStays
  <2>4. CASE Begin("resolved", m, x)
    BY <1>1, <2>1, <2>2, <2>4, TaskBegins DEF Begin
  <2> QED
    BY <1>10, <2>2, <2>3, <2>4 DEF ResolveHold
<1> QED
  BY <1>4, <1>5, <1>6, <1>7, <1>8, <1>9, <1>10 DEF Branch

\* Executing keeps rows and tasks.
LEMMA ExecuteRows ==
    ASSUME Types, Execute
    PROVE  RowsOK' /\ TaskOK'
<1>1. /\ left' \in 0..MaxPosts /\ UNCHANGED <<left, bot>> /\ RowsOK /\ TaskOK
  BY DEF Types, TaskOK, Execute, CloseAll, RecordHeld, Followup, Refuse, QueueSignal, Activate, Open,
         OpenThenFails, FilledThenFails, InstantGate, InstantOpen, OwnTrade, Busy
<1>2. ASSUME task' = Idle, UNCHANGED row PROVE RowsOK' /\ TaskOK'
  BY <1>1, <1>2, SameRows, TaskEnds
<1>3. ASSUME task.pc \in {"ready", "open", "instant", "instant_open"}
      PROVE  /\ task.m \in Messages /\ task.x.dir \in Dirs
             /\ task.x \in Texts
             /\ \A pc : [task EXCEPT !.pc = pc] = [pc |-> pc, m |-> task.m, x |-> task.x]
  BY <1>1, <1>3 DEF TaskOK, Works, NoText, Dirs
<1>4. ASSUME NEW st \in Written, SetStatus(task.m, st), task' = Idle,
             task.pc \in {"ready", "open", "instant", "instant_open"}
      PROVE  RowsOK' /\ TaskOK'
  BY <1>1, <1>3, <1>4, StatusOK, TaskEnds
<1>5. ASSUME NEW st \in Written, SetStatus(task.m, st), NEW pc \in {"open", "instant_open"},
             task' = [task EXCEPT !.pc = pc], task.pc \in {"ready", "instant"}
      PROVE  RowsOK' /\ TaskOK'
  <2>1. /\ task.m \in Messages /\ task.x.dir \in Dirs
        /\ task.x \in Texts /\ task' = [pc |-> pc, m |-> task.m, x |-> task.x]
    BY <1>3, <1>5
  <2>2. RowsOK'
    BY <1>1, <1>5, <2>1, StatusOK
  <2> QED
    BY <1>1, <2>1, <2>2, TaskBegins
<1>6. /\ "followup_applied" \in Written /\ "pending" \in Written /\ "activated" \in Written
      /\ "instant_activated" \in Written /\ "instant_failed" \in Written
  BY DEF Written, Statuses
<1>7. CASE CloseAll \/ Refuse \/ Open \/ OpenThenFails
  BY <1>2, <1>7 DEF CloseAll, Refuse, OwnTrade, Open, OpenThenFails, FilledThenFails
<1>8. CASE RecordHeld
  <2>1. task.m \in Messages /\ task.x \in Texts /\ task.x.dir \in Dirs
    BY <1>1, <1>8 DEF RecordHeld, Busy, TaskOK, Works, NoText, Dirs
  <2>2. CASE Record(task.m, task.x)
    BY <1>1, <2>1, <2>2, RecordOK
  <2> QED
    BY <1>2, <1>8, <2>2 DEF RecordHeld
<1>9. CASE Followup
  BY <1>4, <1>6, <1>9 DEF Followup, Busy
<1>10. CASE QueueSignal
  BY <1>4, <1>6, <1>10 DEF QueueSignal, OwnTrade, Busy
<1>11. CASE Activate
  BY <1>5, <1>6, <1>11 DEF Activate, OwnTrade, Busy
<1>12. CASE InstantGate
  BY <1>2, <1>5, <1>6, <1>12 DEF InstantGate, Busy
<1>13. CASE InstantOpen
  BY <1>2, <1>4, <1>6, <1>13 DEF InstantOpen, Busy
<1> QED
  BY <1>7, <1>8, <1>9, <1>10, <1>11, <1>12, <1>13 DEF Execute

\* Every step keeps rows and tasks.
LEMMA StepRows == Types /\ [Next]_vars => RowsOK' /\ TaskOK'
<1> SUFFICES ASSUME Types, [Next]_vars PROVE RowsOK' /\ TaskOK'
  OBVIOUS
<1>1. RowsOK /\ TaskOK /\ left \in 0..MaxPosts /\ posted \in 0..MaxPosts
  BY DEF Types, TaskOK, ChannelOK
<1>2. ASSUME UNCHANGED <<row, task, bot>>, left' \in 0..MaxPosts
      PROVE  RowsOK' /\ TaskOK'
  BY <1>1, <1>2, SameRows, TaskStays
<1>3. CASE Post \/ (\E m \in Messages : Edit(m)) \/ \E m \in Messages : \E v \in 1..version[m] : Arrive(m, v)
  BY <1>1, <1>2, <1>3 DEF Post, Edit, Arrive, dbVars
<1>4. CASE ScanStart \/ Skip
  <2>1. left' \in 0..MaxPosts
    BY <1>1, <1>4, BufferAssumption DEF ScanStart, Skip
  <2> QED
    BY <1>2, <1>4, <2>1 DEF ScanStart, Skip, dbVars
<1>5. CASE ScanMessage
  BY <1>5, OneBranch, BranchRows
<1>6. CASE Execute
  BY <1>6, ExecuteRows
<1>7. ASSUME NEW m \in Messages, BotTake(m) PROVE RowsOK' /\ TaskOK'
  <2>1. /\ row[m].st = "new" /\ SetStatus(m, "activated")
        /\ bot' = [m |-> m, dir |-> row[m].dir] /\ UNCHANGED <<left, task>>
    BY <1>7 DEF BotTake
  <2>2. RowsOK'
    BY <1>1, <2>1, StatusOK DEF Written, Statuses
  <2>3. bot' \in Bots
    BY <1>1, <2>1 DEF Bots, RowsOK
  <2> QED
    BY <1>1, <2>1, <2>2, <2>3 DEF TaskOK
<1>8. CASE BotOpen
  <2>1. UNCHANGED <<row, left, task>> /\ bot' \in Bots
    BY <1>8 DEF BotOpen, Bots
  <2> QED
    BY <1>1, <2>1, SameRows DEF TaskOK
<1>9. ASSUME NEW w \in waiting, Watch(w) PROVE RowsOK' /\ TaskOK'
  <2>1. UNCHANGED <<left, task, bot>>
    BY <1>9 DEF Watch, Elsewhere
  <2>2. CASE row[w.m].st # "pending" \/ UNCHANGED row
    <3>1. w.m \in Messages
      BY DEF Types, BookOK, Parkings
    <3>2. CASE UNCHANGED row
      BY <1>1, <1>2, <2>1, <3>2
    <3>3. CASE row[w.m].st # "pending" /\ row' = [row EXCEPT ![w.m].st = IF @ = "pending" THEN "activated" ELSE @]
      <4>1. row' = row
        BY <1>1, <3>1, <3>3 DEF RowsOK, Rows
      <4> QED
        BY <1>1, <1>2, <2>1, <4>1
    <3> QED
      BY <1>9, <2>2, <3>2, <3>3 DEF Watch
  <2>3. CASE row[w.m].st = "pending" /\ row' = [row EXCEPT ![w.m].st = "activated"]
    <3>1. w.m \in Messages
      BY DEF Types, BookOK, Parkings
    <3>2. RowsOK'
      <4>1. SetStatus(w.m, "activated")
        BY <2>3 DEF SetStatus
      <4> QED
        BY <1>1, <3>1, <4>1, StatusOK DEF Written, Statuses
    <3> QED
      BY <1>1, <2>1, <3>2, TaskStays
  <2> QED
    BY <1>9, <2>2, <2>3 DEF Watch
<1>10. CASE \/ \E m \in Messages : GrowOld(m)
            \/ \E i \in DOMAIN held : HoldDue(i)
            \/ \E i \in DOMAIN trades : TradeAges(i) \/ TradeEnds(i)
  BY <1>1, <1>2, <1>10 DEF GrowOld, HoldDue, TradeAges, TradeEnds, Elsewhere
<1>11. CASE Crash
  <2>1. UNCHANGED row /\ left' = 0 /\ task' = Idle /\ bot' \in Bots
    BY <1>11 DEF Crash, dbVars, Bots
  <2>2. task' \in Works /\ task'.pc = "idle" /\ 0 \in 0..MaxPosts
    BY <2>1, BufferAssumption DEF Idle, Works, NoText
  <2> QED
    BY <1>1, <2>1, <2>2, SameRows DEF TaskOK
<1>12. CASE UNCHANGED vars
  BY <1>1, <1>2, <1>12 DEF vars, dbVars
<1>13. CASE \/ \E m \in Messages : ExecuteRow(m)
            \/ \E w \in waiting : WatchThenFails(w)
            \/ LinkChanges
  BY <1>1, <1>2, <1>13 DEF ExecuteRow, WatchThenFails, FilledThenFails, LinkChanges, dbVars
<1>14. ASSUME NEW m \in Messages, DeleteRow(m) PROVE RowsOK' /\ TaskOK'
  <2>1. row' = [row EXCEPT ![m] = NoRow] /\ UNCHANGED <<left, task, bot>>
    BY <1>14 DEF DeleteRow
  <2>2. NoRow \in Rows /\ NoRow.st = "none"
    BY DEF NoRow, Rows, Statuses, NoText
  <2>3. RowsOK'
    BY <1>1, <2>1, <2>2 DEF RowsOK
  <2> QED
    BY <1>1, <2>1, <2>3, TaskStays
<1> QED
  BY <1>3, <1>4, <1>5, <1>6, <1>7, <1>8, <1>9, <1>10, <1>11, <1>12, <1>13, <1>14 DEF Next, Scan

\* Only these steps touch the holds.
LEMMA HoldSteps ==
    ASSUME [Next]_vars
    PROVE  \/ \E m, x : Look(m, x) /\ (InsertHold(m, x) \/ ResolveHold(m, x) \/ Attach(m, x))
           \/ \E i \in DOMAIN held : HoldDue(i)
           \/ UNCHANGED <<hold, held>>
<1>1. CASE ScanMessage
  <2>1. PICK m, x : Branch(m, x) /\ Look(m, x)
    BY <1>1, OneBranch
  <2> QED
    BY <2>1 DEF Branch, Trigger, Dedup, EditInstant, EditLevels, EditFlip, Promote, Instant,
                Signal, Chatter, Partial, dbVars
<1>2. CASE ScanStart \/ Skip
  BY <1>2 DEF ScanStart, Skip, dbVars
<1>3. CASE Execute
  BY <1>3 DEF Execute, CloseAll, RecordHeld, Followup, Refuse, QueueSignal, Activate, Open,
              OpenThenFails, FilledThenFails, InstantGate, InstantOpen, OwnTrade, Busy
<1>7. CASE \/ \E m \in Messages : ExecuteRow(m) \/ DeleteRow(m)
           \/ \E w \in waiting : WatchThenFails(w)
           \/ LinkChanges
  BY <1>7 DEF ExecuteRow, DeleteRow, WatchThenFails, FilledThenFails, LinkChanges, dbVars
<1>4. CASE \/ Post \/ (\E m \in Messages : Edit(m) \/ BotTake(m) \/ GrowOld(m)) \/ BotOpen
           \/ \E m \in Messages : \E v \in 1..version[m] : Arrive(m, v)
  BY <1>4 DEF Post, Edit, Arrive, BotTake, BotOpen, GrowOld, Elsewhere, dbVars
<1>5. CASE \/ \E w \in waiting : Watch(w)
           \/ \E i \in DOMAIN trades : TradeAges(i) \/ TradeEnds(i)
  BY <1>5 DEF Watch, TradeAges, TradeEnds, Elsewhere
<1>6. CASE Crash \/ UNCHANGED vars
  BY <1>6 DEF Crash, vars, dbVars
<1> QED
  BY <1>1, <1>2, <1>3, <1>4, <1>5, <1>6, <1>7 DEF Next, Scan

\* A hold that keeps being one, with no more levels than one.
LEMMA HoldsKept ==
    ASSUME HoldsOK, UNCHANGED held, hold' \in [Messages -> Holds],
           \A m \in Messages : /\ hold[m].st # "none" => hold'[m].st # "none"
                               /\ Cardinality(hold'[m].levels) <= 1
    PROVE  HoldsOK'
<1>1. \A i \in DOMAIN held : held[i] \in Messages
  BY DEF HoldsOK
<1> QED
  BY <1>1 DEF HoldsOK

\* Every step keeps the holds.
LEMMA StepHolds == Types /\ [Next]_vars => HoldsOK'
<1> SUFFICES ASSUME Types, [Next]_vars PROVE HoldsOK'
  OBVIOUS
<1>0. HoldsOK /\ \A m \in Messages : hold[m] \in Holds
  BY DEF Types, HoldsOK
<1>1. ASSUME NEW m \in Messages, NEW x, InsertHold(m, x) PROVE HoldsOK'
  <2>1. CASE UNCHANGED <<hold, held>>
    BY <1>0, <2>1 DEF HoldsOK
  <2>2. CASE hold[m].st = "none" /\ hold' = [hold EXCEPT ![m].st = "waiting"] /\ held' = Append(held, m)
    <3>1. hold' \in [Messages -> Holds] /\ hold'[m].st = "waiting"
      BY <1>0, <2>2 DEF HoldsOK, Holds
    <3>2. \A k \in Messages : /\ hold'[k].levels = hold[k].levels
                              /\ hold[k].st # "none" => hold'[k].st # "none"
      BY <1>0, <2>2 DEF HoldsOK, Holds
    <3>3. \A k \in Messages : Cardinality(hold'[k].levels) <= 1
      BY <1>0, <3>2 DEF HoldsOK
    <3>4. /\ held' \in Seq(Messages) /\ DOMAIN held' = 1..(Len(held) + 1)
          /\ held'[Len(held) + 1] = m /\ \A i \in DOMAIN held : held'[i] = held[i]
          /\ DOMAIN held = 1..Len(held) /\ Len(held) \in Nat
      BY <1>0, <2>2 DEF HoldsOK
    <3>5. \A i \in DOMAIN held : held[i] # m /\ held[i] \in Messages
      BY <1>0, <2>2 DEF HoldsOK
    <3>6. \A i, j \in DOMAIN held' : held'[i] = held'[j] => i = j
      BY <1>0, <3>4, <3>5 DEF HoldsOK
    <3>7. \A i \in DOMAIN held' : hold'[held'[i]].st # "none"
      BY <1>0, <3>1, <3>2, <3>4, <3>5 DEF HoldsOK
    <3> QED
      BY <3>1, <3>3, <3>4, <3>6, <3>7 DEF HoldsOK
  <2> QED
    BY <1>1, <2>1, <2>2 DEF InsertHold
<1>2. ASSUME NEW m \in Messages, NEW x, ResolveHold(m, x) PROVE HoldsOK'
  <2>1. CASE UNCHANGED hold
    BY <1>0, <1>2, <2>1 DEF ResolveHold, HoldsOK
  <2>2. CASE hold' = [hold EXCEPT ![m].st = "resolved"]
    <3>1. hold' \in [Messages -> Holds]
      BY <1>0, <2>2 DEF HoldsOK, Holds
    <3>2. \A k \in Messages : /\ hold'[k].levels = hold[k].levels
                              /\ hold[k].st # "none" => hold'[k].st # "none"
      BY <1>0, <2>2 DEF HoldsOK, Holds
    <3>3. \A k \in Messages : Cardinality(hold'[k].levels) <= 1
      BY <1>0, <3>2 DEF HoldsOK
    <3> QED
      BY <1>0, <1>2, <3>1, <3>2, <3>3, HoldsKept DEF ResolveHold
  <2> QED
    BY <1>2, <2>1, <2>2 DEF ResolveHold
<1>3. ASSUME NEW m \in Messages, NEW x, Attach(m, x) PROVE HoldsOK'
  <2>1. CASE UNCHANGED hold
    BY <1>0, <1>3, <2>1 DEF Attach, HoldsOK
  <2>2. ASSUME NEW k, hold' = [hold EXCEPT ![k].levels = {m}] PROVE HoldsOK'
    <3>1. hold' \in [Messages -> Holds]
      BY <1>0, <2>2 DEF HoldsOK, Holds
    <3>2. \A j \in Messages : /\ hold'[j].levels = hold[j].levels \/ hold'[j].levels = {m}
                              /\ hold'[j].st = hold[j].st
      BY <1>0, <2>2 DEF HoldsOK, Holds
    <3>3. Cardinality({m}) = 1
      BY FS_Singleton
    <3>4. ASSUME NEW j \in Messages PROVE Cardinality(hold'[j].levels) <= 1
      <4>1. CASE hold'[j].levels = hold[j].levels
        BY <1>0, <4>1 DEF HoldsOK
      <4>2. CASE hold'[j].levels = {m}
        BY <3>3, <4>2
      <4> QED
        BY <3>2, <4>1, <4>2
    <3> QED
      BY <1>0, <1>3, <3>1, <3>2, <3>4, HoldsKept DEF Attach
  <2> QED
    BY <1>3, <2>1, <2>2 DEF Attach
<1>4. ASSUME NEW i \in DOMAIN held, HoldDue(i) PROVE HoldsOK'
  <2>1. /\ UNCHANGED held
        /\ hold' = [m \in Messages |-> IF \E j \in 1..i : held[j] = m
                                       THEN [hold[m] EXCEPT !.due = TRUE] ELSE hold[m]]
    BY <1>4 DEF HoldDue, Elsewhere
  <2>2. hold' \in [Messages -> Holds]
    BY <1>0, <2>1 DEF Holds
  <2>3. \A k \in Messages : hold'[k].levels = hold[k].levels /\ hold'[k].st = hold[k].st
    BY <1>0, <2>1 DEF Holds
  <2>4. \A k \in Messages : Cardinality(hold'[k].levels) <= 1
    BY <1>0, <2>3 DEF HoldsOK
  <2> QED
    BY <1>0, <2>1, <2>2, <2>3, <2>4, HoldsKept
<1>5. CASE UNCHANGED <<hold, held>>
  BY <1>0, <1>5 DEF HoldsOK
<1> QED
  BY <1>1, <1>2, <1>3, <1>4, <1>5, HoldSteps, LookAt

\* What a step may do to the trades: their messages stay, and one may be added.
SameTrades ==
    /\ DOMAIN trades' = DOMAIN trades
    /\ \A i \in DOMAIN trades : trades'[i].m = trades[i].m

\* A trade is added at the end.
LEMMA TradeAdded ==
    ASSUME trades \in Seq(Openings), NEW m \in Messages, NEW dir \in Dirs,
           NEW by \in {"scan", "ime", "watcher", "bot", "table"}, NEW st \in {"young", "unseen"},
           Trade(m, dir, by, st)
    PROVE  /\ trades' \in Seq(Openings)
           /\ DOMAIN trades = 1..Len(trades) /\ Len(trades) \in Nat
           /\ DOMAIN trades' = 1..(Len(trades) + 1)
           /\ trades'[Len(trades) + 1].m = m
           /\ \A i \in DOMAIN trades : trades'[i] = trades[i]
<1> DEFINE r == [m |-> m, dir |-> dir, by |-> by, st |-> st]
<1>1. r \in Openings /\ r.m = m
  BY DEF Openings
<1>2. trades' = Append(trades, r)
  BY DEF Trade
<1> HIDE DEF r
<1> QED
  BY <1>1, <1>2

\* A function on 1..n is a sequence.
LEMMA IsSequence == ASSUME NEW S, NEW n \in Nat, NEW f \in [1..n -> S] PROVE f \in Seq(S)
  OBVIOUS

\* A trade is closed; no other changes, and none if there is none.
LEMMA TradeClosed ==
    ASSUME trades \in Seq(Openings), NEW i, trades' = [trades EXCEPT ![i].st = "closed"]
    PROVE  trades' \in Seq(Openings) /\ SameTrades
<1>1. DOMAIN trades = 1..Len(trades) /\ Len(trades) \in Nat
      /\ \A j \in 1..Len(trades) : trades[j] \in Openings
  OBVIOUS
<1>2. trades' = [j \in 1..Len(trades) |->
                    IF j = i THEN [trades[j] EXCEPT !.st = "closed"] ELSE trades[j]]
  BY <1>1
<1>3. ASSUME NEW j \in 1..Len(trades)
      PROVE  trades'[j] \in Openings /\ trades'[j].m = trades[j].m
  BY <1>1, <1>2 DEF Openings
<1>4. trades' \in [1..Len(trades) -> Openings]
  BY <1>2, <1>3
<1>5. trades' \in Seq(Openings)
  BY <1>1, <1>4, IsSequence
<1> QED
  BY <1>1, <1>2, <1>3, <1>5 DEF SameTrades

\* Trades age and stay what they are otherwise.
LEMMA TradesAge ==
    ASSUME trades \in Seq(Openings), NEW i \in DOMAIN trades, TradeAges(i)
    PROVE  trades' \in Seq(Openings) /\ SameTrades
<1>1. DOMAIN trades = 1..Len(trades) /\ Len(trades) \in Nat
  OBVIOUS
<1>2. trades' = [j \in 1..Len(trades) |->
                    [trades[j] EXCEPT !.st = IF j <= i /\ @ = "young" THEN "old" ELSE @]]
  BY <1>1 DEF TradeAges
<1>3. ASSUME NEW j \in 1..Len(trades)
      PROVE  trades'[j] \in Openings /\ trades'[j].m = trades[j].m
  <2>1. trades[j] \in Openings
    OBVIOUS
  <2> QED
    BY <1>2, <2>1 DEF Openings
<1>4. trades' \in Seq(Openings)
  BY <1>1, <1>2, <1>3
<1> QED
  BY <1>1, <1>2, <1>3, <1>4 DEF SameTrades

\* A signal is handed to the watcher.
LEMMA SignalWaits ==
    ASSUME waiting \subseteq Parkings, NEW m \in Messages, NEW dir \in Dirs,
           NEW by \in {"scan", "bot", "table"}, Wait(m, dir, by)
    PROVE  /\ waiting' \subseteq Parkings
           /\ \A w \in waiting' : w \in waiting \/ w = [m |-> m, dir |-> dir, by |-> by]
  BY DEF Wait, Parkings

\* Only these steps touch trades and waiting signals.
LEMMA BookSteps ==
    ASSUME Types, [Next]_vars
    PROVE  \/ \E i : trades' = [trades EXCEPT ![i].st = "closed"] /\ UNCHANGED waiting
           \/ (\E i \in DOMAIN trades : TradeAges(i)) /\ UNCHANGED waiting
           \/ QueueSignal \/ Open \/ OpenThenFails \/ InstantOpen \/ BotOpen
           \/ \E m \in Messages : ExecuteRow(m)
           \/ \E w \in waiting : Watch(w) \/ WatchThenFails(w)
           \/ UNCHANGED <<trades, waiting>>
<1>1. CASE ScanMessage
  <2>1. PICK m, x : Branch(m, x) /\ Look(m, x)
    BY <1>1, OneBranch
  <2>2. CASE EditInstant(m, x)
    BY <2>2 DEF EditInstant
  <2> QED
    BY <2>1, <2>2 DEF Branch, Trigger, Dedup, EditLevels, EditFlip, Promote, Instant,
                Signal, Chatter, Partial, InsertHold, ResolveHold, Attach, dbVars
<1>2. CASE ScanStart \/ Skip
  BY <1>2 DEF ScanStart, Skip, dbVars
<1>3. CASE CloseAll
  BY <1>3 DEF CloseAll
<1>4. CASE RecordHeld \/ Followup \/ Refuse \/ Activate \/ InstantGate
  BY <1>4 DEF RecordHeld, Followup, Refuse, Activate, InstantGate
<1>5. CASE \/ Post \/ (\E m \in Messages : Edit(m) \/ BotTake(m) \/ GrowOld(m))
           \/ \E m \in Messages : \E v \in 1..version[m] : Arrive(m, v)
  BY <1>5 DEF Post, Edit, Arrive, BotTake, GrowOld, Elsewhere, dbVars
<1>6. CASE \/ \E i \in DOMAIN held : HoldDue(i)
           \/ \E i \in DOMAIN trades : TradeAges(i) \/ TradeEnds(i)
  BY <1>6 DEF HoldDue, TradeAges, TradeEnds, Elsewhere
<1>7. CASE Crash \/ LinkChanges \/ (\E m \in Messages : DeleteRow(m)) \/ UNCHANGED vars
  BY <1>7 DEF Crash, LinkChanges, DeleteRow, vars, dbVars
<1> QED
  BY <1>1, <1>2, <1>3, <1>4, <1>5, <1>6, <1>7 DEF Next, Scan, Execute

\* A task that opens has a message and a direction; so has /activate.
LEMMA OpenerOK ==
    ASSUME Types
    PROVE  /\ task.pc \notin {"idle", "trigger"} => task.m \in Messages /\ task.x.dir \in Dirs
           /\ bot # NoBot => bot.m \in Messages /\ bot.dir \in Dirs
           /\ \A m \in Messages : row[m] # NoRow => row[m].dir \in Dirs
           /\ \A w \in waiting : /\ w.m \in Messages /\ w.dir \in Dirs
                                 /\ Opener(w) \in {"watcher", "bot", "table"}
  BY DEF Types, TaskOK, RowsOK, BookOK, Parkings, Bots, Opener

\* Every step keeps trades and waiting signals.
LEMMA StepBook == Types /\ [Next]_vars => BookOK'
<1> SUFFICES ASSUME Types, [Next]_vars PROVE BookOK'
  OBVIOUS
<1>0. BookOK
  BY DEF Types
<1>1. ASSUME NEW i, trades' = [trades EXCEPT ![i].st = "closed"], UNCHANGED waiting PROVE BookOK'
  BY <1>0, <1>1, TradeClosed DEF BookOK
<1>2. ASSUME NEW i \in DOMAIN trades, TradeAges(i), UNCHANGED waiting PROVE BookOK'
  BY <1>0, <1>2, TradesAge DEF BookOK
<1>3. CASE QueueSignal
  BY <1>0, <1>3, OpenerOK, SignalWaits DEF QueueSignal, OwnTrade, Busy, BookOK
<1>4. CASE Open
  BY <1>0, <1>4, OpenerOK, SignalWaits, TradeAdded DEF Open, Busy, BookOK
<1>5. CASE InstantOpen
  BY <1>0, <1>5, OpenerOK, TradeAdded DEF InstantOpen, Busy, BookOK
<1>6. CASE BotOpen
  BY <1>0, <1>6, OpenerOK, SignalWaits, TradeAdded DEF BotOpen, BookOK
<1>7. ASSUME NEW w \in waiting, Watch(w) PROVE BookOK'
  <2>1. w \in Parkings /\ waiting' \subseteq Parkings
    BY <1>0, <1>7 DEF Watch, BookOK
  <2>2. CASE UNCHANGED trades
    BY <1>0, <2>1, <2>2 DEF BookOK
  <2>3. CASE Trade(w.m, w.dir, Opener(w), "young")
    BY <1>0, <2>1, <2>3, OpenerOK, TradeAdded DEF BookOK
  <2> QED
    BY <1>7, <2>2, <2>3 DEF Watch
<1>8. CASE UNCHANGED <<trades, waiting>>
  BY <1>0, <1>8 DEF BookOK
<1>9. CASE OpenThenFails
  BY <1>0, <1>9, OpenerOK, SignalWaits, TradeAdded DEF OpenThenFails, FilledThenFails, BookOK
<1>10. ASSUME NEW m \in Messages, ExecuteRow(m) PROVE BookOK'
  BY <1>0, <1>10, OpenerOK, SignalWaits, TradeAdded DEF ExecuteRow, BookOK
<1>11. ASSUME NEW w \in waiting, WatchThenFails(w) PROVE BookOK'
  BY <1>0, <1>11, OpenerOK, TradeAdded DEF WatchThenFails, FilledThenFails, BookOK
<1> QED
  BY <1>1, <1>2, <1>3, <1>4, <1>5, <1>6, <1>7, <1>8, <1>9, <1>10, <1>11, BookSteps

\* Only these steps touch the claims and the history.
LEMMA StepHistory == Types /\ [Next]_vars => HistoryOK'
<1> SUFFICES ASSUME Types, [Next]_vars PROVE HistoryOK'
  OBVIOUS
<1>0. HistoryOK
  BY DEF Types
<1>1. CASE ScanMessage
  <2>1. PICK m, x : Branch(m, x) /\ Look(m, x)
    BY <1>1, OneBranch
  <2>2. m \in Messages /\ UNCHANGED <<mishaps, fired, raced>>
    BY <2>1, LookAt
  <2>3. claimed' = claimed \/ claimed' = claimed \cup {m}
    BY <2>1 DEF Branch, Trigger, Dedup, EditInstant, EditLevels, EditFlip, Promote, Instant,
                Signal, Chatter, Partial, InsertHold, ResolveHold, Attach, dbVars
  <2> QED
    BY <1>0, <2>2, <2>3 DEF HistoryOK
<1>2. CASE CloseAll
  <2>1. /\ fired' = [fired EXCEPT ![task.m] = @ + 1]
        /\ UNCHANGED <<claimed, mishaps, raced>>
    BY <1>2 DEF CloseAll
  <2>2. task.m \in Messages
    BY <1>2 DEF CloseAll, Types, TaskOK
  <2> QED
    BY <1>0, <2>1, <2>2 DEF HistoryOK
<1>3. CASE \/ RecordHeld \/ Followup \/ Refuse \/ QueueSignal \/ Activate \/ Open
           \/ InstantGate \/ InstantOpen
  BY <1>0, <1>3 DEF RecordHeld, Followup, Refuse, QueueSignal, Activate, Open,
                    InstantGate, InstantOpen, OwnTrade, Busy, HistoryOK
<1>4. CASE \/ Post \/ (\E m \in Messages : Edit(m)) \/ ScanStart \/ Skip \/ BotOpen
           \/ \E m \in Messages : \E v \in 1..version[m] : Arrive(m, v)
  BY <1>0, <1>4 DEF Post, Edit, Arrive, ScanStart, Skip, BotOpen, dbVars, HistoryOK
<1>5. ASSUME NEW m \in Messages, BotTake(m) PROVE HistoryOK'
  BY <1>0, <1>5 DEF BotTake, Raced, HistoryOK
<1>6. CASE \/ \E w \in waiting : Watch(w)
           \/ \E m \in Messages : GrowOld(m)
           \/ \E i \in DOMAIN held : HoldDue(i)
           \/ \E i \in DOMAIN trades : TradeAges(i) \/ TradeEnds(i)
  BY <1>0, <1>6 DEF Watch, GrowOld, HoldDue, TradeAges, TradeEnds, Elsewhere, HistoryOK
<1>7. CASE Crash
  BY <1>0, <1>7, ScannerAssumption DEF Crash, dbVars, HistoryOK
<1>8. CASE UNCHANGED vars
  BY <1>0, <1>8 DEF vars, dbVars, HistoryOK
<1>9. ASSUME NEW m \in Messages, Mishap(m), UNCHANGED <<claimed, fired>> PROVE HistoryOK'
  BY <1>0, <1>9, ScannerAssumption DEF Mishap, HistoryOK
<1>10. CASE OpenThenFails
  <2>1. task.m \in Messages
    BY <1>10 DEF OpenThenFails, Types, TaskOK
  <2> QED
    BY <1>9, <1>10, <2>1 DEF OpenThenFails, FilledThenFails
<1>11. ASSUME NEW m \in Messages, ExecuteRow(m) \/ DeleteRow(m) PROVE HistoryOK'
  BY <1>9, <1>11 DEF ExecuteRow, DeleteRow
<1>12. ASSUME NEW w \in waiting, WatchThenFails(w) PROVE HistoryOK'
  BY <1>9, <1>12, OpenerOK DEF WatchThenFails, FilledThenFails
<1>13. CASE LinkChanges
  BY <1>0, <1>13, ScannerAssumption DEF LinkChanges, dbVars, HistoryOK
<1> QED
  BY <1>1, <1>2, <1>3, <1>4, <1>5, <1>6, <1>7, <1>8, <1>10, <1>11, <1>12, <1>13
     DEF Next, Scan, Execute

\* Every step keeps the types.
LEMMA StepTypes == Types /\ [Next]_vars => Types'
  BY StepChannel, StepRows, StepHolds, StepBook, StepHistory DEF Types

\* Type correctness of the scanner: a hold has levels of one message at most
\* and is listed once (INSERT OR IGNORE on the message's key), every trade has
\* the direction of a text, and no more versions are shown than were written.
THEOREM ScannerTypes == Spec => []TypeOK
  BY InitTypes, StepTypes, TypesCover, PTL DEF Spec

-----------------------------------------------------------------------------
(* One trade per message                                                    *)

\* The ways a message is on to a trade, or has become one.
Working(m) == task.m = m /\ task.pc \in {"ready", "open", "instant", "instant_open"}
Parked(m) == \E w \in waiting : w.m = m
Traded(m) == \E i \in DOMAIN trades : trades[i].m = m

Early == {"none", "pending_followup", "new"}

\* A row that can still be taken up has not been.
RowTells(m) ==
    /\ row[m].st \in Early => ~Parked(m) /\ ~Traded(m) /\ bot.m # m
    /\ Working(m) => IF task.pc = "ready" THEN row[m].st = "new" ELSE row[m].st \notin Early

\* A message is on one of the ways only.
OneRoute(m) ==
    /\ Working(m) => ~Parked(m) /\ ~Traded(m) /\ bot.m # m
    /\ Parked(m) => ~Traded(m) /\ bot.m # m
    /\ bot.m = m => ~Traded(m)
    /\ \A v, w \in waiting : v.m = m /\ w.m = m => v = w
    /\ \A i, j \in DOMAIN trades : trades[i].m = m /\ trades[j].m = m => i = j

Routed(m) == RowTells(m) /\ OneRoute(m)

\* A hold is resolved for a message without a row.
HeldFirst == task.pc = "resolved" => row[task.m].st = "none"

ScanInv == Types /\ HeldFirst /\ \A m \in Messages \ raced : Routed(m)

\* What a task at work asks of the row.
RowFor(m) == IF task.pc = "ready" THEN row[m].st = "new" ELSE row[m].st \notin Early

\* No trade of m is added, none waits that did not wait before.
NoNewTrade(m) == \A i \in DOMAIN trades' : trades'[i].m = m => i \in DOMAIN trades /\ trades[i].m = m
NoNewWait(m) == \A w \in waiting' : w.m = m => w \in waiting

\* A message stays on its way, or leaves it.
LEMMA RouteKept ==
    ASSUME NEW m \in Messages, Routed(m), NoNewTrade(m), NoNewWait(m), bot'.m = m => bot.m = m,
           Working(m)' => Working(m) /\ RowFor(m)',
           row'[m].st \in Early => row[m].st \in Early
    PROVE  Routed(m)'
<1>1. (Parked(m)' => Parked(m)) /\ (Traded(m)' => Traded(m))
  BY DEF NoNewTrade, NoNewWait, Parked, Traded
<1>2. RowTells(m)'
  BY <1>1 DEF Routed, RowTells, RowFor
<1>3. \A v, w \in waiting' : v.m = m /\ w.m = m => v = w
  BY DEF NoNewWait, Routed, OneRoute
<1>4. \A i, j \in DOMAIN trades' : trades'[i].m = m /\ trades'[j].m = m => i = j
  BY DEF NoNewTrade, Routed, OneRoute
<1>5. OneRoute(m)'
  BY <1>1, <1>3, <1>4 DEF Routed, OneRoute
<1> QED
  BY <1>2, <1>5 DEF Routed

\* A message that was on no way is taken up.
LEMMA RouteBegins ==
    ASSUME NEW m \in Messages, Routed(m), row[m].st \in Early, UNCHANGED <<trades, waiting, bot>>,
           Working(m)' => RowFor(m)'
    PROVE  Routed(m)'
<1>1. ~Parked(m)' /\ ~Traded(m)' /\ bot'.m # m
  BY DEF Routed, RowTells, Parked, Traded
<1>2. RowTells(m)'
  BY <1>1 DEF RowTells, RowFor
<1>3. OneRoute(m)'
  BY <1>1 DEF OneRoute, Parked, Traded
<1> QED
  BY <1>2, <1>3 DEF Routed

\* A message's signal is handed to the watcher, from no other way.
LEMMA RouteParks ==
    ASSUME NEW m \in Messages, ~Traded(m), ~Parked(m), UNCHANGED trades,
           NEW dir, NEW by, Wait(m, dir, by),
           ~Working(m)', bot'.m # m, row'[m].st \notin Early
    PROVE  Routed(m)'
<1>1. ~Traded(m)'
  BY DEF Traded
<1>2. \A v, w \in waiting' : v.m = m /\ w.m = m => v = w
  BY DEF Wait, Parked
<1> QED
  BY <1>1, <1>2 DEF Routed, RowTells, OneRoute, Traded

\* A message becomes a trade, from no other way.
LEMMA RouteTrades ==
    ASSUME NEW m \in Messages, ~Traded(m), BookOK, NEW dir \in Dirs,
           NEW by \in {"scan", "ime", "watcher", "bot", "table"}, NEW st \in {"young", "unseen"},
           Trade(m, dir, by, st),
           \A w \in waiting' : w.m # m,
           ~Working(m)', bot'.m # m, row'[m].st \notin Early
    PROVE  Routed(m)'
<1>1. ~Parked(m)'
  BY DEF Parked
<1>2. /\ DOMAIN trades = 1..Len(trades) /\ Len(trades) \in Nat
      /\ DOMAIN trades' = 1..(Len(trades) + 1)
      /\ \A i \in DOMAIN trades : trades'[i] = trades[i]
  BY TradeAdded DEF BookOK
<1>3. \A i \in DOMAIN trades' : trades'[i].m = m => i = Len(trades) + 1
  BY <1>2 DEF Traded
<1>4. OneRoute(m)'
  BY <1>1, <1>3 DEF OneRoute, Parked
<1> QED
  BY <1>1, <1>4 DEF Routed, RowTells

\* What a trade or a waiting signal of one message is to the others.
LEMMA OtherTrade ==
    ASSUME BookOK, NEW m \in Messages, NEW dir \in Dirs,
           NEW by \in {"scan", "ime", "watcher", "bot", "table"}, NEW st \in {"young", "unseen"},
           Trade(m, dir, by, st), NEW k, k # m
    PROVE  NoNewTrade(k)
<1>1. /\ DOMAIN trades = 1..Len(trades) /\ Len(trades) \in Nat
      /\ DOMAIN trades' = 1..(Len(trades) + 1) /\ trades'[Len(trades) + 1].m = m
      /\ \A i \in DOMAIN trades : trades'[i] = trades[i]
  BY TradeAdded DEF BookOK
<1> QED
  BY <1>1 DEF NoNewTrade

\* The same for a waiting signal.
LEMMA OtherWait ==
    ASSUME NEW m, NEW dir, NEW by, Wait(m, dir, by), NEW k, k # m
    PROVE  NoNewWait(k)
  BY DEF Wait, NoNewWait

\* Steps that leave trades and waiting signals alone.
LEMMA SameBook ==
    ASSUME UNCHANGED <<trades, waiting>>, NEW k
    PROVE  NoNewTrade(k) /\ NoNewWait(k)
  BY DEF NoNewTrade, NoNewWait

\* The status a written row has.
LEMMA RowSet ==
    ASSUME RowsOK, NEW m \in Messages, NEW st, NEW dir, NEW x, SetRow(m, st, dir, x)
    PROVE  row'[m].st = st /\ \A k \in Messages : k # m => row'[k] = row[k]
  BY DEF SetRow, RowsOK

\* The status a changed row has.
LEMMA StatusSet ==
    ASSUME RowsOK, NEW m \in Messages, NEW st, SetStatus(m, st)
    PROVE  (row[m].st # "none" => row'[m].st = st) /\ \A k \in Messages : k # m => row'[k] = row[k]
  BY DEF SetStatus, RowsOK, Rows

\* A message that meets a mishap is counted among the raced; the others stay
\* on their ways.
LEMMA MishapRoutes ==
    ASSUME ScanInv, NEW m, Mishap(m), NEW k \in Messages \ raced',
           k # m => /\ NoNewTrade(k) /\ NoNewWait(k) /\ row'[k] = row[k]
                    /\ task' = Idle \/ UNCHANGED task,
           UNCHANGED bot
    PROVE  Routed(k)'
<1>1. k \in Messages \ raced /\ k # m
  BY DEF Mishap
<1>2. Routed(k) /\ NoNewTrade(k) /\ NoNewWait(k) /\ row'[k] = row[k]
  BY <1>1 DEF ScanInv
<1>3. Working(k)' => UNCHANGED task
  BY <1>1 DEF Working, Idle
<1>4. Working(k)' => Working(k) /\ RowFor(k)'
  BY <1>2, <1>3 DEF Routed, RowTells, RowFor, Working
<1> QED
  BY <1>1, <1>2, <1>4, RouteKept

\* Executing, without a mishap.
Executed ==
    \/ CloseAll \/ RecordHeld \/ Followup \/ Refuse \/ QueueSignal \/ Activate \/ Open
    \/ InstantGate \/ InstantOpen

\* A branch of scan_messages and the message it is about.
LEMMA BranchRoute ==
    ASSUME ScanInv, NEW m, NEW x, Look(m, x), Branch(m, x), m \notin raced
    PROVE  Routed(m)'
<1>1. /\ m \in Messages /\ x \in Texts /\ task = Idle /\ bot' = bot
      /\ RowsOK /\ BookOK /\ Routed(m)
  BY LookAt DEF ScanInv, Types
<1>2. ASSUME task' = task \/ task'.pc \in {"trigger", "resolved"} PROVE ~Working(m)'
  BY <1>1, <1>2 DEF Working, Idle
<1>3. CASE Trigger(m, x) \/ Dedup(m, x) \/ Chatter(m, x) \/ InsertHold(m, x) \/ Attach(m, x) \/ ResolveHold(m, x)
  <2>1. UNCHANGED <<row, trades, waiting>>
    BY <1>3 DEF Trigger, Dedup, Chatter, InsertHold, ResolveHold, Attach, dbVars
  <2>2. task' = task \/ task'.pc \in {"trigger", "resolved"}
    <3>1. CASE Trigger(m, x) \/ Dedup(m, x) \/ Chatter(m, x)
      BY <3>1 DEF Trigger, Dedup, Chatter, Begin
    <3>2. CASE InsertHold(m, x) \/ Attach(m, x)
      BY <3>2 DEF InsertHold, Attach, Begin
    <3>3. CASE ResolveHold(m, x)
      BY <3>3 DEF ResolveHold, Begin
    <3> QED  BY <1>3, <3>1, <3>2, <3>3
  <2> QED
    BY <1>1, <1>2, <2>1, <2>2, RouteKept, SameBook
<1>4. CASE EditInstant(m, x)
  <2>1. row'[m].st = row[m].st /\ UNCHANGED <<waiting, task>>
    BY <1>1, <1>4, RowSet DEF EditInstant
  <2>2. NoNewTrade(m)
    <3>1. CASE UNCHANGED trades
      BY <3>1 DEF NoNewTrade
    <3>2. ASSUME NEW i, trades' = [trades EXCEPT ![i].st = "closed"] PROVE NoNewTrade(m)
      BY <1>1, <3>2, TradeClosed DEF BookOK, SameTrades, NoNewTrade
    <3> QED
      BY <1>4, <3>1, <3>2 DEF EditInstant
  <2>3. NoNewWait(m)
    BY <2>1 DEF NoNewWait
  <2> QED
    BY <1>1, <1>2, <2>1, <2>2, <2>3, RouteKept
<1>5. CASE EditLevels(m, x) \/ EditFlip(m, x)
  <2>1. UNCHANGED <<waiting, trades, task>>
    BY <1>5 DEF EditLevels, EditFlip
  <2>2. row'[m].st = row[m].st \/ row'[m].st = "followup_applied"
    BY <1>1, <1>5, RowSet DEF EditLevels, EditFlip
  <2> QED
    BY <1>1, <1>2, <2>1, <2>2, RouteKept, SameBook DEF Early
<1>6. CASE Partial(m, x)
  <2>1. UNCHANGED <<waiting, trades, task>> /\ row[m].st = "none"
    BY <1>6 DEF Partial, Unknown, NoRow
  <2> QED
    BY <1>1, <1>2, <2>1, RouteKept, SameBook DEF Early
<1>7. CASE Promote(m, x)
  <2>1. UNCHANGED <<trades, waiting>> /\ row[m].st = "pending_followup" /\ row'[m].st = "new"
    BY <1>1, <1>7, RowSet DEF Promote
  <2>2. Working(m)' => task'.pc = "ready"
    BY <1>1, <1>7 DEF Promote, Begin, Working, Idle
  <2> QED
    BY <1>1, <2>1, <2>2, RouteBegins DEF Early, RowFor
<1>8. CASE Instant(m, x)
  <2>1. UNCHANGED <<trades, waiting>> /\ row[m].st = "none"
    BY <1>8 DEF Instant, Unknown, NoRow
  <2>2. Working(m)' => task'.pc = "instant" /\ row'[m].st = "instant_pending"
    BY <1>1, <1>8, RowSet DEF Instant, Begin, Working, Idle
  <2> QED
    BY <1>1, <2>1, <2>2, RouteBegins DEF Early, RowFor
<1>9. CASE Signal(m, x)
  <2>1. UNCHANGED <<trades, waiting>> /\ row[m].st = "none"
    BY <1>9 DEF Signal, Unknown, NoRow
  <2>2. Working(m)' => task'.pc = "ready" /\ row'[m].st = "new"
    BY <1>1, <1>9, RowSet DEF Signal, Record, Working, Idle
  <2> QED
    BY <1>1, <2>1, <2>2, RouteBegins DEF Early, RowFor
<1> QED
  BY <1>3, <1>4, <1>5, <1>6, <1>7, <1>8, <1>9 DEF Branch

\* ... and the others.
LEMMA BranchOthers ==
    ASSUME ScanInv, NEW m, NEW x, Look(m, x), Branch(m, x), NEW k \in Messages \ raced, k # m
    PROVE  Routed(k)'
<1>1. /\ m \in Messages /\ task = Idle /\ bot' = bot /\ RowsOK /\ BookOK /\ Routed(k)
  BY LookAt DEF ScanInv, Types
<1>2. row'[k] = row[k]
  <2>1. CASE UNCHANGED row
    BY <2>1
  <2>2. ASSUME NEW st, NEW dir, SetRow(m, st, dir, x) PROVE row'[k] = row[k]
    BY <1>1, <2>2, RowSet
  <2>3. \/ UNCHANGED row \/ \E st, dir : SetRow(m, st, dir, x)
    BY DEF Branch, Trigger, Dedup, EditInstant, EditLevels, EditFlip, Promote, Instant, Record,
           Signal, Chatter, Partial, InsertHold, ResolveHold, Attach, dbVars
  <2> QED
    BY <2>1, <2>2, <2>3
<1>3. task' = task \/ task'.m = m \/ task' = Idle
  <2>1. CASE Trigger(m, x) \/ Promote(m, x) \/ Instant(m, x) \/ Signal(m, x) \/ ResolveHold(m, x)
    BY <2>1 DEF Trigger, Promote, Instant, Signal, ResolveHold, Record, Begin
  <2>2. CASE ~(Trigger(m, x) \/ Promote(m, x) \/ Instant(m, x) \/ Signal(m, x) \/ ResolveHold(m, x))
    BY <2>2 DEF Branch, Dedup, EditInstant, EditLevels, EditFlip, Chatter, Partial, InsertHold, Attach
  <2> QED
    BY <2>1, <2>2
<1>4. ~Working(k)'
  BY <1>1, <1>3 DEF Working, Idle
<1>5. UNCHANGED waiting /\ (UNCHANGED trades \/ \E i : trades' = [trades EXCEPT ![i].st = "closed"])
  BY DEF Branch, Trigger, Dedup, EditInstant, EditLevels, EditFlip, Promote, Instant,
         Signal, Chatter, Partial, InsertHold, ResolveHold, Attach, dbVars
<1>6. NoNewTrade(k) /\ NoNewWait(k)
  BY <1>1, <1>5, TradeClosed DEF BookOK, SameTrades, NoNewTrade, NoNewWait
<1> QED
  BY <1>1, <1>2, <1>4, <1>6, RouteKept

\* What the scanner has started, for the message it has started it for ...
LEMMA ExecuteRoute ==
    ASSUME ScanInv, Executed, NEW m \in Messages \ raced, m = task.m
    PROVE  Routed(m)'
<1>1. /\ m \in Messages /\ RowsOK /\ BookOK /\ Routed(m) /\ task \in Works
  BY DEF ScanInv, Types, TaskOK
<1>2. UNCHANGED bot
  BY DEF Executed, CloseAll, RecordHeld, Followup, Refuse, QueueSignal, Activate, Open,
         InstantGate, InstantOpen, OwnTrade, Busy
<1>3. ASSUME task.pc \in {"ready", "open", "instant", "instant_open"}
      PROVE  /\ Working(m) /\ ~Parked(m) /\ ~Traded(m) /\ bot'.m # m /\ RowFor(m)
             /\ task.x.dir \in Dirs /\ row[m].st # "none"
  BY <1>1, <1>2, <1>3, OpenerOK DEF ScanInv, Working, Routed, RowTells, OneRoute, RowFor, Early
<1>4. ASSUME NEW k, task' = Idle PROVE ~Working(k)'
  BY <1>4 DEF Working, Idle
<1>5. ASSUME task' = Idle, UNCHANGED <<trades, waiting>>,
             row'[m].st \in Early => row[m].st \in Early
      PROVE  Routed(m)'
  BY <1>1, <1>2, <1>4, <1>5, RouteKept, SameBook
<1>6. CASE CloseAll
  <2>1. UNCHANGED <<row, waiting>> /\ task' = Idle
    BY <1>6 DEF CloseAll
  <2>2. UNCHANGED trades \/ \E i : trades' = [trades EXCEPT ![i].st = "closed"]
    BY <1>6 DEF CloseAll
  <2>3. NoNewTrade(m) /\ NoNewWait(m)
    BY <1>1, <2>1, <2>2, TradeClosed DEF BookOK, SameTrades, NoNewTrade, NoNewWait
  <2> QED
    BY <1>1, <1>2, <1>4, <2>1, <2>3, RouteKept
<1>7. CASE RecordHeld
  <2>1. UNCHANGED <<trades, waiting>> /\ row[m].st = "none"
    BY <1>7 DEF RecordHeld, Busy, ScanInv, HeldFirst
  <2>2. CASE Record(m, task.x)
    <3>1. Working(m)' => task'.pc = "ready" /\ row'[m].st = "new"
      BY <1>1, <2>2, RowSet DEF Record, Working, Idle
    <3> QED
      BY <1>1, <1>2, <2>1, <3>1, RouteBegins DEF Early, RowFor
  <2> QED
    BY <1>5, <1>7, <2>1, <2>2 DEF RecordHeld
<1>8. CASE Followup
  <2>1. row'[m].st = "followup_applied"
    BY <1>1, <1>3, <1>8, StatusSet DEF Followup, Busy
  <2> QED
    BY <1>5, <1>8, <2>1 DEF Followup, Early
<1>9. CASE Refuse
  BY <1>5, <1>9 DEF Refuse
<1>10. CASE QueueSignal
  <2>1. row'[m].st = "pending"
    BY <1>1, <1>3, <1>10, StatusSet DEF QueueSignal, OwnTrade, Busy
  <2>2. Wait(m, task.x.dir, "scan") /\ UNCHANGED trades /\ task' = Idle /\ task.pc = "ready"
    BY <1>10 DEF QueueSignal, OwnTrade, Busy
  <2> QED
    BY <1>1, <1>3, <1>4, <2>1, <2>2, RouteParks DEF Early
<1>11. ASSUME NEW st, SetStatus(m, st), st \notin Early, NEW pc, pc # "ready",
              task' = [task EXCEPT !.pc = pc], UNCHANGED <<trades, waiting>>,
              task.pc \in {"ready", "instant"}
       PROVE  Routed(m)'
  <2>1. row'[m].st = st
    BY <1>1, <1>3, <1>11, StatusSet
  <2>2. task'.pc = pc
    BY <1>1, <1>11 DEF Works
  <2> QED
    BY <1>1, <1>2, <1>3, <1>11, <2>1, <2>2, RouteKept, SameBook DEF RowFor
<1>12. CASE Activate
  BY <1>11, <1>12 DEF Activate, OwnTrade, Busy, Early
<1>13. CASE InstantGate
  BY <1>5, <1>11, <1>13 DEF InstantGate, Busy, Early
<1>14. ASSUME NEW by \in {"scan", "ime"}, NEW st \in {"young", "unseen"},
              Trade(m, task.x.dir, by, st), task.pc \in {"open", "instant_open"},
              task' = Idle, UNCHANGED waiting, row'[m].st \notin Early
       PROVE  Routed(m)'
  <2>1. \A w \in waiting' : w.m # m
    BY <1>3, <1>14 DEF Parked
  <2> QED
    BY <1>1, <1>3, <1>4, <1>14, <2>1, RouteTrades
<1>15. CASE Open
  <2>1. task.pc = "open" /\ task' = Idle /\ UNCHANGED row /\ row'[m].st \notin Early
    BY <1>3, <1>15 DEF Open, Busy, RowFor
  <2>2. CASE Wait(m, task.x.dir, "scan") /\ UNCHANGED trades
    BY <1>1, <1>3, <1>4, <2>1, <2>2, RouteParks
  <2> QED
    BY <1>5, <1>14, <1>15, <2>1, <2>2 DEF Open
<1>16. CASE InstantOpen
  <2>1. task.pc = "instant_open" /\ task' = Idle /\ UNCHANGED waiting /\ row[m].st \notin Early
    BY <1>3, <1>16 DEF InstantOpen, Busy, RowFor
  <2>2. row'[m].st \notin Early
    BY <1>1, <1>16, <2>1, StatusSet DEF InstantOpen, Early
  <2> QED
    BY <1>5, <1>14, <1>16, <2>1, <2>2 DEF InstantOpen
<1> QED
  BY <1>6, <1>7, <1>8, <1>9, <1>10, <1>12, <1>13, <1>15, <1>16 DEF Executed

\* ... and for the others.
LEMMA ExecuteOthers ==
    ASSUME ScanInv, Executed, NEW k \in Messages \ raced, k # task.m
    PROVE  Routed(k)'
<1>1. /\ RowsOK /\ BookOK /\ Routed(k) /\ task \in Works /\ task.m \in Messages
  BY DEF ScanInv, Types, TaskOK, Executed, CloseAll, RecordHeld, Followup, Refuse, QueueSignal,
         Activate, Open, InstantGate, InstantOpen, OwnTrade, Busy
<1>2. UNCHANGED bot
  BY DEF Executed, CloseAll, RecordHeld, Followup, Refuse, QueueSignal, Activate, Open,
         InstantGate, InstantOpen, OwnTrade, Busy
<1>3. row'[k] = row[k]
  <2>1. \/ UNCHANGED row \/ (\E st : SetStatus(task.m, st)) \/ \E st, dir, x : SetRow(task.m, st, dir, x)
    BY DEF Executed, CloseAll, RecordHeld, Record, Followup, Refuse, QueueSignal, Activate, Open,
           InstantGate, InstantOpen, OwnTrade, Busy
  <2> QED
    BY <1>1, <2>1, RowSet, StatusSet
<1>4. ~Working(k)'
  <2>1. task' = Idle \/ task'.m = task.m
    BY <1>1 DEF Executed, CloseAll, RecordHeld, Record, Followup, Refuse, QueueSignal, Activate, Open,
           InstantGate, InstantOpen, OwnTrade, Busy, Works
  <2> QED
    BY <2>1 DEF Working, Idle
<1>5. NoNewTrade(k)
  <2>1. \/ UNCHANGED trades \/ \E i : trades' = [trades EXCEPT ![i].st = "closed"]
        \/ /\ task.pc \notin {"idle", "trigger"}
           /\ \E by \in {"scan", "ime"}, st \in {"young", "unseen"} : Trade(task.m, task.x.dir, by, st)
    BY DEF Executed, CloseAll, RecordHeld, Followup, Refuse, QueueSignal, Activate, Open,
           InstantGate, InstantOpen, OwnTrade, Busy
  <2>2. CASE UNCHANGED trades \/ \E i : trades' = [trades EXCEPT ![i].st = "closed"]
    BY <1>1, <2>2, TradeClosed DEF BookOK, SameTrades, NoNewTrade
  <2>3. ASSUME task.pc \notin {"idle", "trigger"}, NEW by \in {"scan", "ime"},
               NEW st \in {"young", "unseen"}, Trade(task.m, task.x.dir, by, st)
        PROVE  NoNewTrade(k)
    BY <1>1, <2>3, OpenerOK, OtherTrade DEF ScanInv
  <2> QED
    BY <2>1, <2>2, <2>3
<1>6. NoNewWait(k)
  <2>1. UNCHANGED waiting \/ Wait(task.m, task.x.dir, "scan")
    BY DEF Executed, CloseAll, RecordHeld, Followup, Refuse, QueueSignal, Activate, Open,
           InstantGate, InstantOpen, OwnTrade, Busy
  <2> QED
    BY <2>1, OtherWait DEF NoNewWait
<1> QED
  BY <1>1, <1>2, <1>3, <1>4, <1>5, <1>6, RouteKept

\* The watcher turns a waiting signal into a trade, or drops it.
LEMMA WatchRoutes ==
    ASSUME ScanInv, NEW w \in waiting, Watch(w), NEW k \in Messages \ raced
    PROVE  Routed(k)'
<1>1. RowsOK /\ BookOK /\ Routed(k) /\ w \in Parkings /\ w.m \in Messages /\ w.dir \in Dirs
  BY DEF ScanInv, Types, BookOK, Parkings
<1>2. UNCHANGED <<task, bot>> /\ waiting' = waiting \ {w}
  BY DEF Watch, Elsewhere
<1>3. /\ row'[k].st = row[k].st \/ (row[k].st = "pending" /\ row'[k].st = "activated")
  BY <1>1 DEF Watch, RowsOK, Rows
<1>4. row'[k].st \in Early <=> row[k].st \in Early
  BY <1>3 DEF Early
<1>5. Working(k)' => Working(k) /\ RowFor(k)'
  BY <1>1, <1>2, <1>3, <1>4 DEF Routed, RowTells, RowFor, Working
<1>6. NoNewWait(k)
  BY <1>2 DEF NoNewWait
<1>7. CASE NoNewTrade(k)
  BY <1>1, <1>2, <1>4, <1>5, <1>6, <1>7, RouteKept
<1>8. CASE UNCHANGED trades
  BY <1>7, <1>8 DEF NoNewTrade
<1>9. ASSUME NEW by \in {"watcher", "bot", "table"}, Trade(w.m, w.dir, by, "young")
      PROVE  Routed(k)'
  <2>1. CASE k # w.m
    BY <1>1, <1>7, <1>9, <2>1, OtherTrade
  <2>2. CASE k = w.m
    <3>1. Parked(k)
      BY <2>2 DEF Parked
    <3>2. ~Traded(k) /\ bot.m # k /\ ~Working(k) /\ row[k].st \notin Early
      BY <1>1, <3>1 DEF Routed, RowTells, OneRoute
    <3>3. \A v \in waiting' : v.m # k
      BY <1>1, <1>2, <2>2 DEF Routed, OneRoute
    <3> QED
      BY <1>1, <1>2, <1>4, <1>5, <1>9, <2>2, <3>2, <3>3, RouteTrades
  <2> QED
    BY <2>1, <2>2
<1>10. UNCHANGED trades \/ \E by \in {"watcher", "bot", "table"} : Trade(w.m, w.dir, by, "young")
  BY OpenerOK DEF Watch, ScanInv
<1> QED
  BY <1>8, <1>9, <1>10

\* /activate takes a row nobody works on, and opens, parks or drops it.
LEMMA BotRoutes ==
    ASSUME ScanInv, NEW k \in Messages \ raced', (\E m \in Messages : BotTake(m)) \/ BotOpen
    PROVE  Routed(k)'
<1>1. k \in Messages \ raced /\ RowsOK /\ BookOK /\ Routed(k) /\ UNCHANGED task
  BY DEF ScanInv, Types, BotTake, BotOpen, Raced
<1>2. ASSUME NEW m \in Messages, BotTake(m) PROVE Routed(k)'
  <2>1. /\ row[m].st = "new" /\ bot'.m = m /\ UNCHANGED <<trades, waiting>>
        /\ row'[m].st = "activated" /\ row'[k] = IF k = m THEN row'[k] ELSE row[k]
    BY <1>1, <1>2, StatusSet DEF BotTake
  <2>2. CASE k # m
    <3>1. row'[k] = row[k] /\ bot'.m # k
      BY <2>1, <2>2
    <3>2. Working(k)' => Working(k) /\ RowFor(k)'
      BY <1>1, <3>1 DEF Routed, RowTells, RowFor, Working
    <3> QED
      BY <1>1, <2>1, <3>1, <3>2, RouteKept, SameBook
  <2>3. CASE k = m
    <3>1. task.m # k
      BY <1>2, <2>3 DEF BotTake, Raced
    <3>2. ~Parked(k) /\ ~Traded(k)
      BY <1>1, <2>1, <2>3 DEF Routed, RowTells, Early
    <3>3. ~Parked(k)' /\ ~Traded(k)' /\ ~Working(k)' /\ row'[k].st \notin Early
      BY <1>1, <2>1, <2>3, <3>1, <3>2 DEF Parked, Traded, Working, Early
    <3> QED
      BY <3>3 DEF Routed, RowTells, OneRoute, Parked, Traded
  <2> QED
    BY <2>2, <2>3
<1>3. CASE BotOpen
  <2>1. /\ bot # NoBot /\ bot' = NoBot /\ UNCHANGED <<row, task>>
        /\ bot.m \in Messages /\ bot.dir \in Dirs
    BY <1>3, OpenerOK DEF BotOpen, ScanInv
  <2>2. Working(k)' => Working(k) /\ RowFor(k)'
    BY <1>1, <2>1 DEF Routed, RowTells, RowFor, Working
  <2>3. bot'.m # k
    BY <2>1, BufferAssumption DEF Messages, NoBot
  <2>4. CASE k # bot.m
    <3>1. NoNewTrade(k) /\ NoNewWait(k)
      <4>1. CASE UNCHANGED <<trades, waiting>>
        BY <4>1, SameBook
      <4>2. CASE Trade(bot.m, bot.dir, "bot", "young") /\ UNCHANGED waiting
        BY <1>1, <2>1, <2>4, <4>2, OtherTrade DEF NoNewWait
      <4>3. CASE Wait(bot.m, bot.dir, "bot") /\ UNCHANGED trades
        BY <2>4, <4>3, OtherWait DEF NoNewTrade
      <4> QED
        BY <1>3, <4>1, <4>2, <4>3 DEF BotOpen
    <3> QED
      BY <1>1, <2>1, <2>2, <2>3, <3>1, RouteKept
  <2>5. CASE k = bot.m
    <3>1. ~Traded(k) /\ ~Parked(k) /\ ~Working(k) /\ row'[k].st \notin Early
      BY <1>1, <2>1, <2>5 DEF Routed, RowTells, OneRoute
    <3>2. CASE UNCHANGED <<trades, waiting>>
      BY <1>1, <2>1, <2>2, <2>3, <3>2, RouteKept, SameBook
    <3>3. CASE Trade(bot.m, bot.dir, "bot", "young") /\ UNCHANGED waiting
      <4>1. \A w \in waiting' : w.m # k
        BY <3>1, <3>3 DEF Parked
      <4> QED
        BY <1>1, <2>1, <2>2, <2>3, <2>5, <3>1, <3>3, <4>1, RouteTrades
    <3>4. CASE Wait(bot.m, bot.dir, "bot") /\ UNCHANGED trades
      BY <1>1, <2>2, <2>3, <2>5, <3>1, <3>4, RouteParks
    <3> QED
      BY <1>3, <3>2, <3>3, <3>4 DEF BotOpen
  <2> QED
    BY <2>4, <2>5
<1> QED
  BY <1>2, <1>3

\* Every step keeps every message on one way.
LEMMA StepRoutes ==
    ASSUME ScanInv, [Next]_vars, NEW k \in Messages \ raced'
    PROVE  Routed(k)'
<1>1. ASSUME UNCHANGED raced PROVE k \in Messages \ raced /\ Routed(k)
  BY <1>1 DEF ScanInv
<1>2. BookOK
  BY DEF ScanInv, Types
<1>3. ASSUME UNCHANGED <<row, task, bot, raced>>, NoNewTrade(k), NoNewWait(k) PROVE Routed(k)'
  <2>1. Working(k)' => Working(k) /\ RowFor(k)'
    BY <1>1, <1>3 DEF Routed, RowTells, RowFor, Working
  <2> QED
    BY <1>1, <1>3, <2>1, RouteKept
<1>4. CASE \/ Post \/ (\E m \in Messages : Edit(m)) \/ ScanStart \/ Skip \/ UNCHANGED vars
           \/ LinkChanges
           \/ \E m \in Messages : \E v \in 1..version[m] : Arrive(m, v)
           \/ \E m \in Messages : GrowOld(m)
           \/ \E i \in DOMAIN held : HoldDue(i)
  <2>1. UNCHANGED <<row, task, bot, raced, trades, waiting>>
    BY <1>4 DEF Post, Edit, Arrive, LinkChanges, ScanStart, Skip, GrowOld, HoldDue, Elsewhere, vars, dbVars
  <2> QED
    BY <1>3, <2>1, SameBook
<1>5. CASE ScanMessage
  <2>1. PICK m, x : Branch(m, x) /\ Look(m, x)
    BY <1>5, OneBranch
  <2>2. UNCHANGED raced
    BY <2>1 DEF Look
  <2> QED
    BY <1>1, <2>1, <2>2, BranchRoute, BranchOthers
<1>6. CASE Executed
  <2>1. UNCHANGED raced
    BY <1>6 DEF Executed, CloseAll, RecordHeld, Followup, Refuse, QueueSignal, Activate, Open,
           InstantGate, InstantOpen, OwnTrade, Busy
  <2> QED
    BY <1>1, <1>6, <2>1, ExecuteRoute, ExecuteOthers
<1>7. CASE (\E m \in Messages : BotTake(m)) \/ BotOpen
  BY <1>7, BotRoutes
<1>8. ASSUME NEW w \in waiting, Watch(w) PROVE Routed(k)'
  BY <1>1, <1>8, WatchRoutes DEF Watch, Elsewhere
<1>9. ASSUME NEW i \in DOMAIN trades, TradeAges(i) \/ TradeEnds(i) PROVE Routed(k)'
  <2>1. SameTrades
    BY <1>2, <1>9, TradesAge, TradeClosed DEF BookOK, TradeEnds
  <2>2. UNCHANGED <<row, task, bot, raced, waiting>>
    BY <1>9 DEF TradeAges, TradeEnds, Elsewhere
  <2> QED
    BY <1>3, <2>1, <2>2 DEF SameTrades, NoNewTrade, NoNewWait
<1>10. CASE Crash
  <2>1. UNCHANGED <<row, raced, trades, waiting>> /\ task' = Idle /\ bot' = NoBot
    BY <1>10 DEF Crash, dbVars
  <2>2. ~Working(k)' /\ bot'.m # k
    BY <2>1, BufferAssumption DEF Working, Idle, Messages, NoBot
  <2> QED
    BY <1>1, <2>1, <2>2, RouteKept, SameBook
<1>11. ASSUME NEW m \in Messages, NEW dir \in Dirs, NEW j,
              NEW by \in {"scan", "ime", "watcher", "bot", "table"},
              \E st \in {"unseen", "young"} : Trade(m, dir, by, st), j # m
       PROVE  NoNewTrade(j)
  BY <1>2, <1>11, OtherTrade
<1>12. CASE OpenThenFails
  <2>1. task.m \in Messages /\ task.x.dir \in Dirs
    BY <1>12, OpenerOK DEF OpenThenFails, ScanInv
  <2>2. /\ Mishap(task.m) /\ UNCHANGED <<row, bot>> /\ task' = Idle
        /\ Wait(task.m, task.x.dir, "scan")
        /\ \E st \in {"unseen", "young"} : Trade(task.m, task.x.dir, "scan", st)
    BY <1>12 DEF OpenThenFails, FilledThenFails
  <2>3. k # task.m => NoNewTrade(k) /\ NoNewWait(k)
    BY <1>11, <2>1, <2>2, OtherWait
  <2> QED
    BY <2>2, <2>3, MishapRoutes
<1>13. ASSUME NEW w \in waiting, WatchThenFails(w) PROVE Routed(k)'
  <2>1. /\ w.m \in Messages /\ w.dir \in Dirs
        /\ Opener(w) \in {"scan", "ime", "watcher", "bot", "table"}
    BY OpenerOK DEF ScanInv
  <2>2. /\ Mishap(w.m) /\ UNCHANGED <<row, bot, task, waiting>>
        /\ \E st \in {"unseen", "young"} : Trade(w.m, w.dir, Opener(w), st)
    BY <1>13 DEF WatchThenFails, FilledThenFails
  <2>3. k # w.m => NoNewTrade(k) /\ NoNewWait(k)
    BY <1>11, <2>1, <2>2 DEF NoNewWait
  <2> QED
    BY <2>2, <2>3, MishapRoutes
<1>14. ASSUME NEW m \in Messages, ExecuteRow(m) PROVE Routed(k)'
  <2>1. row[m].dir \in Dirs
    BY <1>14, OpenerOK DEF ExecuteRow, ScanInv
  <2>2. Mishap(m) /\ UNCHANGED <<row, bot, task>>
    BY <1>14 DEF ExecuteRow
  <2>3. CASE Trade(m, row[m].dir, "table", "young") /\ UNCHANGED waiting
    <3>1. k # m => NoNewTrade(k) /\ NoNewWait(k)
      BY <1>11, <2>1, <2>3 DEF NoNewWait
    <3> QED
      BY <2>2, <3>1, MishapRoutes
  <2>4. CASE Wait(m, row[m].dir, "table") /\ UNCHANGED trades
    <3>1. k # m => NoNewTrade(k) /\ NoNewWait(k)
      BY <2>4, OtherWait DEF NoNewTrade
    <3> QED
      BY <2>2, <3>1, MishapRoutes
  <2> QED
    BY <1>14, <2>3, <2>4 DEF ExecuteRow
<1>15. ASSUME NEW m \in Messages, DeleteRow(m) PROVE Routed(k)'
  <2>1. /\ Mishap(m) /\ UNCHANGED <<bot, task, trades, waiting>>
        /\ row' = [row EXCEPT ![m] = NoRow]
    BY <1>15 DEF DeleteRow
  <2>2. k # m => row'[k] = row[k] /\ NoNewTrade(k) /\ NoNewWait(k)
    BY <2>1, SameBook DEF ScanInv, Types, RowsOK
  <2> QED
    BY <2>1, <2>2, MishapRoutes
<1>16. Execute => Executed \/ OpenThenFails
  BY DEF Execute, Executed
<1> QED
  BY <1>4, <1>5, <1>6, <1>7, <1>8, <1>9, <1>10, <1>12, <1>13, <1>14, <1>15, <1>16 DEF Next, Scan

\* A resolved hold has no row yet.
LEMMA StepHeldFirst == ScanInv /\ [Next]_vars => HeldFirst'
<1> SUFFICES ASSUME ScanInv, [Next]_vars, task'.pc = "resolved" PROVE row'[task'.m].st = "none"
  BY DEF HeldFirst
<1>0. task \in Works /\ RowsOK /\ BookOK /\ (task.pc = "resolved" => task.m \in Messages)
  BY DEF ScanInv, Types, TaskOK
<1>1. CASE \/ Post \/ (\E m \in Messages : Edit(m)) \/ ScanStart \/ Skip \/ UNCHANGED vars
           \/ \E m \in Messages : \E v \in 1..version[m] : Arrive(m, v)
           \/ \E m \in Messages : GrowOld(m)
           \/ \E i \in DOMAIN held : HoldDue(i)
           \/ \E i \in DOMAIN trades : TradeAges(i) \/ TradeEnds(i)
           \/ \E m \in Messages : ExecuteRow(m)
           \/ \E w \in waiting : WatchThenFails(w)
           \/ LinkChanges
  <2>1. UNCHANGED <<row, task>>
    BY <1>1 DEF ExecuteRow, WatchThenFails, FilledThenFails, LinkChanges, Post, Edit, Arrive, ScanStart, Skip, GrowOld, HoldDue, TradeAges, TradeEnds,
                Elsewhere, vars, dbVars
  <2> QED
    BY <2>1 DEF ScanInv, HeldFirst
<1>2. CASE ScanMessage
  <2>1. PICK m, x : Branch(m, x) /\ Look(m, x)
    BY <1>2, OneBranch
  <2>2. task = Idle
    BY <2>1 DEF Look
  <2>3. ResolveHold(m, x)
    <3>1. task.pc # "resolved"
      BY <2>2 DEF Idle
    <3>2. ~Trigger(m, x) /\ ~Promote(m, x) /\ ~Instant(m, x) /\ ~Signal(m, x)
      BY <3>1 DEF Trigger, Promote, Instant, Signal, Record, Begin, Idle
    <3>3. UNCHANGED task => FALSE
      BY <3>1
    <3> QED
      BY <2>1, <3>2, <3>3 DEF Branch, Dedup, EditInstant, EditLevels, EditFlip,
                              Chatter, Partial, InsertHold, Attach
  <2>4. task'.m = m /\ row'[m].st = "none"
    BY <2>2, <2>3 DEF ResolveHold, Unknown, NoRow, Begin, Idle
  <2> QED
    BY <2>4
<1>3. CASE Execute
  BY <1>0, <1>3 DEF Execute, CloseAll, RecordHeld, Record, Followup, Refuse, QueueSignal, Activate, Open,
           OpenThenFails, InstantGate, InstantOpen, OwnTrade, Busy, Works, Idle
<1>4. ASSUME NEW m \in Messages, BotTake(m) PROVE row'[task'.m].st = "none"
  BY <1>0, <1>4, StatusSet DEF BotTake, ScanInv, HeldFirst
<1>5. CASE BotOpen
  BY <1>5 DEF BotOpen, ScanInv, HeldFirst
<1>6. ASSUME NEW w \in waiting, Watch(w) PROVE row'[task'.m].st = "none"
  <2>1. UNCHANGED task /\ row[task.m].st = "none" /\ task.m \in Messages /\ w.m \in Messages
    BY <1>0, <1>6 DEF Watch, Elsewhere, ScanInv, HeldFirst, BookOK, Parkings
  <2>2. row'[task.m].st = row[task.m].st
    BY <1>0, <1>6, <2>1 DEF Watch, RowsOK, Rows
  <2> QED
    BY <2>1, <2>2
<1>7. CASE Crash
  BY <1>7 DEF Crash, Idle
<1>8. ASSUME NEW m \in Messages, DeleteRow(m) PROVE row'[task'.m].st = "none"
  <2>1. UNCHANGED task /\ row' = [row EXCEPT ![m] = NoRow] /\ task.m \in Messages
    BY <1>0, <1>8 DEF DeleteRow
  <2>2. row'[task.m] = row[task.m] \/ row'[task.m] = NoRow
    BY <1>0, <2>1 DEF RowsOK
  <2> QED
    BY <2>1, <2>2 DEF ScanInv, HeldFirst, NoRow
<1> QED
  BY <1>1, <1>2, <1>3, <1>4, <1>5, <1>6, <1>7, <1>8 DEF Next, Scan

\* At the start no message is on its way.
LEMMA InitRoutes == Init => ScanInv
<1> SUFFICES ASSUME Init PROVE ScanInv
  OBVIOUS
<1>1. /\ trades = <<>> /\ waiting = {} /\ task = Idle /\ bot = NoBot /\ DOMAIN trades = {}
      /\ task.pc = "idle"
  BY DEF Init, Idle
<1>2. ASSUME NEW m \in Messages PROVE Routed(m)
  <2>1. bot.m # m
    BY <1>1, BufferAssumption DEF Messages, NoBot
  <2> QED
    BY <1>1, <2>1 DEF Routed, RowTells, OneRoute, Working, Parked, Traded
<1> QED
  BY <1>1, <1>2, InitTypes DEF ScanInv, HeldFirst

\* A message leads to at most one trade (scan_messages, the watcher and
\* /activate take it up from a row that nobody else is working on), however it
\* is scanned, edited, held, parked or met by restarts and lost connections,
\* unless /activate took its row out of the scanner's hands, an attempt failed
\* after its order was filled, or the operator executed or deleted its row; and
\* what happens to such a message never gives another one a second trade.
THEOREM MessageTradedOnce == Spec => []TradedOnce
<1>1. ScanInv /\ [Next]_vars => ScanInv'
  BY StepTypes, StepRoutes, StepHeldFirst DEF ScanInv
<1>2. ScanInv => TradedOnce
  <2> SUFFICES ASSUME ScanInv, NEW m \in Messages \ raced PROVE Opened(m) <= 1
    BY DEF TradedOnce
  <2> DEFINE S == {i \in DOMAIN trades : trades[i].m = m}
  <2>1. \A i, j \in S : i = j
    BY DEF ScanInv, Routed, OneRoute
  <2>2. Cardinality(S) <= 1
    <3>1. CASE S = {}
      BY <3>1, FS_EmptySet
    <3>2. ASSUME NEW i \in S PROVE Cardinality(S) <= 1
      <4>1. S = {i}
        BY <2>1
      <4>2. Cardinality({i}) = 1
        BY FS_Singleton
      <4> HIDE DEF S
      <4> QED
        BY <4>1, <4>2
    <3> QED
      BY <3>1, <3>2
  <2> QED
    BY <2>2 DEF Opened
<1> QED
  BY <1>1, <1>2, InitRoutes, PTL DEF Spec
=============================================================================
