---------------------------- MODULE MessageReader ----------------------------
(***************************************************************************)
(* The Telegram reader: how a channel's messages get into the buffer.      *)
(*                                                                         *)
(* New and edited messages arrive as events, through a bounded queue that  *)
(* drops what does not fit.  A poll, every 30 seconds, fetches the last    *)
(* few messages as they are at that moment and buffers them one by one,    *)
(* waiting for each sender; an edit may overtake the page meanwhile.       *)
(*                                                                         *)
(* The connection may drop at any time.  A watchdog stops the listeners    *)
(* and reconnects, once: a failure leaves the reader disconnected until    *)
(* the operator reconnects it.                                             *)
(*                                                                         *)
(* Source: services/telegram/{reader,reader_auth,reader_listener}.py.      *)
(***************************************************************************)
EXTENDS MessageBuffer, Sequences

CONSTANTS
    MaxQueue,       \* maxsize of _event_queue
    BackfillLimit,  \* messages the first fetch of a listener asks for
    MaxFaults       \* bound on restarts, lost connections and needless reconnects

ASSUME ReaderAssumption ==
    MaxQueue \in Nat \ {0} /\ BackfillLimit \in Nat \ {0} /\ MaxFaults \in Nat

VARIABLES
    queue,       \* _event_queue: copies made when the event arrived
    page,        \* copies fetched by _backfill and not yet buffered
    backfilled,  \* the listener has done its first, longer fetch
    auth,        \* _auth_state: connected also while a lost connection is unnoticed
    faults

readerVars == <<bufferVars, queue, page, backfilled, auth, faults>>

Copy == [m : Messages, v : 1..(MaxEdits + 1)]

ReaderTypeOK ==
    /\ posted \in 0..MaxPosts
    /\ version \in [Messages -> 0..(MaxEdits + 1)] /\ buffer \in [Messages -> 0..(MaxEdits + 1)]
    /\ \A m \in Messages : buffer[m] <= version[m]
    /\ queue \in Seq(Copy) /\ Len(queue) <= MaxQueue
    /\ page \in Seq(Copy) /\ backfilled \in BOOLEAN
    /\ online \in BOOLEAN /\ auth \in {"connected", "disconnected"}
    /\ online => auth = "connected"
    /\ faults \in 0..MaxFaults

ReaderInit ==
    /\ BufferInit
    /\ queue = <<>> /\ page = <<>> /\ backfilled = FALSE
    /\ auth = "connected" /\ faults = 0

-----------------------------------------------------------------------------
\* put_nowait: dropped when the queue is full.  Telegram may miss one, too.
Deliver(m, v) ==
    \/ online /\ Len(queue) < MaxQueue /\ queue' = Append(queue, [m |-> m, v |-> v])
    \/ UNCHANGED queue

NewMessage ==
    /\ PostMessage /\ Deliver(posted + 1, 1)
    /\ UNCHANGED <<buffer, online, page, backfilled, auth, faults>>

MessageEdited(m) ==
    /\ EditMessage(m) /\ Deliver(m, version[m] + 1)
    /\ UNCHANGED <<buffer, online, page, backfilled, auth, faults>>

\* Slip: a message that is in the buffer already is a duplicate and dropped.
BufferMessageOnce(c) ==
    buffer' = IF buffer[c.m] = 0 THEN [buffer EXCEPT ![c.m] = c.v] ELSE buffer

\* _buffer_message replaces the copy it has, whichever of the two is newer.
BufferMessage(c) == buffer' = [buffer EXCEPT ![c.m] = c.v]

\* _event_processor
ProcessEvent ==
    /\ queue # <<>>
    /\ BufferMessage(Head(queue)) /\ queue' = Tail(queue)
    /\ UNCHANGED <<posted, version, online, page, backfilled, auth, faults>>

\* _backfill: the newest messages, as they are now, newest first ...
Fetch ==
    LET n == Cardinality(Recent(IF backfilled THEN PollLimit ELSE BackfillLimit)) IN
    /\ online /\ page = <<>> /\ posted > 0
    /\ page' = [i \in 1..n |-> [m |-> posted + 1 - i, v |-> version[posted + 1 - i]]]
    /\ backfilled' = TRUE
    /\ UNCHANGED <<bufferVars, queue, auth, faults>>

\* The first fetch meets a lost connection: the longer one is not tried again.
FetchFails ==
    /\ ~online /\ auth = "connected" /\ page = <<>> /\ ~backfilled
    /\ backfilled' = TRUE
    /\ UNCHANGED <<bufferVars, queue, page, auth, faults>>

\* ... buffered one by one, with a wait for the sender before each.
RecordMessage ==
    /\ page # <<>>
    /\ BufferMessage(Head(page)) /\ page' = Tail(page)
    /\ UNCHANGED <<posted, version, online, queue, backfilled, auth, faults>>

-----------------------------------------------------------------------------
(* The connection                                                           *)

Fault == faults < MaxFaults /\ faults' = faults + 1

LinkDrops ==
    /\ online /\ Fault
    /\ Link(FALSE)
    /\ UNCHANGED <<queue, page, backfilled, auth>>

\* _reconnect: one attempt.
Connect ==
    \E ok \in BOOLEAN : Link(ok) /\ auth' = IF ok THEN "connected" ELSE "disconnected"

\* Telethon's auto_reconnect, or get_groups: the listeners are left running.
LinkReturns ==
    /\ ~online /\ auth = "connected"
    /\ Connect
    /\ UNCHANGED <<queue, page, backfilled, faults>>

\* _stop_all_listeners, and new ones if the attempt succeeds.
RestartListeners == page' = <<>> /\ backfilled' = FALSE /\ Connect /\ UNCHANGED queue

\* _connection_watchdog acts only while _auth_state is still connected ...
Watchdog ==
    /\ ~online /\ auth = "connected"
    /\ RestartListeners
    /\ UNCHANGED faults

\* ... so that only the operator ends a disconnection (or brings one about).
Reconnect ==
    /\ IF auth = "disconnected" THEN UNCHANGED faults ELSE Fault
    /\ RestartListeners

\* The process dies; the listener starts over with an empty buffer, if the
\* session can be restored.
Restart ==
    /\ Fault
    /\ Forget
    /\ auth' = IF online' THEN "connected" ELSE "disconnected"
    /\ queue' = <<>> /\ page' = <<>> /\ backfilled' = FALSE

ReaderNext ==
    \/ NewMessage \/ (\E m \in Messages : MessageEdited(m))
    \/ ProcessEvent \/ Fetch \/ FetchFails \/ RecordMessage
    \/ LinkDrops \/ LinkReturns \/ Watchdog \/ Reconnect \/ Restart

\* The event processor is an endless loop that outlives every error.  The poll
\* is one as long as the connection lasts, and a fetch over it succeeds in the
\* end; the senders' answers end, if only by an exception.
ReaderFairness == WF_readerVars(ProcessEvent) /\ WF_readerVars(Fetch) /\ WF_readerVars(RecordMessage)

ReaderSpec == ReaderInit /\ [][ReaderNext]_readerVars
ReaderFairSpec == ReaderSpec /\ ReaderFairness

-----------------------------------------------------------------------------
(* Properties                                                               *)

\* The reader implements MessageBuffer: the buffer never shows what was not
\* said, and however events are dropped, pages overtaken, connections lost and
\* the process restarted, it comes to show the newest version of the last
\* messages again whenever the connection stays.
ReaderKeepsBuffer == BufferSpec
=============================================================================
