---------------------------- MODULE MessageBuffer ----------------------------
(***************************************************************************)
(* What the Telegram reader promises the scanner.                          *)
(*                                                                         *)
(* A message is posted and edited on the channel; a version of it is its   *)
(* number of postings and edits so far.  The buffer shows some version of  *)
(* each message, not always the newest and not always a newer one than     *)
(* before, and is empty again after a restart.  While the reader is        *)
(* connected to Telegram it comes to show the newest version of the last   *)
(* few messages; nothing is promised while it is not.                      *)
(*                                                                         *)
(* MessageReader implements this; MessageScanner works on top of it.       *)
(***************************************************************************)
EXTENDS Naturals, FiniteSets

CONSTANTS
    MaxPosts,   \* messages posted, 1 the oldest
    MaxEdits,   \* bound on edits
    PollLimit   \* messages the safety-net poll fetches

ASSUME BufferAssumption == MaxPosts \in Nat \ {0} /\ MaxEdits \in Nat /\ PollLimit \in Nat \ {0}

Messages == 1..MaxPosts

VARIABLES
    posted,    \* messages on the channel
    version,   \* [Messages -> Nat]: the newest version of each, 0 before it is posted
    buffer,    \* [Messages -> Nat]: the version in _msg_buffer, 0 if none
    online     \* the reader is connected to Telegram

bufferVars == <<posted, version, buffer, online>>

\* Edits on the channel so far.
Edits == Cardinality({e \in Messages \X (2..(MaxEdits + 1)) : e[2] <= version[e[1]]})

\* The messages a poll still fetches.
Recent(n) == {m \in 1..posted : m + n > posted}

BufferInit ==
    /\ posted = 0 /\ online = TRUE
    /\ version = [m \in Messages |-> 0] /\ buffer = [m \in Messages |-> 0]

PostMessage ==
    /\ posted < MaxPosts
    /\ posted' = posted + 1
    /\ version' = [version EXCEPT ![posted + 1] = 1]

EditMessage(m) ==
    /\ m <= posted /\ Edits < MaxEdits
    /\ version' = [version EXCEPT ![m] = @ + 1]
    /\ UNCHANGED posted

\* A copy arrives, possibly one that has been overtaken.
Show(m, v) ==
    /\ v \in 1..version[m]
    /\ buffer' = [buffer EXCEPT ![m] = v]
    /\ UNCHANGED <<posted, version, online>>

\* A restart: the session may or may not come back with it.
Forget ==
    /\ buffer' = [m \in Messages |-> 0] /\ online' \in BOOLEAN
    /\ UNCHANGED <<posted, version>>

\* The connection is lost, or comes back.
Link(up) == online' = up /\ UNCHANGED <<posted, version, buffer>>

ShowNewest(m) == online /\ m \in Recent(PollLimit) /\ Show(m, version[m])

BufferNext ==
    \/ (PostMessage \/ \E m \in Messages : EditMessage(m)) /\ UNCHANGED <<buffer, online>>
    \/ \E m \in Messages : \E v \in 1..version[m] : Show(m, v)
    \/ Forget \/ Link(~online)

BufferFairness == \A m \in Messages : WF_bufferVars(ShowNewest(m))

BufferSpec == BufferInit /\ [][BufferNext]_bufferVars /\ BufferFairness
=============================================================================
