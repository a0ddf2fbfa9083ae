--------------------------- MODULE MCSettingsSync ---------------------------
(* One setting with three values: keys only share the frames they travel in. *)
EXTENDS SettingsSync, TLC

CONSTANTS sl, v1, v2, v3

MCKeys    == {sl}
MCValues  == {v1, v2, v3}
MCDefault == [k \in MCKeys |-> v1]

\* Behaviours stop at a second race over a key: what the first one did to it
\* has been seen by then.
OneRace == \A k \in MCKeys : \A r, s \in raced[k] : r = s
=============================================================================
