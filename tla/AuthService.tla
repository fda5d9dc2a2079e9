---------------------------- MODULE AuthService ----------------------------
(***************************************************************************)
(* What the driver promises libfprint for one action: an authentication    *)
(* decides once, delivers that decision and no other, and at most once;    *)
(* it completes without an error only when the decision was delivered; a   *)
(* match is always delivered, whatever fails after it.  An enrollment      *)
(* reports nothing through these calls and only completes.                 *)
(***************************************************************************)
VARIABLES
  action,    \* "NONE", "AUTH" or "ENROLL"
  decision,  \* what the authentication decided, or "NONE"
  delivered, \* the result delivered to libfprint for it, or "NONE"
  outcome    \* how the last action completed

vars == <<action, decision, delivered, outcome>>

Results == {"MATCH", "NO_MATCH", "RETRY"}
Errors  == {"USB", "PROTO", "CANCELLED", "BUSY", "GENERAL", "DATA_INVALID"}

Init ==
  /\ action = "NONE" /\ decision = "NONE" /\ delivered = "NONE" /\ outcome = "NONE"

Start ==
  /\ action = "NONE"
  /\ action' \in {"AUTH", "ENROLL"}
  /\ decision' = "NONE" /\ delivered' = "NONE" /\ outcome' = "NONE"

\* The comparison: a mismatch is delivered with it, so that it counts even if
\* the user walks away; anything else is held back for now.
Decide ==
  /\ action = "AUTH" /\ decision = "NONE"
  /\ decision' \in Results \cup {"DATA_INVALID"}
  /\ delivered' = IF decision' = "NO_MATCH" THEN decision' ELSE "NONE"
  /\ UNCHANGED <<action, outcome>>

\* Completion without an error: the decision has been delivered by now.
Succeed ==
  /\ action # "NONE" /\ action' = "NONE" /\ outcome' = "OK"
  /\ action = "AUTH" => decision \in Results
  /\ delivered' = IF action = "AUTH" THEN decision ELSE delivered
  /\ UNCHANGED decision

\* Completion with an error delivers nothing more, and does not happen to a
\* match.  Unusable templates end in their own error.
Fail ==
  /\ action # "NONE" /\ action' = "NONE"
  /\ decision # "MATCH"
  /\ outcome' \in IF decision = "DATA_INVALID" THEN {"DATA_INVALID"}
                  ELSE Errors \ {"DATA_INVALID"}
  /\ UNCHANGED <<decision, delivered>>

\* The daemon is restarted under the action.
Restart ==
  /\ action' = "NONE" /\ decision' = "NONE" /\ delivered' = "NONE" /\ outcome' = "NONE"

Next == Start \/ Decide \/ Succeed \/ Fail \/ Restart

Spec == Init /\ [][Next]_vars
=============================================================================
