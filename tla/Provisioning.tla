---------------------------- MODULE Provisioning ----------------------------
(***************************************************************************)
(* What opening a sensor may do to the unit, and what its answer says of   *)
(* it.  A 550c on a foreign PSK loses it only together with its            *)
(* application, and gets its application back only together with the       *)
(* all-zero PSK, both within an open request; a 53x5 gets the all-zero PSK *)
(* and keeps its application.  An open that succeeds leaves a unit with an *)
(* application, on a 53x5 one with the all-zero PSK; a unit is said to be  *)
(* reprovisioned only when it is.                                          *)
(***************************************************************************)
VARIABLES
  family,   \* "GTLS" (53x5) or "TLS_PSK" (550c)
  unit,     \* the unit's PSK, "FOREIGN" or "ZERO", or "ERASED" without application
  request,  \* "CLOSED", "OPENING" or "OPEN"
  answer    \* how the last open request was answered

vars == <<family, unit, request, answer>>

Init ==
  /\ family \in {"GTLS", "TLS_PSK"} /\ unit \in {"FOREIGN", "ZERO"}
  /\ request = "CLOSED" /\ answer = "NONE"

----
\* What a step may do to the unit.

Erase == family = "TLS_PSK" /\ request = "OPENING" /\ unit' = "ERASED"

\* The application and the PSK are committed together.
Provision ==
  /\ family = "TLS_PSK" /\ request = "OPENING"
  /\ unit \in {"ERASED", "ZERO"} /\ unit' = "ZERO"

WritePsk == family = "GTLS" /\ request # "CLOSED" /\ unit' = "ZERO"

Change == Erase \/ Provision \/ WritePsk \/ UNCHANGED unit

----
\* The request and its answer.

Ask ==
  /\ request = "CLOSED" /\ UNCHANGED unit
  /\ \/ request' = "OPENING" /\ answer' = "NONE"
     \/ request' = "CLOSED" /\ answer' = "ERROR"

Proceed == Change /\ UNCHANGED <<request, answer>>

\* A step that fails may have reached the unit.
Fail == Change /\ request = "OPENING" /\ request' = "CLOSED" /\ answer' = "ERROR"

Succeed ==
  /\ request = "OPENING" /\ request' = "OPEN" /\ answer' = "OK"
  /\ unit # "ERASED" /\ (family = "GTLS" => unit = "ZERO")
  /\ UNCHANGED unit

Reprovisioned ==
  /\ request = "OPENING" /\ request' = "CLOSED" /\ answer' = "REMOVED"
  /\ unit = "ZERO" /\ UNCHANGED unit

Close == request = "OPEN" /\ request' = "CLOSED" /\ UNCHANGED <<unit, answer>>

\* The daemon dies, between any two steps.
Crash == request' = "CLOSED" /\ answer' = "NONE" /\ UNCHANGED unit

Next ==
  /\ UNCHANGED family
  /\ Ask \/ Proceed \/ Fail \/ Succeed \/ Reprovisioned \/ Close \/ Crash

Spec == Init /\ [][Next]_vars
=============================================================================
