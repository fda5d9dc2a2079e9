--------------------------- MODULE MCAuthSession ---------------------------
(***************************************************************************)
(* Specifications and properties TLC checks of AuthSession beside its      *)
(* invariants: liveness, and the statements of the source that the code    *)
(* does not keep.                                                          *)
(***************************************************************************)
EXTENDS AuthSession

----
\* Fairness.  Every command transfer has a timeout (goodix_recv_start is given
\* GOODIX_ACK_TIMEOUT or GOODIX_DATA_TIMEOUT, a submission GOODIX_CMD_TIMEOUT),
\* and so has every step of the open SSM; the settle delay is a timer.  A read
\* of a wait state has no timeout: only its cancellation is certain, and an
\* event that races with it can win only until the next read is submitted with
\* the cancelled cancellable, hence SF.  libfprint cancels what it could not
\* suspend.  The host need not sleep and a finger need not come or go.
FairSpec ==
  /\ Spec
  /\ WF_vars(Commands)
  /\ WF_vars(ReinitOk \/ ReinitFails)
  /\ WF_vars(SettleTimer)
  /\ SF_vars(ReadCancelled)
  /\ WF_vars(ForeignCompletion)
  /\ WF_vars(Cancel /\ sys = "CANCELLING")

\* A suspend request is always answered and the action it interrupts ends, so
\* that system sleep never waits for a finger or for logind's timeout.
SuspendEnds == sys \in {"SUSPENDING", "CANCELLING"} ~> sys = "READY"

\* A cancelled action ends without another finger, unless the host goes to
\* sleep meanwhile (resume replaces the cancellable, and forgets) or the
\* session is lost to an abandoned read.
CancelEnds ==
  cancelled /\ sys = "AWAKE" ~> action = "NONE" \/ sys # "AWAKE" \/ st = "DESYNCED"

----
\* Statements of the source that the code does not keep.

\* goodix_session_suspend: "Force a full reinitialization at the start of the
\* next action regardless of what we were doing when sleep hit."
SleepForcesReinit == st = "IDLE" /\ slept => needs_reinit

\* goodix_rx_cb: a cancellation after the result was reported must "finish the
\* sensor shutdown sequence rather than ... leaving the MCU armed".
CancelAfterReportSleeps ==
  st = "IDLE" /\ outcome = "CANCELLED" /\ delivered # "NONE" => sensor = "ASLEEP"
=============================================================================
