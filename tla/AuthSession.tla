---------------------------- MODULE AuthSession ----------------------------
(***************************************************************************)
(* One opened sensor and the actions libfprint runs on it: verify/identify *)
(* (here one action, "AUTH": they differ only in how the match is scored)  *)
(* and enroll.  The module follows the task SSMs of goodix53x5-auth.c and  *)
(* goodix53x5-enroll.c, the scan sub-SSMs of goodix53x5-scan.c, the read   *)
(* callback of goodix53x5-transport.c, and the suspend, resume, cancel,    *)
(* open and close entry points.                                            *)
(*                                                                         *)
(* The driver runs on one main loop: a step is one callback together with  *)
(* every SSM handler it runs before the next transfer is submitted.  `st`  *)
(* names the state whose transfer is outstanding.  A command exchange      *)
(* (write, ACK, reply) is one asynchronous operation here; its own states  *)
(* are those of goodix_cmd_ssm_handler.  The open SSM run as a sub-SSM is  *)
(* the single state "REINIT".  libfprint and the sleeping host are modelled *)
(* from how the driver's code and comments rely on them.                   *)
(***************************************************************************)
EXTENDS Naturals

CONSTANT EnrollSamples   \* GOODIX_ENROLL_SAMPLES

ASSUME SessionAssumption == EnrollSamples \in Nat \ {0}

VARIABLES
  \* --- the driver's device struct
  variant,         \* "GTLS" (53x5) or "TLS_PSK" (550c), set by the probe
  action,          \* fpi_device_get_current_action: "NONE", "AUTH", "ENROLL"
  st,              \* state whose transfer, timer or sub-SSM is outstanding
  blocking,        \* blocking_ssm: the wait state of the blocked SSM, or "NULL"
  cancelled,       \* self->cancel has been cancelled
  suspend_pending, \* the read callback owes suspend_complete()
  needs_reinit,
  claimed,         \* usb_interface_claimed
  reported,        \* action_result_reported
  wait_up,         \* verify_wait_finger_up
  pending,         \* the queued result report or action error
  reference,       \* reference_image is set
  captured,        \* captured_image is set
  stage,           \* enroll_stage, the number of features stored
  orphan,          \* a read the SSM no longer waits for is still submitted
  \* --- the environment
  sys,             \* where the host is in its sleep cycle
  link,            \* does the USB claim still reach the sensor: "GOOD", "STALE"
  sensor,          \* "AWAKE", "ARMED" (finger detection on) or "ASLEEP"
  \* --- history, for the properties
  decision,        \* what the match of this action decided
  delivered,       \* the result this action gave libfprint, "TWICE" if several
  outcome,         \* how the last action completed
  failed,          \* the error that ended this action's SSM, even if dropped
  lifted,          \* a finger-up event was seen in this action
  slept,           \* slept since the last open, with the suspend hook called
  staleFails       \* actions lost to the present stale link (counted up to 2)

ssmVars    == <<action, st>>
readVars   == <<blocking, cancelled, suspend_pending, orphan>>
usbVars    == <<needs_reinit, claimed>>
resultVars == <<reported, wait_up, pending>>
imageVars  == <<reference, captured, stage>>
envVars    == <<sys, link, sensor>>
doneVars   == <<delivered, outcome, failed, slept, staleFails>>
histVars   == <<decision, lifted, doneVars>>
vars == <<variant, ssmVars, readVars, usbVars, resultVars, imageVars, envVars, histVars>>

----
\* Positions of the task SSM, one per state that submits a transfer.

RefStates  == {"REF_EC_ON", "REF_REG_ON", "REF_GET_IMAGE", "REF_REG_OFF"}
ArmStates  == {"FW_EC_ON", "FW_FDT_DOWN_SETUP"}
CapStates  == {"CAP_REG_ON", "CAP_GET_IMAGE", "CAP_REG_OFF"}
UpStates   == {"FU_FDT_UP_SETUP", "FU_SLEEP", "FU_EC_OFF"}
DeactStates == {"DE_SLEEP", "DE_EC_OFF"}
CmdStates  == RefStates \cup ArmStates \cup {"FW_FDT_CHECK"} \cup CapStates
                \cup UpStates \cup DeactStates
WaitStates == {"FW_RECV_EVENT", "FU_RECV_EVENT"}
IoStates   == CmdStates \cup WaitStates
States     == IoStates \cup {"CLOSED", "IDLE", "REINIT", "SETTLE", "DESYNCED"}

\* GOODIX_VERIFY_FINISH: the states of its two sub-SSMs
FinishStates == UpStates \cup DeactStates \cup {"FU_RECV_EVENT"}

Results == {"MATCH", "NO_MATCH", "RETRY"}
Errors  == {"USB", "PROTO", "CANCELLED", "BUSY", "GENERAL", "DATA_INVALID"}

----
\* Where each sub-SSM starts and what follows a successful command.

IsTls == variant = "TLS_PSK"

RefStart == IF IsTls THEN "REF_REG_ON" ELSE "REF_EC_ON"
WaitStart == IF IsTls THEN "FW_FDT_DOWN_SETUP" ELSE "FW_EC_ON"
CaptureStart == IF IsTls THEN "CAP_REG_ON" ELSE "CAP_GET_IMAGE"

RefNext(s) ==
  CASE s \in {"REF_EC_ON", "REF_REG_ON"} -> "REF_GET_IMAGE"
    [] s = "REF_GET_IMAGE" /\ IsTls      -> "REF_REG_OFF"
    [] OTHER                             -> WaitStart

ArmNext(s) == IF s = "FW_EC_ON" THEN "FW_FDT_DOWN_SETUP" ELSE "FW_RECV_EVENT"

\* A bug to tell apart: the RECV_EVENT states do not record their SSM.
MutantGoto(s) == st' = s /\ UNCHANGED blocking
\* Running an SSM handler up to its next transfer; the RECV_EVENT states
\* record the blocked sub-SSM before they submit their cancellable read.
Goto(s) ==
  /\ st' = s
  /\ blocking' = IF s \in WaitStates THEN s ELSE blocking

\* The main loop is frozen while the host sleeps; and reads of one USB pipe are
\* served in the order of their submission, so that nothing is received before an
\* abandoned read has completed.
Running == sys # "ASLEEP" /\ ~orphan

Succeeds == Running /\ link = "GOOD"

SensorAfter(s) ==
  CASE s \in {"FW_FDT_DOWN_SETUP", "FU_FDT_UP_SETUP"} -> "ARMED"
    [] s \in {"FU_SLEEP", "DE_SLEEP"}                 -> "ASLEEP"
    [] OTHER                                          -> sensor

\* libfprint, on completion of the action a refused suspend was waiting for.
SysAfterDone(s) == IF s = "CANCELLING" THEN "READY" ELSE s

----
\* Completion of the task SSMs.

Stale(err) == err = "USB"      \* goodix_error_indicates_stale_device

\* fpi_device_verify_report, fpi_device_identify_report
Deliver(r) == IF delivered = "NONE" THEN r ELSE "TWICE"

\* A bug to tell apart: a result reported at once is reported again.
MutantFlushPending == IF decision \in Results THEN Deliver(decision) ELSE delivered
\* goodix_flush_pending_result_report
FlushPending == IF pending \in Results THEN Deliver(pending) ELSE delivered

\* What both done callbacks leave behind: e is the error the action reports.
Finished(err, e, s) ==
  /\ action' = "NONE" /\ st' = "IDLE" /\ blocking' = "NULL"
  /\ reference' = FALSE /\ captured' = FALSE
  /\ outcome' = IF e = "NONE" THEN "OK" ELSE e
  /\ failed' = err
  /\ sys' = SysAfterDone(s)

\* History: a clean result with the host awake ends the wait for a
\* reinitialization; a transfer lost to a stale link is counted.
Remember(e) ==
  /\ slept' = (slept /\ ~(e = "NONE" /\ sys \in {"AWAKE", "WOKEN"}))
  /\ staleFails' = IF Stale(e) /\ link = "STALE" /\ st # "REINIT" /\ staleFails < 2
                   THEN staleFails + 1 ELSE staleFails

\* A bug to tell apart: a failure that is not a stale link clears the flag.
MutantReinitClears(e) == Stale(e)
\* A bug to tell apart: a stale link is not remembered.
MutantReinitForgets(e) == needs_reinit /\ e # "NONE"
\* What the done callbacks leave in needs_reinit.
ReinitAfter(e) == Stale(e) \/ (needs_reinit /\ e # "NONE")

\* A bug to tell apart: cleanup errors after the match fail the action.
MutantAfterMatch(err) == err
\* goodix_verify_ssm_done: an error at or after FINISH is dropped.
AfterMatch(err) ==
  IF st \in FinishStates /\ err # "CANCELLED" THEN "NONE" ELSE err

AuthDone(err, s) ==
  LET kept == AfterMatch(err)
      e == IF kept = "NONE" /\ pending = "DATA_INVALID" THEN "DATA_INVALID" ELSE kept
  IN /\ Finished(err, e, s)
     /\ Remember(e)
     /\ delivered' = IF e = "NONE" THEN FlushPending ELSE delivered
     /\ pending' = "NONE" /\ reported' = FALSE /\ wait_up' = FALSE
     /\ needs_reinit' = ReinitAfter(e)
     /\ UNCHANGED stage

EnrollDone(err, s) ==
  /\ Finished(err, err, s)
  /\ Remember(err)
  /\ needs_reinit' = ReinitAfter(err)
  /\ UNCHANGED <<delivered, resultVars, stage>>

\* fpi_ssm_mark_failed / mark_completed on the task SSM; s is the host's
\* state after what this step has already told libfprint.
Complete(err, s) ==
  IF action = "AUTH" THEN AuthDone(err, s) ELSE EnrollDone(err, s)

----
\* Open, close, and starting an action.

Init ==
  /\ variant \in {"GTLS", "TLS_PSK"}
  /\ action = "NONE" /\ st = "CLOSED" /\ blocking = "NULL"
  /\ cancelled = FALSE /\ suspend_pending = FALSE /\ orphan = FALSE
  /\ needs_reinit = FALSE /\ claimed = FALSE
  /\ reported = FALSE /\ wait_up = FALSE /\ pending = "NONE"
  /\ reference = FALSE /\ captured = FALSE /\ stage = 0
  /\ sys = "AWAKE" /\ link = "GOOD" /\ sensor \in {"AWAKE", "ARMED", "ASLEEP"}
  /\ decision = "NONE" /\ delivered = "NONE" /\ outcome = "NONE"
  /\ failed = "NONE" /\ lifted = FALSE /\ slept = FALSE /\ staleFails = 0

\* goodix_open_ssm_done without an error: the open SSM reset the device,
\* claimed the interface and put the sensor to sleep.
Open ==
  /\ st = "CLOSED" /\ sys = "AWAKE"
  /\ st' = "IDLE" /\ needs_reinit' = FALSE /\ claimed' = TRUE
  /\ link' = "GOOD" /\ sensor' = "ASLEEP"
  /\ decision' = "NONE" /\ delivered' = "NONE" /\ outcome' = "NONE"
  /\ failed' = "NONE" /\ lifted' = FALSE /\ slept' = FALSE /\ staleFails' = 0
  /\ UNCHANGED <<variant, action, readVars, resultVars, imageVars, sys>>

Close ==
  /\ st = "IDLE" /\ sys = "AWAKE"
  /\ st' = "CLOSED" /\ claimed' = FALSE
  /\ blocking' = "NULL" /\ suspend_pending' = FALSE /\ cancelled' = FALSE
  /\ pending' = "NONE" /\ reported' = FALSE /\ wait_up' = FALSE
  /\ reference' = FALSE /\ captured' = FALSE
  /\ UNCHANGED <<variant, action, orphan, needs_reinit, stage, envVars, histVars>>

\* goodix_maybe_start_reinit_subsm: release the stale claim and run the open
\* SSM, or go straight on.
BeginOrReinit ==
  /\ st' = IF needs_reinit THEN "REINIT" ELSE RefStart
  /\ claimed' = (claimed /\ ~needs_reinit)
  /\ UNCHANGED needs_reinit

NewAction(a) ==
  /\ st = "IDLE" /\ sys = "AWAKE"
  /\ action' = a
  /\ BeginOrReinit
  /\ cancelled' = FALSE
  /\ reference' = FALSE /\ captured' = FALSE
  /\ decision' = "NONE" /\ delivered' = "NONE" /\ outcome' = "NONE"
  /\ failed' = "NONE" /\ lifted' = FALSE
  /\ UNCHANGED <<variant, blocking, suspend_pending, orphan, envVars, slept, staleFails>>

StartAuth ==
  /\ NewAction("AUTH")
  /\ pending' = "NONE" /\ reported' = FALSE /\ wait_up' = FALSE
  /\ UNCHANGED stage

StartEnroll ==
  /\ NewAction("ENROLL")
  /\ stage' = 0
  /\ UNCHANGED resultVars

\* GOODIX_ENROLL_CAPTURE_REF honours a cancellation before it captures; the
\* auth SSM's state does not look.
CancelSeen == action = "ENROLL" /\ cancelled

----
\* The reinitialization sub-SSM (the whole of goodix_open_ssm_handler).

ReinitOk ==
  /\ st = "REINIT" /\ Running
  /\ link' = "GOOD" /\ claimed' = TRUE /\ sensor' = "ASLEEP"
  /\ slept' = FALSE /\ staleFails' = 0
  /\ IF CancelSeen
       THEN /\ Finished("CANCELLED", "CANCELLED", sys)
            /\ UNCHANGED <<resultVars, delivered, stage>>
       ELSE /\ st' = RefStart
            /\ UNCHANGED <<action, blocking, resultVars, imageVars,
                           delivered, outcome, failed, sys>>
  /\ needs_reinit' = FALSE
  /\ UNCHANGED <<variant, cancelled, suspend_pending, orphan, decision, lifted>>

\* It stops before or after its USB reset and claim.
ReinitFails ==
  /\ st = "REINIT" /\ Running
  /\ \E err \in {"USB", "PROTO"} : Complete(err, sys)
  /\ claimed' \in BOOLEAN
  /\ link' \in {link, "GOOD"}
  /\ UNCHANGED <<variant, cancelled, suspend_pending, orphan, sensor, decision, lifted>>

----
\* Commands.  What a step leaves alone besides the SSM position:
StepRest ==
  UNCHANGED <<variant, action, cancelled, suspend_pending, orphan, usbVars, sys, link,
              doneVars>>

\* goodix_ref_capture_ssm_handler: DECODE keeps the no-finger frame.
RefCapture ==
  /\ st \in RefStates /\ Succeeds
  /\ Goto(RefNext(st))
  /\ reference' = (reference \/ st = "REF_GET_IMAGE")
  /\ StepRest
  /\ UNCHANGED <<resultVars, captured, stage, sensor, decision, lifted>>

\* goodix_finger_wait_ssm_handler up to the blocking read.
ArmDown ==
  /\ st \in ArmStates /\ Succeeds
  /\ Goto(ArmNext(st))
  /\ sensor' = SensorAfter(st)
  /\ StepRest
  /\ UNCHANGED <<resultVars, imageVars, decision, lifted>>

\* FDT_CHECK and VALIDATE: a false finger-down event re-arms the wait.
FingerCheck ==
  /\ st = "FW_FDT_CHECK" /\ Succeeds
  /\ \E real \in BOOLEAN : Goto(IF real THEN CaptureStart ELSE "FW_FDT_DOWN_SETUP")
  /\ StepRest
  /\ UNCHANGED <<resultVars, imageVars, sensor, decision, lifted>>

\* A bug to tell apart: the early return of a retry skips the wait.
MutantWaitsForLift(d) == d = "NO_MATCH"
\* What verify_wait_finger_up is set to.
WaitsForLift(d) == d \in {"NO_MATCH", "RETRY"}

\* GOODIX_VERIFY_MATCH and the state after it.  A retry returns early: its
\* report stays queued, a mismatch is reported at once.
Match(d) ==
  /\ decision' = d
  /\ captured' = FALSE
  /\ wait_up' = WaitsForLift(d)
  /\ IF d = "NO_MATCH"
       THEN delivered' = Deliver(d) /\ reported' = TRUE /\ pending' = "NONE"
       ELSE pending' = d /\ UNCHANGED <<delivered, reported>>
  /\ Goto(IF WaitsForLift(d) THEN "FU_FDT_UP_SETUP" ELSE "DE_SLEEP")
  /\ UNCHANGED <<action, outcome, failed, slept, staleFails,
                 usbVars, sys, stage>>

\* GOODIX_ENROLL_PROCESS: a rejected capture stores nothing.
Process ==
  \/ \E stored \in {0, 1} :
       /\ stage' = stage + stored
       /\ captured' = FALSE
       /\ Goto("FU_FDT_UP_SETUP")
       /\ UNCHANGED <<action, usbVars, resultVars, sys, doneVars, decision>>
  \/ Complete("GENERAL", sys) /\ UNCHANGED <<claimed, decision>>

Evaluate ==
  IF action = "AUTH"
    THEN \E d \in Results \cup {"DATA_INVALID"} : Match(d)
    ELSE Process

\* goodix_capture_ssm_handler: DECRYPT needs the reference frame, and uses it
\* up.  The 53x5 is done with the decoded image; the 550c disables readout.
Capture ==
  /\ st \in CapStates /\ Succeeds
  /\ CASE st = "CAP_REG_ON" ->
            /\ Goto("CAP_GET_IMAGE") /\ UNCHANGED <<action, usbVars, resultVars,
                 imageVars, sys, doneVars, decision>>
       [] st = "CAP_GET_IMAGE" /\ ~reference ->
            Complete("PROTO", sys) /\ UNCHANGED <<claimed, decision>>
       [] st = "CAP_GET_IMAGE" /\ reference /\ IsTls ->
            /\ Goto("CAP_REG_OFF") /\ reference' = FALSE /\ captured' = TRUE
            /\ UNCHANGED <<action, usbVars, resultVars, stage, sys, doneVars, decision>>
       [] OTHER -> Evaluate /\ reference' = FALSE
  /\ UNCHANGED <<variant, cancelled, suspend_pending, orphan, link, sensor, lifted>>

\* Bugs to tell apart: one sample too few, one too many.
MutantSettlesEarly == action = "ENROLL" /\ stage < EnrollSamples - 1
MutantSettlesLate == action = "ENROLL" /\ stage <= EnrollSamples
\* What follows the last finger-up or deactivate state: the auth SSM is done;
\* GOODIX_ENROLL_NEXT settles before the next sample, or is done.
Settles == action = "ENROLL" /\ stage < EnrollSamples

AfterScan ==
  IF Settles /\ ~cancelled
    THEN st' = "SETTLE" /\ UNCHANGED <<action, blocking, needs_reinit, resultVars,
                                       imageVars, sys, doneVars>>
    ELSE Complete(IF Settles THEN "CANCELLED" ELSE "NONE", sys)

\* A bug to tell apart: the finger-up SSM ends as soon as its wait is armed.
MutantUpNext(s) == IF s = "DE_SLEEP" /\ ~IsTls THEN "DE_EC_OFF" ELSE "DONE"
\* goodix_finger_up_ssm_handler and goodix_deactivate_ssm_handler; the 550c
\* skips the EC power-off.
UpNext(s) ==
  CASE s = "FU_FDT_UP_SETUP"       -> "FU_RECV_EVENT"
    [] s = "FU_SLEEP" /\ ~IsTls    -> "FU_EC_OFF"
    [] s = "DE_SLEEP" /\ ~IsTls    -> "DE_EC_OFF"
    [] OTHER                       -> "DONE"

FinishScan ==
  /\ st \in UpStates \cup DeactStates /\ Succeeds
  /\ sensor' = SensorAfter(st)
  /\ IF UpNext(st) = "DONE"
       THEN AfterScan
       ELSE Goto(UpNext(st)) /\ UNCHANGED <<action, needs_reinit, resultVars,
                                            imageVars, sys, doneVars>>
  /\ UNCHANGED <<variant, cancelled, suspend_pending, orphan, claimed, link, decision,
                 lifted>>

\* A bug to tell apart: the next sample reuses the reference frame.
MutantSettleTarget == WaitStart
\* GOODIX_ENROLL_CAPTURE_REF: every sample has its own reference frame.
SettleTarget == RefStart

\* The settle timer fires, and GOODIX_ENROLL_CAPTURE_REF runs.
SettleTimer ==
  /\ st = "SETTLE" /\ sys # "ASLEEP"
  /\ IF cancelled
       THEN Complete("CANCELLED", sys)
       ELSE Goto(SettleTarget) /\ UNCHANGED <<action, needs_reinit, resultVars,
                                              imageVars, sys, doneVars>>
  /\ UNCHANGED <<variant, cancelled, suspend_pending, orphan, claimed, link, sensor,
                 decision, lifted>>

\* A command's transfer fails or times out, or (the device still answering) a
\* reply is refused.  The sensor may have acted on the command.
CmdFails ==
  /\ st \in CmdStates /\ Running
  /\ \E err \in {"USB"} \cup (IF link = "GOOD" THEN {"PROTO"} ELSE {}) :
       Complete(err, sys)
  /\ sensor' \in IF link = "GOOD" THEN {sensor, SensorAfter(st)} ELSE {sensor}
  /\ UNCHANGED <<variant, cancelled, suspend_pending, orphan, claimed, link, decision,
                 lifted>>

----
\* goodix_rx_cb on the cancellable read of a wait state.

\* What every way out of the read leaves to the rest of the state.
ReadRest == UNCHANGED <<variant, cancelled, orphan, claimed, link, decision>>

\* A bug to tell apart: the read callback forgets the suspend it owes.
MutantSuspendedEnd == Complete("BUSY", sys) /\ UNCHANGED suspend_pending
\* The read ends with a suspend pending: answer it, and fail the action.
SuspendedEnd ==
  /\ suspend_pending' = FALSE
  /\ Complete("BUSY", "CANCELLING")

\* Data arrives: it raced with the suspend, or it is the event.  The parsed
\* finger-down event is checked; after finger-up the sensor is put to sleep.
EventArrives ==
  /\ st \in WaitStates /\ Succeeds
  /\ IF suspend_pending
       THEN SuspendedEnd /\ UNCHANGED <<sensor, lifted>>
       ELSE /\ st' = IF st = "FW_RECV_EVENT" THEN "FW_FDT_CHECK" ELSE "FU_SLEEP"
            /\ blocking' = "NULL"
            /\ sensor' = "AWAKE"
            /\ lifted' = (lifted \/ st = "FU_RECV_EVENT")
            /\ UNCHANGED <<action, suspend_pending, needs_reinit, resultVars,
                           imageVars, sys, doneVars>>
  /\ ReadRest

\* Data arrives that does not reassemble or is not the expected event.
BadEvent ==
  /\ st \in WaitStates /\ Succeeds
  /\ IF suspend_pending
       THEN SuspendedEnd
       ELSE Complete("PROTO", sys) /\ UNCHANGED suspend_pending
  /\ UNCHANGED <<sensor, lifted>>
  /\ ReadRest

\* GOODIX_FINGER_UP_SLEEP in the SSM the read belongs to: state 3 of the
\* finger-wait SSM is RECV_EVENT again.
ShutdownState == IF st = "FU_RECV_EVENT" THEN "FU_SLEEP" ELSE st

\* A bug to tell apart: any cancelled wait takes the shutdown jump.
MutantJumps == ~suspend_pending /\ blocking = st
\* The result is out and nobody waits for a finger to lift.
JumpsToShutdown == ~suspend_pending /\ reported /\ ~wait_up /\ blocking = st

ReadCancelled ==
  /\ st \in WaitStates /\ Running /\ cancelled
  /\ IF JumpsToShutdown
       THEN st' = ShutdownState
            /\ blocking' = (IF st = "FU_RECV_EVENT" THEN "NULL" ELSE st)
            /\ UNCHANGED <<action, suspend_pending, needs_reinit, resultVars,
                           imageVars, sys, doneVars>>
       ELSE IF suspend_pending
              THEN SuspendedEnd
              ELSE Complete("CANCELLED", sys) /\ UNCHANGED suspend_pending
  /\ UNCHANGED <<sensor, lifted>>
  /\ ReadRest

\* The read fails: the pending suspend, if any, is answered with the error.
ReadFails ==
  /\ st \in WaitStates /\ Running
  /\ suspend_pending' = FALSE
  /\ Complete("USB", IF suspend_pending THEN "CANCELLING" ELSE sys)
  /\ UNCHANGED <<sensor, lifted>>
  /\ ReadRest

----
\* libfprint's calls while an action runs, and the host's sleep cycle.

\* goodix_cancel: the user's, or libfprint's after a refused suspend.
Cancel ==
  /\ action # "NONE" /\ sys \in {"AWAKE", "CANCELLING"} /\ ~cancelled
  /\ cancelled' = TRUE
  /\ UNCHANGED <<variant, ssmVars, blocking, suspend_pending, orphan, usbVars, resultVars,
                 imageVars, envVars, histVars>>

\* goodix_session_suspend.
Suspend ==
  /\ action # "NONE" /\ st # "DESYNCED" /\ sys = "AWAKE"
  /\ needs_reinit' = TRUE
  /\ IF action = "AUTH" /\ blocking # "NULL"
       THEN suspend_pending' = TRUE /\ cancelled' = TRUE /\ sys' = "SUSPENDING"
       ELSE sys' = (IF action = "AUTH" THEN "READY" ELSE "CANCELLING")
            /\ UNCHANGED <<suspend_pending, cancelled>>
  /\ UNCHANGED <<variant, ssmVars, blocking, orphan, claimed, resultVars, imageVars, link,
                 sensor, histVars>>

\* Between actions libfprint does not call the driver.
IdleSuspend ==
  /\ action = "NONE" /\ sys = "AWAKE"
  /\ sys' = "READY_IDLE"
  /\ UNCHANGED <<variant, ssmVars, readVars, usbVars, resultVars, imageVars, link, sensor,
                 histVars>>

\* The host sleeps; the device may re-enumerate while it does.
Sleep ==
  /\ sys \in {"READY", "READY_IDLE"}
  /\ sys' = "ASLEEP"
  /\ link' \in {link, "STALE"}
  /\ slept' = (slept \/ (sys = "READY" /\ st # "CLOSED"))
  /\ UNCHANGED <<variant, ssmVars, readVars, usbVars, resultVars, imageVars, sensor,
                 decision, lifted, delivered, outcome, failed, staleFails>>

Wake ==
  /\ sys = "ASLEEP" /\ sys' = "WOKEN"
  /\ UNCHANGED <<variant, ssmVars, readVars, usbVars, resultVars, imageVars, link, sensor,
                 histVars>>

\* goodix_session_resume: a new cancellable, and the blocked SSM restarts at
\* its resume state; the read it had submitted is still there.
ResumeState == IF blocking = "FW_RECV_EVENT" THEN "FW_FDT_DOWN_SETUP" ELSE "FU_FDT_UP_SETUP"

Resume ==
  /\ sys = "WOKEN" /\ st # "DESYNCED"
  /\ sys' = "AWAKE"
  /\ cancelled' = (cancelled /\ action # "AUTH")
  /\ IF action = "AUTH" /\ blocking # "NULL"
       THEN st' = ResumeState /\ blocking' = "NULL" /\ orphan' = TRUE
       ELSE UNCHANGED <<st, blocking, orphan>>
  /\ UNCHANGED <<variant, action, suspend_pending, usbVars, resultVars, imageVars, link,
                 sensor, histVars>>

\* The abandoned read completes against an SSM that has moved on: its callback
\* advances or fails that SSM while a command of it is in flight.  What follows
\* is not modelled; the daemon is restarted.
ForeignCompletion ==
  /\ orphan /\ sys # "ASLEEP" /\ st # "DESYNCED"
  /\ st' = "DESYNCED"
  /\ UNCHANGED <<variant, action, readVars, usbVars, resultVars, imageVars, envVars,
                 histVars>>

Restart ==
  /\ st = "DESYNCED" /\ sys # "ASLEEP"
  /\ action' = "NONE" /\ st' = "CLOSED" /\ blocking' = "NULL"
  /\ cancelled' = FALSE /\ suspend_pending' = FALSE /\ orphan' = FALSE
  /\ needs_reinit' = FALSE /\ claimed' = FALSE
  /\ reported' = FALSE /\ wait_up' = FALSE /\ pending' = "NONE"
  /\ reference' = FALSE /\ captured' = FALSE /\ stage' = 0
  /\ decision' = "NONE" /\ delivered' = "NONE" /\ outcome' = "NONE"
  /\ failed' = "NONE" /\ lifted' = FALSE /\ slept' = FALSE /\ staleFails' = 0
  /\ sys' = "AWAKE"
  /\ UNCHANGED <<variant, link, sensor>>

----
Commands == RefCapture \/ ArmDown \/ FingerCheck \/ Capture \/ FinishScan \/ CmdFails
ReadEnds == EventArrives \/ BadEvent \/ ReadCancelled \/ ReadFails
Environment == Cancel \/ Suspend \/ IdleSuspend \/ Sleep \/ Wake \/ Resume
                 \/ ForeignCompletion \/ Restart

Next ==
  \/ Open \/ Close \/ StartAuth \/ StartEnroll \/ ReinitOk \/ ReinitFails
  \/ Commands \/ SettleTimer \/ ReadEnds \/ Environment

Spec == Init /\ [][Next]_vars

----
\* Type invariant.
FlagsOK ==
  /\ cancelled \in BOOLEAN /\ suspend_pending \in BOOLEAN /\ orphan \in BOOLEAN
  /\ needs_reinit \in BOOLEAN /\ claimed \in BOOLEAN
  /\ reported \in BOOLEAN /\ wait_up \in BOOLEAN
  /\ reference \in BOOLEAN /\ captured \in BOOLEAN
  /\ lifted \in BOOLEAN /\ slept \in BOOLEAN
ValuesOK ==
  /\ variant \in {"GTLS", "TLS_PSK"} /\ action \in {"NONE", "AUTH", "ENROLL"}
  /\ st \in States
  /\ blocking \in WaitStates \cup {"NULL"}
  /\ pending \in {"NONE", "MATCH", "RETRY", "DATA_INVALID"}
  /\ stage \in 0 .. EnrollSamples
  /\ sys \in {"AWAKE", "SUSPENDING", "CANCELLING", "READY", "READY_IDLE",
              "ASLEEP", "WOKEN"}
  /\ link \in {"GOOD", "STALE"} /\ sensor \in {"AWAKE", "ARMED", "ASLEEP"}
  /\ decision \in Results \cup {"NONE", "DATA_INVALID"}
  /\ delivered \in Results \cup {"NONE"}
  /\ outcome \in Errors \cup {"NONE", "OK"}
  /\ failed \in Errors \cup {"NONE"}
  /\ staleFails \in 0 .. 2
TypeOK == FlagsOK /\ ValuesOK

\* blocking_ssm names the SSM that waits in a cancellable read and nothing else: a
\* suspend or resume never reaches for an SSM that is past its wait, or freed.
\* What a resume leaves submitted is another matter: that is orphan.
BlockingConsistent == blocking = IF st \in WaitStates THEN st ELSE "NULL"

\* The suspend_complete() libfprint waits for is owed by a read that is still
\* outstanding and already cancelled, and by nobody else.
SuspendOwed ==
  /\ suspend_pending <=> sys = "SUSPENDING"
  /\ suspend_pending => action = "AUTH" /\ st \in WaitStates /\ cancelled

\* No transfer is submitted without the USB interface, and an open device that
\* has lost its claim knows that it has to be reinitialized.
ClaimedForIO ==
  /\ st \in IoStates \cup {"SETTLE", "DESYNCED"} => claimed
  /\ st \in {"IDLE", "REINIT"} /\ ~claimed => needs_reinit

\* Every path to the live capture, through re-arming, resume and the enroll
\* loop, holds a reference frame: the "Missing reference image" branch of
\* GOODIX_CAPTURE_DECRYPT is not taken.
ReferenceBeforeCapture ==
  st \in ArmStates \cup {"FW_RECV_EVENT", "FW_FDT_CHECK", "CAP_REG_ON", "CAP_GET_IMAGE"}
    => reference

\* A match is delivered, whatever the cleanup, a cancellation or the host's
\* sleep cycle does afterwards.
MatchDelivered ==
  action = "NONE" /\ decision = "MATCH" => outcome = "OK" /\ delivered = "MATCH"

\* Sleep may break the link unseen, but only one action is lost to it: the
\* next one reinitializes.
HealsAfterOneFailure ==
  /\ staleFails <= 1
  /\ st = "IDLE" /\ link = "STALE" /\ staleFails = 1 => needs_reinit

\* An action that ends with no failure on the way leaves the sensor asleep.
CleanCompletionSleeps ==
  action = "NONE" /\ outcome = "OK" /\ failed = "NONE" => sensor = "ASLEEP"

\* One held finger cannot consume two attempts: an attempt that did not match
\* completes (no failure on the way) only after the finger was lifted.
LiftBeforeNextAttempt ==
  action = "NONE" /\ outcome = "OK" /\ failed = "NONE" /\ decision \in {"NO_MATCH", "RETRY"}
    => lifted

\* An enrollment that succeeds has stored every sample, and no more.
EnrollComplete ==
  action = "NONE" /\ outcome = "OK" /\ decision = "NONE" => stage = EnrollSamples

\* The callbacks, at most, from a state to the next wait for the finger or the end
\* of the action.
PaceRank ==
  [FU_SLEEP |-> 8, FU_EC_OFF |-> 7, SETTLE |-> 6, REINIT |-> 6,
   REF_EC_ON |-> 5, REF_REG_ON |-> 5, REF_GET_IMAGE |-> 4, REF_REG_OFF |-> 3,
   FW_EC_ON |-> 2, FW_FDT_DOWN_SETUP |-> 1,
   FW_FDT_CHECK |-> 6, CAP_REG_ON |-> 5, CAP_GET_IMAGE |-> 4, CAP_REG_OFF |-> 3,
   DE_SLEEP |-> 2, DE_EC_OFF |-> 1, FU_FDT_UP_SETUP |-> 1]

ComesCloser ==
  st' # st /\ {st, st'} \subseteq DOMAIN PaceRank => PaceRank[st'] < PaceRank[st]

\* No loop of an action is without a wait in which the finger comes or goes, or a
\* cancellation takes effect: not through false events, rejected captures,
\* retries, the next sample of an enrollment or a resume.
PacedByFinger == [][ComesCloser]_vars

----
\* The inductive invariant: what the properties above rest on.

\* Which action may be where, and what an abandoned read competes with.
ActionShape ==
  /\ action = "NONE" <=> st \in {"CLOSED", "IDLE"}
  /\ st \in DeactStates => action = "AUTH"
  /\ st = "SETTLE" => action = "ENROLL"
  /\ sys = "CANCELLING" => action = "ENROLL"
  /\ orphan => action = "AUTH"
             /\ st \in {"FW_FDT_DOWN_SETUP", "FU_FDT_UP_SETUP", "DESYNCED"}
  /\ st = "DESYNCED" => orphan
  /\ st = "REINIT" => needs_reinit

\* Before the match nothing is queued; after it the queue and the delivered
\* reports together are the decision.
DecisionShape ==
  /\ action = "NONE" => pending = "NONE" /\ ~reported /\ ~wait_up
  /\ action # "NONE" /\ (action = "ENROLL" \/ st \notin FinishStates \cup {"DESYNCED"})
       => /\ decision = "NONE" /\ delivered = "NONE"
          /\ pending = "NONE" /\ ~reported /\ ~wait_up
  /\ action = "AUTH" /\ st \in DeactStates
       => /\ decision \in {"MATCH", "DATA_INVALID"} /\ pending = decision
          /\ delivered = "NONE"
  /\ action = "AUTH" /\ st \in UpStates \cup {"FU_RECV_EVENT"}
       => /\ wait_up
          /\ \/ decision = "NO_MATCH" /\ pending = "NONE" /\ delivered = "NO_MATCH"
             \/ decision = "RETRY" /\ pending = "RETRY" /\ delivered = "NONE"

\* How far the scan of a sample has come.
ScanShape ==
  /\ st = "REF_REG_OFF" => reference
  /\ st \in {"FU_EC_OFF", "DE_EC_OFF"} => sensor = "ASLEEP"
  /\ st \in {"FU_SLEEP", "FU_EC_OFF"} => lifted
  /\ action = "ENROLL" /\ st \notin UpStates \cup {"FU_RECV_EVENT"}
       => stage < EnrollSamples

\* After an action is lost to a stale link, only a reinitialization or a new
\* open follows.
StaleShape ==
  /\ staleFails <= 1
  /\ staleFails = 1 => st \in {"CLOSED", "REINIT"} \/ (st = "IDLE" /\ needs_reinit)

Inductive ==
  /\ TypeOK /\ BlockingConsistent /\ SuspendOwed /\ ClaimedForIO
  /\ ReferenceBeforeCapture /\ MatchDelivered /\ CleanCompletionSleeps
  /\ LiftBeforeNextAttempt /\ EnrollComplete
  /\ ActionShape /\ DecisionShape /\ ScanShape /\ StaleShape
----
\* The session implements the service: action, decision, delivered and outcome
\* are the session's own.
Service == INSTANCE AuthService

\* The driver delivers what an authentication decided, at most once, never
\* completes cleanly without it, and never loses a match.
ServiceSpec == Service!Spec
=============================================================================
