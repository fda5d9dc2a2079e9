------------------------ MODULE AuthSession_proofs ------------------------
(***************************************************************************)
(* Inductive is an invariant of AuthSession, for both variants and every   *)
(* number of enroll samples.                                               *)
(*                                                                         *)
(* Each action has a lemma.  FlagsOK, the typing of the Boolean variables, *)
(* is a step of its own.  Every way an action of libfprint can end goes    *)
(* through Complete, which CompleteEffect summarizes and CompletedKeeps    *)
(* shows to preserve the invariant; the actions that may end one cite it.  *)
(***************************************************************************)
EXTENDS AuthSession, TLAPS

\* The state sets that the shapes speak about.
USE DEF States, IoStates, CmdStates, RefStates, ArmStates, CapStates, UpStates,
        DeactStates, WaitStates, FinishStates, Results, Errors

\* The invariant holds in the initial states.
LEMMA InitInductive == Init => Inductive
<1> SUFFICES ASSUME Init PROVE Inductive OBVIOUS
<1>1. FlagsOK BY Zenon DEF Init, FlagsOK
<1>2. QED
  BY <1>1, SessionAssumption DEF Init, Inductive, TypeOK, FlagsOK, ValuesOK,
     BlockingConsistent, SuspendOwed, ClaimedForIO,
       ReferenceBeforeCapture, MatchDelivered, CleanCompletionSleeps,
       LiftBeforeNextAttempt, EnrollComplete, ActionShape, DecisionShape,
       ScanShape, StaleShape

----
\* Completion of an action.

\* What the done callbacks leave behind, by the error the SSM ended with.
LEMMA CompleteEffect ==
  ASSUME Inductive, NEW err \in Errors \cup {"NONE"}, NEW s, Complete(err, s),
         action # "NONE", st # "DESYNCED",
         err = "NONE" => st \in UpStates \cup DeactStates
  PROVE  /\ action' = "NONE" /\ st' = "IDLE" /\ blocking' = "NULL"
         /\ pending' = "NONE" /\ reported' = FALSE /\ wait_up' = FALSE
         /\ reference' = FALSE /\ captured' = FALSE
         /\ stage' = stage /\ failed' = err /\ sys' = SysAfterDone(s)
         /\ needs_reinit' \in BOOLEAN /\ slept' \in BOOLEAN
         /\ outcome' \in Errors \cup {"OK"}
         /\ delivered' \in Results \cup {"NONE"}
         /\ (decision = "MATCH" /\ st \in DeactStates /\ err # "CANCELLED")
              => outcome' = "OK" /\ delivered' = "MATCH"
         /\ outcome' = "OK" => \/ action = "ENROLL" /\ err = "NONE"
                               \/ action = "AUTH" /\ decision \in Results
         /\ (needs_reinit /\ err # "NONE" /\ st \notin FinishStates) => needs_reinit'
         /\ staleFails' \in 0 .. 2 /\ StaleShape'
<1> USE DEF Inductive, TypeOK, FlagsOK, ValuesOK, DecisionShape, ActionShape,
            Complete, AuthDone, EnrollDone, Finished, AfterMatch
<1>1. /\ action' = "NONE" /\ st' = "IDLE" /\ blocking' = "NULL"
      /\ pending' = "NONE" /\ reference' = FALSE /\ captured' = FALSE
  BY DEF resultVars
<1>2. reported' = FALSE /\ wait_up' = FALSE
  BY DEF resultVars
<1>3. stage' = stage /\ failed' = err /\ sys' = SysAfterDone(s)
  OBVIOUS
<1>4. needs_reinit' \in BOOLEAN /\ slept' \in BOOLEAN
  BY Zenon DEF Remember, ReinitAfter, Stale
<1>5. outcome' \in Errors \cup {"OK"} /\ delivered' \in Results \cup {"NONE"}
  BY DEF FlushPending, Deliver
<1>6. (decision = "MATCH" /\ st \in DeactStates /\ err # "CANCELLED")
        => outcome' = "OK" /\ delivered' = "MATCH"
  BY DEF FlushPending, Deliver
<1>7. outcome' = "OK" => \/ action = "ENROLL" /\ err = "NONE"
                         \/ action = "AUTH" /\ decision \in Results
  OBVIOUS
<1>8. (needs_reinit /\ err # "NONE" /\ st \notin FinishStates) => needs_reinit'
  BY Zenon DEF ReinitAfter, Stale
<1>9. staleFails' <= 1 /\ (staleFails' = 1 => needs_reinit')
  <2>1. CASE staleFails = 1
    <3>1. st = "REINIT" /\ needs_reinit /\ err # "NONE"
      BY <2>1 DEF StaleShape
    <3>2. staleFails' = staleFails
      BY <3>1 DEF Remember
    <3>3. QED BY <1>8, <2>1, <3>1, <3>2
  <2>2. CASE staleFails = 0
    BY <1>4, <2>2 DEF Remember, ReinitAfter, Stale
  <2>3. QED BY <2>1, <2>2 DEF StaleShape
<1>10. staleFails' \in 0 .. 2
  BY DEF Remember
<1>11. StaleShape'
  BY <1>1, <1>9 DEF StaleShape
<1>12. QED
  BY <1>1, <1>2, <1>3, <1>4, <1>5, <1>6, <1>7, <1>8, <1>10, <1>11, Zenon

\* A completion preserves the invariant, whichever step brings it about.
LEMMA CompletedKeeps ==
  ASSUME Inductive, NEW err \in Errors \cup {"NONE"}, NEW s, Complete(err, s),
         action # "NONE", st # "DESYNCED",
         err = "NONE" => /\ st \in UpStates \cup DeactStates
                         /\ sensor' = "ASLEEP"
                         /\ decision \in {"NO_MATCH", "RETRY"} => lifted
                         /\ action = "ENROLL" => stage = EnrollSamples,
         err = "CANCELLED" => st \notin DeactStates,
         decision' = decision, lifted' = lifted, cancelled' = cancelled, variant' = variant,
         orphan = FALSE, orphan' = FALSE, suspend_pending' = FALSE,
         claimed' \in BOOLEAN,
         claimed' \/ (needs_reinit /\ err # "NONE" /\ st \notin FinishStates),
         SysAfterDone(s) \in {"AWAKE", "READY", "READY_IDLE", "ASLEEP", "WOKEN"},
         link' \in {"GOOD", "STALE"}, sensor' \in {"AWAKE", "ARMED", "ASLEEP"}
  PROVE  Inductive'
<1>1. FlagsOK'
  BY CompleteEffect, Zenon DEF Inductive, TypeOK, FlagsOK
<1>2. MatchDelivered'
  BY CompleteEffect DEF Inductive, TypeOK, ValuesOK, ActionShape, DecisionShape,
     MatchDelivered
<1>3. ValuesOK'
  <2>1. action' \in {"NONE", "AUTH", "ENROLL"} /\ st' \in States
        /\ blocking' \in WaitStates \cup {"NULL"} /\ variant' \in {"GTLS", "TLS_PSK"}
    BY CompleteEffect DEF Inductive, TypeOK, ValuesOK
  <2>2. pending' \in {"NONE", "MATCH", "RETRY", "DATA_INVALID"}
        /\ stage' \in 0 .. EnrollSamples
    BY CompleteEffect DEF Inductive, TypeOK, ValuesOK
  <2>3. outcome' \in Errors \cup {"NONE", "OK"} /\ delivered' \in Results \cup {"NONE"}
        /\ failed' \in Errors \cup {"NONE"} /\ staleFails' \in 0 .. 2
    BY CompleteEffect
  <2>4. sys' \in {"AWAKE", "SUSPENDING", "CANCELLING", "READY", "READY_IDLE",
                 "ASLEEP", "WOKEN"}
        /\ decision' \in Results \cup {"NONE", "DATA_INVALID"}
    BY CompleteEffect DEF Inductive, TypeOK, ValuesOK
  <2>5. QED BY <2>1, <2>2, <2>3, <2>4 DEF ValuesOK
<1>4. ClaimedForIO'
  BY CompleteEffect, Zenon DEF ClaimedForIO
<1>5. BlockingConsistent' /\ SuspendOwed' /\ ReferenceBeforeCapture' /\ ActionShape'
  BY CompleteEffect DEF Inductive, BlockingConsistent, SuspendOwed,
     ReferenceBeforeCapture, ActionShape
<1>6. DecisionShape' /\ ScanShape'
  BY CompleteEffect DEF DecisionShape, ScanShape
<1>7. CleanCompletionSleeps' /\ LiftBeforeNextAttempt' /\ EnrollComplete'
  BY CompleteEffect DEF Inductive, TypeOK, ValuesOK, ActionShape, DecisionShape,
     CleanCompletionSleeps, LiftBeforeNextAttempt, EnrollComplete
<1>8. QED
  BY <1>1, <1>2, <1>3, <1>4, <1>5, <1>6, <1>7, CompleteEffect DEF Inductive, TypeOK

----
\* Opening, closing and starting.

\* Open preserves the invariant.
LEMMA OpenStep == Inductive /\ Open => Inductive'
<1> SUFFICES ASSUME Inductive, Open PROVE Inductive' OBVIOUS
<1> USE DEF Open, readVars, resultVars, imageVars
<1>1. FlagsOK'
  BY Zenon DEF Inductive, TypeOK, FlagsOK
<1>2. QED
  BY <1>1, SessionAssumption DEF Inductive, TypeOK, FlagsOK, ValuesOK,
     BlockingConsistent, SuspendOwed, ClaimedForIO,
       ReferenceBeforeCapture, MatchDelivered, CleanCompletionSleeps,
       LiftBeforeNextAttempt, EnrollComplete, ActionShape, DecisionShape,
       ScanShape, StaleShape

\* Close preserves the invariant.
LEMMA CloseStep == Inductive /\ Close => Inductive'
<1> SUFFICES ASSUME Inductive, Close PROVE Inductive' OBVIOUS
<1> USE DEF Close, envVars, histVars, doneVars
<1>1. FlagsOK'
  BY Zenon DEF Inductive, TypeOK, FlagsOK
<1>2. QED
  BY <1>1, SessionAssumption DEF Inductive, TypeOK, FlagsOK, ValuesOK,
     BlockingConsistent, SuspendOwed, ClaimedForIO,
       ReferenceBeforeCapture, MatchDelivered, CleanCompletionSleeps,
       LiftBeforeNextAttempt, EnrollComplete, ActionShape, DecisionShape,
       ScanShape, StaleShape

\* StartAuth preserves the invariant.
LEMMA StartAuthStep == Inductive /\ StartAuth => Inductive'
<1> SUFFICES ASSUME Inductive, StartAuth PROVE Inductive' OBVIOUS
<1> USE DEF StartAuth, NewAction, BeginOrReinit, RefStart, IsTls, envVars
<1>1. FlagsOK'
  BY Zenon DEF Inductive, TypeOK, FlagsOK
<1>2. QED
  BY <1>1, SessionAssumption DEF Inductive, TypeOK, FlagsOK, ValuesOK,
     BlockingConsistent, SuspendOwed, ClaimedForIO,
       ReferenceBeforeCapture, MatchDelivered, CleanCompletionSleeps,
       LiftBeforeNextAttempt, EnrollComplete, ActionShape, DecisionShape,
       ScanShape, StaleShape

\* StartEnroll preserves the invariant.
LEMMA StartEnrollStep == Inductive /\ StartEnroll => Inductive'
<1> SUFFICES ASSUME Inductive, StartEnroll PROVE Inductive' OBVIOUS
<1> USE DEF StartEnroll, NewAction, BeginOrReinit, RefStart, IsTls, envVars, resultVars
<1>1. FlagsOK'
  BY Zenon DEF Inductive, TypeOK, FlagsOK
<1>2. QED
  BY <1>1, SessionAssumption DEF Inductive, TypeOK, FlagsOK, ValuesOK,
     BlockingConsistent, SuspendOwed, ClaimedForIO,
       ReferenceBeforeCapture, MatchDelivered, CleanCompletionSleeps,
       LiftBeforeNextAttempt, EnrollComplete, ActionShape, DecisionShape,
       ScanShape, StaleShape

----
\* Commands.

\* RefCapture preserves the invariant.
LEMMA RefCaptureStep == Inductive /\ RefCapture => Inductive'
<1> SUFFICES ASSUME Inductive, RefCapture PROVE Inductive' OBVIOUS
<1> USE DEF RefCapture, Goto, RefNext, RefStart, WaitStart, IsTls, StepRest, Succeeds,
   Running, resultVars, usbVars, doneVars
<1>1. FlagsOK'
  BY Zenon DEF Inductive, TypeOK, FlagsOK
<1>2. QED
  BY <1>1, SessionAssumption DEF Inductive, TypeOK, FlagsOK, ValuesOK,
     BlockingConsistent, SuspendOwed, ClaimedForIO,
       ReferenceBeforeCapture, MatchDelivered, CleanCompletionSleeps,
       LiftBeforeNextAttempt, EnrollComplete, ActionShape, DecisionShape,
       ScanShape, StaleShape

\* ArmDown preserves the invariant.
LEMMA ArmDownStep == Inductive /\ ArmDown => Inductive'
<1> SUFFICES ASSUME Inductive, ArmDown PROVE Inductive' OBVIOUS
<1> USE DEF ArmDown, Goto, ArmNext, SensorAfter, StepRest, Succeeds, Running,
   resultVars, imageVars, usbVars, doneVars
<1>1. FlagsOK'
  BY Zenon DEF Inductive, TypeOK, FlagsOK
<1>2. QED
  BY <1>1, SessionAssumption DEF Inductive, TypeOK, FlagsOK, ValuesOK,
     BlockingConsistent, SuspendOwed, ClaimedForIO,
       ReferenceBeforeCapture, MatchDelivered, CleanCompletionSleeps,
       LiftBeforeNextAttempt, EnrollComplete, ActionShape, DecisionShape,
       ScanShape, StaleShape

\* FingerCheck preserves the invariant.
LEMMA FingerCheckStep == Inductive /\ FingerCheck => Inductive'
<1> SUFFICES ASSUME Inductive, FingerCheck PROVE Inductive' OBVIOUS
<1> USE DEF FingerCheck, Goto, CaptureStart, IsTls, StepRest, Succeeds, Running,
   resultVars, imageVars, usbVars, doneVars
<1>1. FlagsOK'
  BY Zenon DEF Inductive, TypeOK, FlagsOK
<1>2. QED
  BY <1>1, SessionAssumption DEF Inductive, TypeOK, FlagsOK, ValuesOK,
     BlockingConsistent, SuspendOwed, ClaimedForIO,
       ReferenceBeforeCapture, MatchDelivered, CleanCompletionSleeps,
       LiftBeforeNextAttempt, EnrollComplete, ActionShape, DecisionShape,
       ScanShape, StaleShape

----
\* The host.

\* Cancel preserves the invariant.
LEMMA CancelStep == Inductive /\ Cancel => Inductive'
<1> SUFFICES ASSUME Inductive, Cancel PROVE Inductive' OBVIOUS
<1> USE DEF Cancel, ssmVars, usbVars, resultVars, imageVars, envVars, histVars, doneVars
<1>1. FlagsOK'
  BY Zenon DEF Inductive, TypeOK, FlagsOK
<1>2. QED
  BY <1>1, SessionAssumption DEF Inductive, TypeOK, FlagsOK, ValuesOK,
     BlockingConsistent, SuspendOwed, ClaimedForIO,
       ReferenceBeforeCapture, MatchDelivered, CleanCompletionSleeps,
       LiftBeforeNextAttempt, EnrollComplete, ActionShape, DecisionShape,
       ScanShape, StaleShape

\* Suspend preserves the invariant.
LEMMA SuspendStep == Inductive /\ Suspend => Inductive'
<1> SUFFICES ASSUME Inductive, Suspend PROVE Inductive' OBVIOUS
<1> USE DEF Suspend, ssmVars, resultVars, imageVars, histVars, doneVars
<1>1. FlagsOK'
  BY Zenon DEF Inductive, TypeOK, FlagsOK
<1>2. QED
  BY <1>1, SessionAssumption DEF Inductive, TypeOK, FlagsOK, ValuesOK,
     BlockingConsistent, SuspendOwed, ClaimedForIO,
       ReferenceBeforeCapture, MatchDelivered, CleanCompletionSleeps,
       LiftBeforeNextAttempt, EnrollComplete, ActionShape, DecisionShape,
       ScanShape, StaleShape

\* IdleSuspend preserves the invariant.
LEMMA IdleSuspendStep == Inductive /\ IdleSuspend => Inductive'
<1> SUFFICES ASSUME Inductive, IdleSuspend PROVE Inductive' OBVIOUS
<1> USE DEF IdleSuspend, ssmVars, readVars, usbVars, resultVars, imageVars, histVars,
   doneVars
<1>1. FlagsOK'
  BY Zenon DEF Inductive, TypeOK, FlagsOK
<1>2. QED
  BY <1>1, SessionAssumption DEF Inductive, TypeOK, FlagsOK, ValuesOK,
     BlockingConsistent, SuspendOwed, ClaimedForIO,
       ReferenceBeforeCapture, MatchDelivered, CleanCompletionSleeps,
       LiftBeforeNextAttempt, EnrollComplete, ActionShape, DecisionShape,
       ScanShape, StaleShape

\* Sleep preserves the invariant.
LEMMA SleepStep == Inductive /\ Sleep => Inductive'
<1> SUFFICES ASSUME Inductive, Sleep PROVE Inductive' OBVIOUS
<1> USE DEF Sleep, ssmVars, readVars, usbVars, resultVars, imageVars
<1>1. FlagsOK'
  BY Zenon DEF Inductive, TypeOK, FlagsOK
<1>2. QED
  BY <1>1, SessionAssumption DEF Inductive, TypeOK, FlagsOK, ValuesOK,
     BlockingConsistent, SuspendOwed, ClaimedForIO,
       ReferenceBeforeCapture, MatchDelivered, CleanCompletionSleeps,
       LiftBeforeNextAttempt, EnrollComplete, ActionShape, DecisionShape,
       ScanShape, StaleShape

\* Wake preserves the invariant.
LEMMA WakeStep == Inductive /\ Wake => Inductive'
<1> SUFFICES ASSUME Inductive, Wake PROVE Inductive' OBVIOUS
<1> USE DEF Wake, ssmVars, readVars, usbVars, resultVars, imageVars, histVars, doneVars
<1>1. FlagsOK'
  BY Zenon DEF Inductive, TypeOK, FlagsOK
<1>2. QED
  BY <1>1, SessionAssumption DEF Inductive, TypeOK, FlagsOK, ValuesOK,
     BlockingConsistent, SuspendOwed, ClaimedForIO,
       ReferenceBeforeCapture, MatchDelivered, CleanCompletionSleeps,
       LiftBeforeNextAttempt, EnrollComplete, ActionShape, DecisionShape,
       ScanShape, StaleShape

\* Resume preserves the invariant.
LEMMA ResumeStep == Inductive /\ Resume => Inductive'
<1> SUFFICES ASSUME Inductive, Resume PROVE Inductive' OBVIOUS
<1> USE DEF Resume, ResumeState, usbVars, resultVars, imageVars, histVars, doneVars
<1>1. FlagsOK'
  BY Zenon DEF Inductive, TypeOK, FlagsOK
<1>2. QED
  BY <1>1, SessionAssumption DEF Inductive, TypeOK, FlagsOK, ValuesOK,
     BlockingConsistent, SuspendOwed, ClaimedForIO,
       ReferenceBeforeCapture, MatchDelivered, CleanCompletionSleeps,
       LiftBeforeNextAttempt, EnrollComplete, ActionShape, DecisionShape,
       ScanShape, StaleShape

\* ForeignCompletion preserves the invariant.
LEMMA ForeignCompletionStep == Inductive /\ ForeignCompletion => Inductive'
<1> SUFFICES ASSUME Inductive, ForeignCompletion PROVE Inductive' OBVIOUS
<1> USE DEF ForeignCompletion, readVars, usbVars, resultVars, imageVars, envVars,
   histVars, doneVars
<1>1. FlagsOK'
  BY Zenon DEF Inductive, TypeOK, FlagsOK
<1>2. QED
  BY <1>1, SessionAssumption DEF Inductive, TypeOK, FlagsOK, ValuesOK,
     BlockingConsistent, SuspendOwed, ClaimedForIO,
       ReferenceBeforeCapture, MatchDelivered, CleanCompletionSleeps,
       LiftBeforeNextAttempt, EnrollComplete, ActionShape, DecisionShape,
       ScanShape, StaleShape

\* Restart preserves the invariant.
LEMMA RestartStep == Inductive /\ Restart => Inductive'
<1> SUFFICES ASSUME Inductive, Restart PROVE Inductive' OBVIOUS
<1> USE DEF Restart
<1>1. FlagsOK'
  BY Zenon DEF Inductive, TypeOK, FlagsOK
<1>2. QED
  BY <1>1, SessionAssumption DEF Inductive, TypeOK, FlagsOK, ValuesOK,
     BlockingConsistent, SuspendOwed, ClaimedForIO,
       ReferenceBeforeCapture, MatchDelivered, CleanCompletionSleeps,
       LiftBeforeNextAttempt, EnrollComplete, ActionShape, DecisionShape,
       ScanShape, StaleShape

----
\* Actions that may complete, and the theorem.

\* ReinitOk preserves the invariant.
LEMMA ReinitOkStep == Inductive /\ ReinitOk => Inductive'
<1> SUFFICES ASSUME Inductive, ReinitOk PROVE Inductive' OBVIOUS
<1> USE DEF ReinitOk, CancelSeen, Finished, RefStart, IsTls, SysAfterDone, Running,
            resultVars, imageVars
<1>1. FlagsOK'
  BY Zenon DEF Inductive, TypeOK, FlagsOK
<1>2. QED
  BY <1>1, SessionAssumption DEF Inductive, TypeOK, FlagsOK, ValuesOK,
     BlockingConsistent, SuspendOwed, ClaimedForIO,
       ReferenceBeforeCapture, MatchDelivered, CleanCompletionSleeps,
       LiftBeforeNextAttempt, EnrollComplete, ActionShape, DecisionShape,
       ScanShape, StaleShape

\* ReinitFails preserves the invariant.
LEMMA ReinitFailsStep == Inductive /\ ReinitFails => Inductive'
<1> SUFFICES ASSUME Inductive, ReinitFails PROVE Inductive' OBVIOUS
<1>1. PICK err \in {"USB", "PROTO"} : Complete(err, sys)
  BY DEF ReinitFails
<1>2. st = "REINIT" /\ action # "NONE" /\ needs_reinit /\ orphan = FALSE
  BY DEF ReinitFails, Running, Inductive, ActionShape, TypeOK, FlagsOK
<1>3. suspend_pending' = FALSE /\ orphan' = FALSE
  BY <1>2 DEF ReinitFails, Inductive, SuspendOwed, TypeOK, FlagsOK
<1>4. SysAfterDone(sys) \in {"AWAKE", "READY", "READY_IDLE", "ASLEEP", "WOKEN"}
  BY <1>2 DEF SysAfterDone, Inductive, SuspendOwed, TypeOK, ValuesOK
<1>5. link' \in {"GOOD", "STALE"} /\ sensor' \in {"AWAKE", "ARMED", "ASLEEP"}
      /\ claimed' \in BOOLEAN /\ decision' = decision /\ lifted' = lifted
      /\ cancelled' = cancelled /\ variant' = variant
  BY DEF ReinitFails, Inductive, TypeOK, ValuesOK
<1>6. QED
  BY <1>1, <1>2, <1>3, <1>4, <1>5, CompletedKeeps, Zenon

\* CmdFails preserves the invariant.
LEMMA CmdFailsStep == Inductive /\ CmdFails => Inductive'
<1> SUFFICES ASSUME Inductive, CmdFails PROVE Inductive' OBVIOUS
<1>1. PICK err \in {"USB", "PROTO"} : Complete(err, sys)
  BY DEF CmdFails
<1>2. action # "NONE" /\ st # "DESYNCED" /\ claimed /\ orphan = FALSE
  BY DEF CmdFails, Running, Inductive, ActionShape, ClaimedForIO, TypeOK, FlagsOK
<1>3. suspend_pending' = FALSE /\ orphan' = FALSE /\ claimed' \in BOOLEAN /\ claimed'
  BY <1>2 DEF CmdFails, Inductive, SuspendOwed, TypeOK, FlagsOK
<1>4. SysAfterDone(sys) \in {"AWAKE", "READY", "READY_IDLE", "ASLEEP", "WOKEN"}
  BY DEF CmdFails, SysAfterDone, Inductive, SuspendOwed, TypeOK, ValuesOK
<1>5. link' \in {"GOOD", "STALE"} /\ sensor' \in {"AWAKE", "ARMED", "ASLEEP"}
      /\ decision' = decision /\ lifted' = lifted /\ cancelled' = cancelled
      /\ variant' = variant
  BY DEF CmdFails, SensorAfter, Inductive, TypeOK, ValuesOK
<1>6. QED
  BY <1>1, <1>2, <1>3, <1>4, <1>5, CompletedKeeps, Zenon

\* SettleTimer preserves the invariant.
LEMMA SettleTimerStep == Inductive /\ SettleTimer => Inductive'
<1> SUFFICES ASSUME Inductive, SettleTimer PROVE Inductive' OBVIOUS
<1>1. action = "ENROLL" /\ st = "SETTLE" /\ claimed /\ orphan = FALSE
  BY DEF SettleTimer, Inductive, ActionShape, ClaimedForIO, TypeOK, FlagsOK
<1>2. suspend_pending' = FALSE /\ orphan' = FALSE /\ claimed' \in BOOLEAN /\ claimed'
  BY <1>1 DEF SettleTimer, Inductive, SuspendOwed, TypeOK, FlagsOK
<1>3. SysAfterDone(sys) \in {"AWAKE", "READY", "READY_IDLE", "ASLEEP", "WOKEN"}
  BY <1>1 DEF SysAfterDone, Inductive, SuspendOwed, TypeOK, ValuesOK
<1>4. link' \in {"GOOD", "STALE"} /\ sensor' \in {"AWAKE", "ARMED", "ASLEEP"}
      /\ decision' = decision /\ lifted' = lifted /\ cancelled' = cancelled
      /\ variant' = variant
  BY DEF SettleTimer, Inductive, TypeOK, ValuesOK
<1>5. CASE cancelled
  <2>1. Complete("CANCELLED", sys) BY <1>5 DEF SettleTimer
  <2>2. QED BY <2>1, <1>1, <1>2, <1>3, <1>4, CompletedKeeps, Zenon
<1>6. CASE ~cancelled
  <2> USE <1>6 DEF SettleTimer, SettleTarget, Goto, RefStart, IsTls, resultVars,
               imageVars, doneVars
  <2>1. FlagsOK'
    BY Zenon DEF Inductive, TypeOK, FlagsOK
  <2>2. QED
    BY <2>1, <1>1, SessionAssumption DEF Inductive, TypeOK, FlagsOK, ValuesOK,
       BlockingConsistent, SuspendOwed, ClaimedForIO,
       ReferenceBeforeCapture, MatchDelivered, CleanCompletionSleeps,
       LiftBeforeNextAttempt, EnrollComplete, ActionShape, DecisionShape,
       ScanShape, StaleShape
<1>7. QED BY <1>5, <1>6

\* What holds at every end of a cancellable read.
LEMMA ReadFacts ==
  ASSUME Inductive, st \in WaitStates, ReadRest, Running,
         UNCHANGED <<sensor, lifted>>
  PROVE  /\ action # "NONE" /\ st # "DESYNCED" /\ st \notin DeactStates
         /\ orphan = FALSE /\ orphan' = FALSE
         /\ claimed' \in BOOLEAN /\ claimed' /\ cancelled' = cancelled /\ variant' = variant
         /\ decision' = decision /\ lifted' = lifted
         /\ link' \in {"GOOD", "STALE"} /\ sensor' \in {"AWAKE", "ARMED", "ASLEEP"}
         /\ SysAfterDone("CANCELLING") = "READY"
         /\ ~suspend_pending =>
              SysAfterDone(sys) \in {"AWAKE", "READY", "READY_IDLE", "ASLEEP", "WOKEN"}
<1>1. orphan = FALSE /\ claimed = TRUE
  BY DEF Running, Inductive, ClaimedForIO, TypeOK, FlagsOK
<1>2. QED
  BY <1>1 DEF ReadRest, Inductive, ActionShape, SuspendOwed, SysAfterDone, TypeOK, ValuesOK

\* A read that ends with a suspend pending answers it.
LEMMA SuspendedEndStep ==
  ASSUME Inductive, st \in WaitStates, ReadRest, Running,
         UNCHANGED <<sensor, lifted>>, SuspendedEnd
  PROVE  Inductive'
<1>1. suspend_pending' = FALSE /\ Complete("BUSY", "CANCELLING")
  BY DEF SuspendedEnd
<1>2. QED BY <1>1, ReadFacts, CompletedKeeps, Zenon

\* The read ends without a suspend pending, and so does the action.
LEMMA ReadEndStep ==
  ASSUME Inductive, st \in WaitStates, ReadRest, Running,
         UNCHANGED <<sensor, lifted>>, ~suspend_pending, suspend_pending' = FALSE,
         NEW err \in {"PROTO", "CANCELLED", "USB"}, Complete(err, sys)
  PROVE  Inductive'
BY ReadFacts, CompletedKeeps, Zenon

\* EventArrives preserves the invariant.
LEMMA EventArrivesStep == Inductive /\ EventArrives => Inductive'
<1> SUFFICES ASSUME Inductive, EventArrives PROVE Inductive' OBVIOUS
<1>1. CASE suspend_pending
  BY <1>1, SuspendedEndStep DEF EventArrives, Succeeds
<1>2. CASE ~suspend_pending
  <2> USE <1>2 DEF EventArrives, ReadRest, Succeeds, Running, resultVars, imageVars,
                  doneVars
  <2>1. FlagsOK'
    BY Zenon DEF Inductive, TypeOK, FlagsOK
  <2>2. QED
    BY <2>1, SessionAssumption DEF Inductive, TypeOK, FlagsOK, ValuesOK,
       BlockingConsistent, SuspendOwed, ClaimedForIO,
       ReferenceBeforeCapture, MatchDelivered, CleanCompletionSleeps,
       LiftBeforeNextAttempt, EnrollComplete, ActionShape, DecisionShape,
       ScanShape, StaleShape
<1>3. QED BY <1>1, <1>2

\* BadEvent preserves the invariant.
LEMMA BadEventStep == Inductive /\ BadEvent => Inductive'
<1> SUFFICES ASSUME Inductive, BadEvent PROVE Inductive' OBVIOUS
<1>1. CASE suspend_pending
  BY <1>1, SuspendedEndStep DEF BadEvent, Succeeds
<1>2. CASE ~suspend_pending
  <2>1. suspend_pending' = FALSE
    BY <1>2 DEF BadEvent, Inductive, TypeOK, FlagsOK
  <2>2. QED BY <1>2, <2>1, ReadEndStep DEF BadEvent, Succeeds
<1>3. QED BY <1>1, <1>2

\* The shutdown jump is not taken: a result reported before a wait ends is one
\* the wait is for.
LEMMA ReadCancelledStep == Inductive /\ ReadCancelled => Inductive'
<1> SUFFICES ASSUME Inductive, ReadCancelled PROVE Inductive' OBVIOUS
<1>1. ~JumpsToShutdown
  BY DEF ReadCancelled, JumpsToShutdown, Inductive, DecisionShape, ActionShape, TypeOK,
     FlagsOK, ValuesOK
<1>2. CASE suspend_pending
  BY <1>1, <1>2, SuspendedEndStep DEF ReadCancelled
<1>3. CASE ~suspend_pending
  <2>1. suspend_pending' = FALSE
    BY <1>1, <1>3 DEF ReadCancelled, Inductive, TypeOK, FlagsOK
  <2>2. QED BY <1>1, <1>3, <2>1, ReadEndStep DEF ReadCancelled
<1>4. QED BY <1>2, <1>3

\* ReadFails preserves the invariant.
LEMMA ReadFailsStep == Inductive /\ ReadFails => Inductive'
<1> SUFFICES ASSUME Inductive, ReadFails PROVE Inductive' OBVIOUS
<1>1. suspend_pending' = FALSE /\ st \in WaitStates /\ ReadRest /\ Running
      /\ UNCHANGED <<sensor, lifted>>
  BY DEF ReadFails
<1>2. CASE suspend_pending
  <2>1. Complete("USB", "CANCELLING") BY <1>2 DEF ReadFails
  <2>2. QED BY <1>1, <2>1, ReadFacts, CompletedKeeps, Zenon
<1>3. CASE ~suspend_pending
  BY <1>1, <1>3, ReadEndStep DEF ReadFails
<1>4. QED BY <1>2, <1>3

\* The capture: its reference frame is there, and what follows the decoded
\* image is the match or the stored sample.
LEMMA CaptureStep == Inductive /\ Capture => Inductive'
<1> SUFFICES ASSUME Inductive, Capture PROVE Inductive' OBVIOUS
<1> DEFINE Rest == UNCHANGED <<variant, cancelled, suspend_pending, orphan, link, sensor, lifted>>
<1>1. /\ st \in CapStates /\ action # "NONE" /\ claimed = TRUE /\ orphan = FALSE
      /\ Rest /\ blocking = "NULL" /\ suspend_pending = FALSE
      /\ st = "CAP_GET_IMAGE" => reference
  BY DEF Capture, Succeeds, Running, Inductive, ActionShape, BlockingConsistent,
     SuspendOwed, ClaimedForIO, ReferenceBeforeCapture, TypeOK, FlagsOK
<1>2. CASE st = "CAP_REG_ON"
  <2>1. Goto("CAP_GET_IMAGE")
        /\ UNCHANGED <<action, usbVars, resultVars, imageVars, sys, doneVars, decision>>
    BY <1>2 DEF Capture
  <2> USE <1>1, <1>2, <2>1 DEF Goto, usbVars, resultVars, imageVars, doneVars
  <2>2. FlagsOK'
    BY Zenon DEF Inductive, TypeOK, FlagsOK
  <2>3. QED
    BY <2>2, SessionAssumption DEF Inductive, TypeOK, FlagsOK, ValuesOK, BlockingConsistent,
       SuspendOwed, ClaimedForIO, ReferenceBeforeCapture, MatchDelivered,
       CleanCompletionSleeps, LiftBeforeNextAttempt, EnrollComplete, ActionShape,
       DecisionShape, ScanShape, StaleShape
<1>3. CASE st = "CAP_GET_IMAGE" /\ IsTls
  <2>1. Goto("CAP_REG_OFF") /\ reference' = FALSE /\ captured' = TRUE
        /\ UNCHANGED <<action, usbVars, resultVars, stage, sys, doneVars, decision>>
    BY <1>1, <1>3 DEF Capture
  <2> USE <1>1, <1>3, <2>1 DEF Goto, usbVars, resultVars, doneVars
  <2>2. FlagsOK'
    BY Zenon DEF Inductive, TypeOK, FlagsOK
  <2>3. QED
    BY <2>2, SessionAssumption DEF Inductive, TypeOK, FlagsOK, ValuesOK, BlockingConsistent,
       SuspendOwed, ClaimedForIO, ReferenceBeforeCapture, MatchDelivered,
       CleanCompletionSleeps, LiftBeforeNextAttempt, EnrollComplete, ActionShape,
       DecisionShape, ScanShape, StaleShape
<1>4. CASE st = "CAP_REG_OFF" \/ (st = "CAP_GET_IMAGE" /\ ~IsTls)
  <2>1. Evaluate /\ reference' = FALSE
    BY <1>1, <1>4 DEF Capture
  <2>2. CASE action = "AUTH"
    <3>1. PICK d \in Results \cup {"DATA_INVALID"} : Match(d)
      BY <2>1, <2>2 DEF Evaluate
    <3>2. delivered = "NONE" /\ pending = "NONE"
      BY <1>4, <2>2 DEF Inductive, DecisionShape
    <3>3. CASE d \in {"MATCH", "DATA_INVALID"}
      <4>1. /\ wait_up' = FALSE /\ st' = "DE_SLEEP" /\ pending' = d
            /\ delivered' = delivered /\ reported' = reported
        <5>1. ~WaitsForLift(d) /\ d # "NO_MATCH" BY <3>3 DEF WaitsForLift
        <5>2. WaitsForLift(d) = FALSE BY <3>3 DEF WaitsForLift
        <5>3. wait_up' = FALSE BY <3>1, <5>2, Zenon DEF Match
        <5>4. QED BY <3>1, <5>1, <5>3 DEF Match, Goto
      <4> USE <1>1, <1>4, <2>1, <2>2, <3>1, <3>3, <4>1 DEF Match, Goto, usbVars
      <4>2. FlagsOK'
        BY Zenon DEF Inductive, TypeOK, FlagsOK
      <4>3. QED
        BY <4>2, SessionAssumption DEF Inductive, TypeOK, FlagsOK, ValuesOK,
           BlockingConsistent,
       SuspendOwed, ClaimedForIO, ReferenceBeforeCapture, MatchDelivered,
       CleanCompletionSleeps, LiftBeforeNextAttempt, EnrollComplete, ActionShape,
       DecisionShape, ScanShape, StaleShape
    <3>4. CASE d = "RETRY"
      <4>1. /\ wait_up' = TRUE /\ st' = "FU_FDT_UP_SETUP" /\ pending' = d
            /\ delivered' = delivered /\ reported' = reported
        BY <3>1, <3>4 DEF Match, WaitsForLift, Deliver, Goto, Inductive, DecisionShape
      <4> USE <1>1, <1>4, <2>1, <2>2, <3>1, <3>4, <4>1 DEF Match, Goto, usbVars
      <4>2. FlagsOK'
        BY Zenon DEF Inductive, TypeOK, FlagsOK
      <4>3. QED
        BY <4>2, SessionAssumption DEF Inductive, TypeOK, FlagsOK, ValuesOK,
           BlockingConsistent,
       SuspendOwed, ClaimedForIO, ReferenceBeforeCapture, MatchDelivered,
       CleanCompletionSleeps, LiftBeforeNextAttempt, EnrollComplete, ActionShape,
       DecisionShape, ScanShape, StaleShape
    <3>5. CASE d = "NO_MATCH"
      <4>1. /\ wait_up' = TRUE /\ st' = "FU_FDT_UP_SETUP" /\ pending' = "NONE"
            /\ delivered' = d /\ reported' = TRUE
        BY <3>1, <3>2, <3>5 DEF Match, WaitsForLift, Deliver, Goto, Inductive, DecisionShape
      <4> USE <1>1, <1>4, <2>1, <2>2, <3>1, <3>5, <4>1 DEF Match, Goto, usbVars
      <4>2. FlagsOK'
        BY Zenon DEF Inductive, TypeOK, FlagsOK
      <4>3. QED
        BY <4>2, SessionAssumption DEF Inductive, TypeOK, FlagsOK, ValuesOK,
           BlockingConsistent,
       SuspendOwed, ClaimedForIO, ReferenceBeforeCapture, MatchDelivered,
       CleanCompletionSleeps, LiftBeforeNextAttempt, EnrollComplete, ActionShape,
       DecisionShape, ScanShape, StaleShape
    <3>6. QED BY <3>3, <3>4, <3>5
  <2>3. CASE /\ action = "ENROLL" /\ Complete("GENERAL", sys)
             /\ UNCHANGED <<claimed, decision>>
    <3>1. SysAfterDone(sys) \in {"AWAKE", "READY", "READY_IDLE", "ASLEEP", "WOKEN"}
      BY <1>1 DEF SysAfterDone, Inductive, SuspendOwed, TypeOK, ValuesOK
    <3>2. /\ link' \in {"GOOD", "STALE"} /\ sensor' \in {"AWAKE", "ARMED", "ASLEEP"}
          /\ claimed' /\ claimed' \in BOOLEAN /\ suspend_pending' = FALSE /\ orphan' = FALSE
          /\ decision' = decision /\ lifted' = lifted /\ cancelled' = cancelled
          /\ variant' = variant
      BY <1>1, <2>3 DEF Inductive, TypeOK, ValuesOK
    <3>3. QED BY <1>1, <2>3, <3>1, <3>2, CompletedKeeps, Zenon
  <2>4. CASE action = "ENROLL"
             /\ \E stored \in {0, 1} :
                  /\ stage' = stage + stored
                  /\ captured' = FALSE
                  /\ Goto("FU_FDT_UP_SETUP")
                  /\ UNCHANGED <<action, usbVars, resultVars, sys, doneVars, decision>>
    <3>1. stage' \in 0 .. EnrollSamples
      BY <1>1, <2>4, SessionAssumption DEF Inductive, TypeOK, ValuesOK, ScanShape
    <3> USE <1>1, <2>1, <2>4, <3>1 DEF Goto, usbVars, resultVars, doneVars
    <3>2. FlagsOK'
      BY Zenon DEF Inductive, TypeOK, FlagsOK
    <3>3. QED
      BY <3>2 DEF Inductive, TypeOK, FlagsOK, ValuesOK, BlockingConsistent,
       SuspendOwed, ClaimedForIO, ReferenceBeforeCapture, MatchDelivered,
       CleanCompletionSleeps, LiftBeforeNextAttempt, EnrollComplete, ActionShape,
       DecisionShape, ScanShape, StaleShape
  <2>5. QED
    BY <1>1, <2>1, <2>2, <2>3, <2>4 DEF Evaluate, Process, Inductive, TypeOK, ValuesOK
<1>5. QED BY <1>1, <1>2, <1>3, <1>4

\* The tail of a scan: on to the next command, to the settle delay, or done.
LEMMA FinishScanStep == Inductive /\ FinishScan => Inductive'
<1> SUFFICES ASSUME Inductive, FinishScan PROVE Inductive' OBVIOUS
<1>1. /\ st \in UpStates \cup DeactStates /\ action # "NONE" /\ claimed = TRUE
      /\ orphan = FALSE /\ suspend_pending = FALSE /\ blocking = "NULL"
      /\ sensor' = SensorAfter(st)
      /\ UNCHANGED <<variant, cancelled, suspend_pending, orphan, claimed, link,
                     decision, lifted>>
  BY DEF FinishScan, Succeeds, Running, Inductive, ActionShape, BlockingConsistent,
     SuspendOwed, ClaimedForIO, TypeOK, FlagsOK
<1>2. /\ st \in {"FU_FDT_UP_SETUP"} => sensor' = "ARMED"
      /\ st \in {"FU_SLEEP", "DE_SLEEP"} => sensor' = "ASLEEP"
      /\ st \in {"FU_EC_OFF", "DE_EC_OFF"} => sensor' = sensor
  BY <1>1, Zenon DEF SensorAfter
<1>3. CASE UpNext(st) # "DONE"
  <2>1. \/ st = "FU_FDT_UP_SETUP" /\ UpNext(st) = "FU_RECV_EVENT"
        \/ st = "FU_SLEEP" /\ UpNext(st) = "FU_EC_OFF"
        \/ st = "DE_SLEEP" /\ UpNext(st) = "DE_EC_OFF"
    BY <1>1, <1>3, Zenon DEF UpNext
  <2>2. Goto(UpNext(st))
        /\ UNCHANGED <<action, needs_reinit, resultVars, imageVars, sys, doneVars>>
    BY <1>3 DEF FinishScan
  <2> USE <1>1, <1>2, <2>1, <2>2 DEF Goto, resultVars, imageVars, doneVars
  <2>3. FlagsOK'
    BY Zenon DEF Inductive, TypeOK, FlagsOK
  <2>4. QED
    BY <2>3 DEF Inductive, TypeOK, FlagsOK, ValuesOK, BlockingConsistent,
       SuspendOwed, ClaimedForIO, ReferenceBeforeCapture, MatchDelivered,
       CleanCompletionSleeps, LiftBeforeNextAttempt, EnrollComplete, ActionShape,
       DecisionShape, ScanShape, StaleShape
<1>4. CASE UpNext(st) = "DONE"
  <2>1. AfterScan /\ st # "FU_FDT_UP_SETUP"
    BY <1>4, Zenon DEF FinishScan, UpNext
  <2>2. sensor' = "ASLEEP" /\ (st \in UpStates => lifted)
    BY <1>1, <1>2, <2>1 DEF Inductive, ScanShape
  <2>3. CASE Settles /\ ~cancelled
    <3>1. st' = "SETTLE" /\ UNCHANGED <<action, blocking, needs_reinit, resultVars,
                                        imageVars, sys, doneVars>>
      BY <2>1, <2>3 DEF AfterScan
    <3> USE <1>1, <2>2, <2>3, <3>1 DEF Settles, resultVars, imageVars, doneVars
    <3>2. FlagsOK'
      BY Zenon DEF Inductive, TypeOK, FlagsOK
    <3>3. QED
      BY <3>2 DEF Inductive, TypeOK, FlagsOK, ValuesOK, BlockingConsistent,
       SuspendOwed, ClaimedForIO, ReferenceBeforeCapture, MatchDelivered,
       CleanCompletionSleeps, LiftBeforeNextAttempt, EnrollComplete, ActionShape,
       DecisionShape, ScanShape, StaleShape
  <2>4. CASE ~(Settles /\ ~cancelled)
    <3> DEFINE err == IF Settles THEN "CANCELLED" ELSE "NONE"
    <3>1. Complete(err, sys) BY <2>1, <2>4 DEF AfterScan
    <3>2. /\ err \in Errors \cup {"NONE"}
          /\ err = "CANCELLED" => st \notin DeactStates
          /\ err = "NONE" /\ action = "ENROLL" => stage = EnrollSamples
      BY SessionAssumption DEF Settles, Inductive, ActionShape, TypeOK, ValuesOK
    <3>3. decision \in {"NO_MATCH", "RETRY"} => lifted
      BY <1>1, <2>2 DEF Inductive, DecisionShape, TypeOK, ValuesOK
    <3>4. SysAfterDone(sys) \in {"AWAKE", "READY", "READY_IDLE", "ASLEEP", "WOKEN"}
      BY <1>1 DEF SysAfterDone, Inductive, SuspendOwed, TypeOK, ValuesOK
    <3>5. /\ link' \in {"GOOD", "STALE"} /\ claimed' /\ claimed' \in BOOLEAN
          /\ suspend_pending' = FALSE /\ orphan' = FALSE
      BY <1>1 DEF Inductive, TypeOK, ValuesOK
    <3> HIDE DEF err
    <3>6. QED
      BY <1>1, <2>2, <3>1, <3>2, <3>3, <3>4, <3>5, CompletedKeeps
  <2>5. QED BY <2>3, <2>4
<1>5. QED BY <1>3, <1>4

----
\* Every step preserves the invariant.
LEMMA NextInductive == Inductive /\ [Next]_vars => Inductive'
<1>1. ASSUME Inductive, UNCHANGED vars PROVE Inductive'
  <2> USE <1>1 DEF vars, ssmVars, readVars, usbVars, resultVars, imageVars, envVars,
                   histVars, doneVars
  <2>1. FlagsOK'
    BY Zenon DEF Inductive, TypeOK, FlagsOK
  <2>2. QED
    BY <2>1 DEF Inductive, TypeOK, FlagsOK, ValuesOK, BlockingConsistent,
       SuspendOwed, ClaimedForIO, ReferenceBeforeCapture, MatchDelivered,
       CleanCompletionSleeps, LiftBeforeNextAttempt, EnrollComplete, ActionShape,
       DecisionShape, ScanShape, StaleShape
<1>2. QED
  BY <1>1, OpenStep, CloseStep, StartAuthStep, StartEnrollStep, ReinitOkStep,
     ReinitFailsStep, RefCaptureStep, ArmDownStep, FingerCheckStep, CaptureStep,
     FinishScanStep, CmdFailsStep, SettleTimerStep, EventArrivesStep, BadEventStep,
     ReadCancelledStep, ReadFailsStep, CancelStep, SuspendStep, IdleSuspendStep,
     SleepStep, WakeStep, ResumeStep, ForeignCompletionStep, RestartStep, Zenon
     DEF Next, Commands, ReadEnds, Environment

\* Every reachable state of a session satisfies the inductive invariant.
THEOREM SessionInvariant == Spec => []Inductive
BY InitInductive, NextInductive, PTL DEF Spec

\* Type correctness.
THEOREM SessionTypeOK == Spec => []TypeOK
<1>1. Inductive => TypeOK BY DEF Inductive
<1>2. QED BY <1>1, SessionInvariant, PTL

\* blocking_ssm is the SSM of the outstanding cancellable read, and only that.
THEOREM BlockingIsConsistent == Spec => []BlockingConsistent
<1>1. Inductive => BlockingConsistent BY DEF Inductive
<1>2. QED BY <1>1, SessionInvariant, PTL

\* The suspend callback is owed exactly while a cancelled read is outstanding.
THEOREM SuspendIsOwed == Spec => []SuspendOwed
<1>1. Inductive => SuspendOwed BY DEF Inductive
<1>2. QED BY <1>1, SessionInvariant, PTL

\* No transfer is submitted without the claimed interface.
THEOREM TransfersAreClaimed == Spec => []ClaimedForIO
<1>1. Inductive => ClaimedForIO BY DEF Inductive
<1>2. QED BY <1>1, SessionInvariant, PTL

\* A live capture always has its reference frame.
THEOREM CaptureIsPrepared == Spec => []ReferenceBeforeCapture
<1>1. Inductive => ReferenceBeforeCapture BY DEF Inductive
<1>2. QED BY <1>1, SessionInvariant, PTL

\* A match reaches libfprint whatever fails after it.
THEOREM MatchIsDelivered == Spec => []MatchDelivered
<1>1. Inductive => MatchDelivered BY DEF Inductive
<1>2. QED BY <1>1, SessionInvariant, PTL

\* A stale link costs one action, and the next one reinitializes.
THEOREM HealsAfterOne == Spec => []HealsAfterOneFailure
<1>1. Inductive => HealsAfterOneFailure
  BY DEF Inductive, StaleShape, HealsAfterOneFailure
<1>2. QED BY <1>1, SessionInvariant, PTL

\* An action that ends without a failure leaves the sensor asleep.
THEOREM CleanCompletion == Spec => []CleanCompletionSleeps
<1>1. Inductive => CleanCompletionSleeps BY DEF Inductive
<1>2. QED BY <1>1, SessionInvariant, PTL

\* An attempt that did not match completes only after the finger was lifted.
THEOREM FingerIsLifted == Spec => []LiftBeforeNextAttempt
<1>1. Inductive => LiftBeforeNextAttempt BY DEF Inductive
<1>2. QED BY <1>1, SessionInvariant, PTL

\* An enrollment that succeeds has stored every sample.
THEOREM EnrollmentIsComplete == Spec => []EnrollComplete
<1>1. Inductive => EnrollComplete BY DEF Inductive
<1>2. QED BY <1>1, SessionInvariant, PTL

----
\* The pace of an action.

\* A step of one command leads closer to the next wait, to it, or to the end.
LEMMA ScanPace ==
  ASSUME Inductive, RefCapture \/ ArmDown \/ FingerCheck,
         st' \in DOMAIN PaceRank
  PROVE  PaceRank[st'] < PaceRank[st]
<1>1. CASE RefCapture
  <2>1. st \in RefStates /\ st' = RefNext(st) BY <1>1 DEF RefCapture, Goto
  <2> QED BY <2>1 DEF RefNext, WaitStart, PaceRank
<1>2. CASE ArmDown
  <2>1. st \in ArmStates /\ st' = ArmNext(st) BY <1>2 DEF ArmDown, Goto
  <2> QED BY <2>1 DEF ArmNext, PaceRank
<1>3. CASE FingerCheck
  <2>1. st = "FW_FDT_CHECK" /\ st' \in {CaptureStart, "FW_FDT_DOWN_SETUP"}
    BY <1>3 DEF FingerCheck, Goto
  <2> QED BY <2>1 DEF CaptureStart, PaceRank
<1> QED BY <1>1, <1>2, <1>3

\* The end of an action.
LEMMA CompletePace ==
  ASSUME NEW err, NEW s, Complete(err, s)
  PROVE  st' = "IDLE"
BY DEF Complete, AuthDone, EnrollDone, Finished

\* A capture is matched or stored, and the finger's lift or the shutdown follows.
LEMMA CapturePace ==
  ASSUME Inductive, Capture, st' \in DOMAIN PaceRank
  PROVE  PaceRank[st'] < PaceRank[st]
<1>1. st' # "IDLE" BY DEF PaceRank
<1>2. \A err, s : ~Complete(err, s) BY <1>1, CompletePace
<1>3. ASSUME Evaluate PROVE st' \in {"FU_FDT_UP_SETUP", "DE_SLEEP"}
  <2>1. CASE action = "AUTH" BY <1>3, <2>1 DEF Evaluate, Match, Goto
  <2>2. CASE action # "AUTH" BY <1>2, <1>3, <2>2 DEF Evaluate, Process, Goto
  <2> QED BY <2>1, <2>2
<1>4. st \in CapStates BY DEF Capture
<1>5. CASE st = "CAP_REG_ON"
  <2>1. st' = "CAP_GET_IMAGE" BY <1>5, Zenon DEF Capture, Goto
  <2> QED BY <1>5, <2>1 DEF PaceRank
<1>6. CASE st = "CAP_GET_IMAGE"
  <2>1. st' \in {"CAP_REG_OFF", "FU_FDT_UP_SETUP", "DE_SLEEP"}
    BY <1>2, <1>3, <1>6 DEF Capture, Goto
  <2> QED BY <1>6, <2>1 DEF PaceRank
<1>7. CASE st = "CAP_REG_OFF"
  <2>1. st' \in {"FU_FDT_UP_SETUP", "DE_SLEEP"} BY <1>3, <1>7 DEF Capture
  <2> QED BY <1>7, <2>1 DEF PaceRank
<1> QED BY <1>4, <1>5, <1>6, <1>7

\* After the lift or the shutdown comes the settle delay, or the end.
LEMMA FinishPace ==
  ASSUME Inductive, FinishScan, st' \in DOMAIN PaceRank
  PROVE  PaceRank[st'] < PaceRank[st]
<1>1. st' # "IDLE" BY DEF PaceRank
<1>2. \A err, s : ~Complete(err, s) BY <1>1, CompletePace
<1>3. st \in UpStates \cup DeactStates BY DEF FinishScan
<1>4. CASE UpNext(st) = "DONE"
  <2>1. AfterScan BY <1>4 DEF FinishScan
  <2>2. Settles /\ st' = "SETTLE" BY <1>2, <2>1 DEF AfterScan
  <2>3. st \in {"FU_SLEEP", "FU_EC_OFF"}
    <3>1. action = "ENROLL" BY <2>2 DEF Settles
    <3>2. st \notin DeactStates BY <3>1 DEF Inductive, ActionShape
    <3> QED BY <1>3, <1>4, <3>2 DEF UpNext
  <2> QED BY <2>2, <2>3 DEF PaceRank
<1>5. CASE UpNext(st) # "DONE"
  <2>1. st' = UpNext(st) BY <1>5 DEF FinishScan, Goto
  <2> QED BY <1>3, <1>5, <2>1 DEF UpNext, PaceRank
<1> QED BY <1>4, <1>5

\* The reinitialization and the settle delay lead to the reference capture.
LEMMA PrepPace ==
  ASSUME Inductive, ReinitOk \/ ReinitFails \/ SettleTimer, st' \in DOMAIN PaceRank
  PROVE  PaceRank[st'] < PaceRank[st]
<1>1. st' # "IDLE" BY DEF PaceRank
<1>2. \A err, s : ~Complete(err, s) BY <1>1, CompletePace
<1>3. st \in {"REINIT", "SETTLE"} BY DEF ReinitOk, ReinitFails, SettleTimer
<1>4. st' = RefStart
  BY <1>1, <1>2 DEF ReinitOk, ReinitFails, SettleTimer, SettleTarget, Goto, Finished
<1> QED BY <1>3, <1>4 DEF RefStart, PaceRank

\* Every loop of an action goes through a wait for the finger.
THEOREM ActionsArePaced == Spec => PacedByFinger
<1>1. Inductive /\ [Next]_vars => [ComesCloser]_vars
  <2> SUFFICES ASSUME Inductive, Next, st \in DOMAIN PaceRank,
                      st' \in DOMAIN PaceRank, st' # st
               PROVE  PaceRank[st'] < PaceRank[st]
    BY DEF ComesCloser
  <2>1. /\ st \notin WaitStates \cup {"IDLE", "CLOSED", "DESYNCED"}
        /\ st' \notin WaitStates \cup {"IDLE", "CLOSED", "DESYNCED"}
    BY DEF PaceRank
  <2>2. CASE Open \/ Close \/ StartAuth \/ StartEnroll
    BY <2>1, <2>2 DEF Open, Close, StartAuth, StartEnroll, NewAction
  <2>3. CASE CmdFails
    BY <2>1, <2>3, CompletePace DEF CmdFails
  <2>4. CASE ReadEnds
    BY <2>1, <2>4 DEF ReadEnds, EventArrives, BadEvent, ReadCancelled, ReadFails
  <2>5. CASE Environment
    <3>1. blocking = "NULL" BY <2>1 DEF Inductive, BlockingConsistent
    <3> QED
      BY <2>1, <2>5, <3>1
         DEF Environment, Cancel, Suspend, IdleSuspend, Sleep, Wake, Resume,
             ForeignCompletion, Restart, ssmVars
  <2> QED
    BY <2>2, <2>3, <2>4, <2>5, ScanPace, CapturePace, FinishPace, PrepPace
       DEF Next, Commands
<1> QED BY <1>1, SessionInvariant, PTL DEF Spec, PacedByFinger
=============================================================================
