------------------------- MODULE AuthService_proofs -------------------------
(***************************************************************************)
(* The session implements AuthService: every step of AuthSession maps to a *)
(* step of AuthService or to a stutter.  Most steps leave libfprint's view *)
(* of the action alone; the ways to end an action all go through Complete, *)
(* which CompletedView shows to be a Succeed or a Fail of the service.     *)
(***************************************************************************)
EXTENDS AuthSession_proofs

\* What the service sees.
View == <<action, decision, delivered, outcome>>
Served == [Service!Next]_(Service!vars)

LEMMA Stutters == UNCHANGED View => Served
BY DEF View, Served, Service!vars

\* The errors an SSM may end with: unusable templates are not among them, they
\* wait in `pending`.
SsmErrors == {"USB", "PROTO", "CANCELLED", "BUSY", "GENERAL"}

\* Completion is the service's: without an error what was decided has been
\* delivered, and a match is never among the errors.
LEMMA CompletedView ==
  ASSUME Inductive, NEW err \in SsmErrors \cup {"NONE"}, NEW s, Complete(err, s),
         action # "NONE", st # "DESYNCED", decision' = decision,
         err = "NONE" => st \in UpStates \cup DeactStates,
         err = "CANCELLED" => st \notin DeactStates
  PROVE  Served
<1> USE DEF SsmErrors
<1>1. action \in {"AUTH", "ENROLL"} /\ st \in States
  BY DEF Inductive, TypeOK, ValuesOK
<1>2. CASE action = "ENROLL"
  <2>1. decision = "NONE" BY <1>2 DEF Inductive, DecisionShape
  <2>2. /\ action' = "NONE" /\ delivered' = delivered
        /\ outcome' = IF err = "NONE" THEN "OK" ELSE err
    BY <1>2 DEF Complete, EnrollDone, Finished
  <2>3. CASE err = "NONE"
    <3>1. Service!Succeed BY <1>2, <2>2, <2>3 DEF Service!Succeed
    <3> QED BY <3>1 DEF Served, Service!Next
  <2>4. CASE err # "NONE"
    <3>1. outcome' \in Service!Errors \ {"DATA_INVALID"}
      BY <2>2, <2>4 DEF Service!Errors
    <3>2. Service!Fail BY <1>2, <2>1, <2>2, <3>1 DEF Service!Fail
    <3> QED BY <3>2 DEF Served, Service!Next
  <2> QED BY <2>3, <2>4
<1>3. CASE action = "AUTH"
  <2> DEFINE kept == AfterMatch(err)
             e == IF kept = "NONE" /\ pending = "DATA_INVALID" THEN "DATA_INVALID" ELSE kept
  <2>1. /\ action' = "NONE"
        /\ outcome' = IF e = "NONE" THEN "OK" ELSE e
        /\ delivered' = IF e = "NONE" THEN FlushPending ELSE delivered
    BY <1>3 DEF Complete, AuthDone, Finished
  <2>2. kept = IF st \in FinishStates /\ err # "CANCELLED" THEN "NONE" ELSE err
    BY DEF AfterMatch
  <2>3. \/ /\ st \notin FinishStates
           /\ decision = "NONE" /\ pending = "NONE"
        \/ /\ st \in UpStates \cup {"FU_RECV_EVENT"}
           /\ \/ decision = "NO_MATCH" /\ pending = "NONE" /\ delivered = "NO_MATCH"
              \/ decision = "RETRY" /\ pending = "RETRY" /\ delivered = "NONE"
        \/ /\ st \in DeactStates
           /\ decision \in {"MATCH", "DATA_INVALID"} /\ pending = decision
           /\ delivered = "NONE"
    BY <1>3 DEF Inductive, DecisionShape, FinishStates
  <2>4. CASE e = "NONE"
    <3>1. st \in FinishStates BY <2>2, <2>4 DEF FinishStates
    <3>2. decision \in Service!Results /\ delivered' = decision
      BY <2>1, <2>3, <2>4, <3>1
         DEF FlushPending, Deliver, Results, Service!Results, FinishStates
    <3>3. Service!Succeed BY <1>3, <2>1, <2>4, <3>2 DEF Service!Succeed
    <3> QED BY <3>3 DEF Served, Service!Next
  <2>5. CASE e # "NONE"
    <3>1. decision # "MATCH"
      BY <2>2, <2>3, <2>5 DEF FinishStates, UpStates, DeactStates
    <3>2. outcome' \in IF decision = "DATA_INVALID" THEN {"DATA_INVALID"}
                       ELSE Service!Errors \ {"DATA_INVALID"}
      BY <2>1, <2>2, <2>3, <2>5 DEF FinishStates, Service!Errors
    <3>3. Service!Fail BY <1>3, <2>1, <2>5, <3>1, <3>2 DEF Service!Fail
    <3> QED BY <3>3 DEF Served, Service!Next
  <2> QED BY <2>4, <2>5
<1> QED BY <1>1, <1>2, <1>3

----
\* Steps that libfprint does not see.

LEMMA SilentSteps ==
  ASSUME \/ Close \/ RefCapture \/ ArmDown \/ FingerCheck \/ Cancel \/ Suspend
         \/ IdleSuspend \/ Sleep \/ Wake \/ Resume \/ ForeignCompletion
  PROVE  Served
<1>1. Close \/ Cancel \/ Suspend \/ IdleSuspend \/ Wake \/ Resume \/ ForeignCompletion
        => UNCHANGED View
  BY DEF Close, Cancel, Suspend, IdleSuspend, Wake, Resume, ForeignCompletion, View,
         ssmVars, histVars, doneVars
<1>2. RefCapture \/ ArmDown \/ FingerCheck => UNCHANGED View
  BY DEF RefCapture, ArmDown, FingerCheck, StepRest, View, doneVars
<1>3. Sleep => UNCHANGED View
  BY DEF Sleep, View, ssmVars
<1> QED BY <1>1, <1>2, <1>3, Stutters

----
\* Opening, starting, and the restart of the daemon.

LEMMA BeginSteps ==
  ASSUME Inductive, Open \/ StartAuth \/ StartEnroll \/ Restart
  PROVE  Served
<1>1. CASE Open
  <2>1. action = "NONE" BY <1>1 DEF Open, Inductive, ActionShape
  <2>2. Service!Restart BY <1>1, <2>1 DEF Open, Service!Restart
  <2> QED BY <2>2 DEF Served, Service!Next
<1>2. CASE StartAuth \/ StartEnroll
  <2>1. action = "NONE"
    BY <1>2 DEF StartAuth, StartEnroll, NewAction, Inductive, ActionShape
  <2>2. Service!Start
    BY <1>2, <2>1 DEF StartAuth, StartEnroll, NewAction, Service!Start
  <2> QED BY <2>2 DEF Served, Service!Next
<1>3. CASE Restart
  <2>1. Service!Restart BY <1>3 DEF Restart, Service!Restart
  <2> QED BY <2>1 DEF Served, Service!Next
<1> QED BY <1>1, <1>2, <1>3

----
\* Steps that may end the action.

LEMMA ReinitSteps ==
  ASSUME Inductive, ReinitOk \/ ReinitFails
  PROVE  Served
<1>1. st = "REINIT" /\ action # "NONE" /\ decision' = decision
  BY DEF ReinitOk, ReinitFails, Inductive, ActionShape
<1>2. CASE ReinitFails
  <2>1. PICK err \in {"USB", "PROTO"} : Complete(err, sys) BY <1>2 DEF ReinitFails
  <2> QED BY <1>1, <2>1, CompletedView DEF SsmErrors
<1>3. CASE ReinitOk /\ CancelSeen
  <2>1. /\ action = "ENROLL" /\ action' = "NONE" /\ outcome' = "CANCELLED"
        /\ delivered' = delivered
    BY <1>3 DEF ReinitOk, CancelSeen, Finished
  <2>2. decision = "NONE" BY <2>1 DEF Inductive, DecisionShape
  <2>3. Service!Fail BY <1>1, <2>1, <2>2 DEF Service!Fail, Service!Errors
  <2> QED BY <2>3 DEF Served, Service!Next
<1>4. CASE ReinitOk /\ ~CancelSeen
  BY <1>4, Stutters DEF ReinitOk, View
<1> QED BY <1>2, <1>3, <1>4

LEMMA CommandFails == Inductive /\ CmdFails => Served
<1> SUFFICES ASSUME Inductive, CmdFails PROVE Served OBVIOUS
<1>1. PICK err \in {"USB", "PROTO"} : Complete(err, sys) BY DEF CmdFails
<1>2. action # "NONE" /\ st # "DESYNCED" /\ decision' = decision
  BY DEF CmdFails, CmdStates, RefStates, ArmStates, CapStates, UpStates, DeactStates,
         Inductive, ActionShape
<1> QED BY <1>1, <1>2, CompletedView DEF SsmErrors

LEMMA Settled == Inductive /\ SettleTimer => Served
<1> SUFFICES ASSUME Inductive, SettleTimer PROVE Served OBVIOUS
<1>1. action # "NONE" /\ st = "SETTLE" /\ decision' = decision
  BY DEF SettleTimer, Inductive, ActionShape
<1>2. CASE cancelled
  BY <1>1, <1>2, CompletedView DEF SettleTimer, SsmErrors, DeactStates
<1>3. CASE ~cancelled
  BY <1>3, Stutters DEF SettleTimer, View, doneVars
<1> QED BY <1>2, <1>3

\* The end of the cancellable read.
LEMMA ReadSteps ==
  ASSUME Inductive, EventArrives \/ BadEvent \/ ReadCancelled \/ ReadFails
  PROVE  Served
<1>1. /\ st \in WaitStates /\ action # "NONE" /\ decision' = decision
      /\ st \notin DeactStates /\ st # "DESYNCED"
  BY DEF EventArrives, BadEvent, ReadCancelled, ReadFails, ReadRest, WaitStates,
         DeactStates, Inductive, ActionShape
<1>2. ASSUME NEW err \in SsmErrors, NEW s, Complete(err, s) PROVE Served
  BY <1>1, <1>2, CompletedView DEF SsmErrors
<1>3. SuspendedEnd => Served BY <1>2 DEF SuspendedEnd, SsmErrors
<1>4. UNCHANGED <<action, doneVars>> => Served
  BY <1>1, Stutters DEF View, doneVars
<1>5. CASE EventArrives BY <1>3, <1>4, <1>5 DEF EventArrives
<1>6. CASE BadEvent BY <1>2, <1>3, <1>6 DEF BadEvent, SsmErrors
<1>7. CASE ReadCancelled BY <1>2, <1>3, <1>4, <1>7 DEF ReadCancelled, SsmErrors
<1>8. CASE ReadFails BY <1>2, <1>8 DEF ReadFails, SsmErrors
<1> QED BY <1>5, <1>6, <1>7, <1>8

\* The verdict: a mismatch is delivered with it.
LEMMA MatchView ==
  ASSUME Inductive, st \in CapStates, action = "AUTH",
         NEW d \in Results \cup {"DATA_INVALID"}, Match(d)
  PROVE  Served
<1>1. decision = "NONE" /\ delivered = "NONE"
  BY DEF Inductive, DecisionShape, CapStates, FinishStates, UpStates, DeactStates
<1>2. decision' = d /\ UNCHANGED <<action, outcome>>
      /\ delivered' = IF d = "NO_MATCH" THEN d ELSE "NONE"
  BY <1>1 DEF Match, Deliver
<1>3. Service!Decide BY <1>1, <1>2 DEF Service!Decide, Service!Results, Results
<1> QED BY <1>3 DEF Served, Service!Next

LEMMA Captured == Inductive /\ Capture => Served
<1> SUFFICES ASSUME Inductive, Capture PROVE Served OBVIOUS
<1>1. st \in CapStates /\ action # "NONE" /\ st # "DESYNCED" /\ st \notin DeactStates
  BY DEF Capture, CapStates, DeactStates, Inductive, ActionShape
<1>2. ASSUME NEW err \in {"PROTO", "GENERAL"}, Complete(err, sys), decision' = decision
      PROVE  Served
  BY <1>1, <1>2, CompletedView DEF SsmErrors
<1>3. UNCHANGED <<action, doneVars, decision>> => Served
  BY Stutters DEF View, doneVars
<1>4. Evaluate => Served
  <2>1. CASE action = "AUTH" BY <1>1, <2>1, MatchView DEF Evaluate
  <2>2. CASE action # "AUTH" BY <1>2, <1>3, <2>2 DEF Evaluate, Process
  <2> QED BY <2>1, <2>2
<1> QED BY <1>2, <1>3, <1>4 DEF Capture

LEMMA Finishes == Inductive /\ FinishScan => Served
<1> SUFFICES ASSUME Inductive, FinishScan PROVE Served OBVIOUS
<1>1. /\ st \in UpStates \cup DeactStates /\ action # "NONE" /\ st # "DESYNCED"
      /\ decision' = decision /\ (st \in DeactStates => action = "AUTH")
  BY DEF FinishScan, UpStates, DeactStates, Inductive, ActionShape
<1>2. UNCHANGED <<action, doneVars>> => Served
  BY <1>1, Stutters DEF View, doneVars
<1>3. ASSUME Complete(IF Settles THEN "CANCELLED" ELSE "NONE", sys) PROVE Served
  <2>1. CASE Settles
    <3>1. st \notin DeactStates BY <1>1, <2>1 DEF Settles
    <3> QED BY <1>1, <1>3, <2>1, <3>1, CompletedView DEF SsmErrors
  <2>2. CASE ~Settles BY <1>1, <1>3, <2>2, CompletedView
  <2> QED BY <2>1, <2>2
<1> QED BY <1>2, <1>3 DEF FinishScan, AfterScan

----
LEMMA NextServed == Inductive /\ [Next]_vars => Served
<1>1. UNCHANGED vars => Served
  BY Stutters DEF vars, View, ssmVars, histVars, doneVars
<1> QED
  BY <1>1, SilentSteps, BeginSteps, ReinitSteps, CommandFails, Settled, ReadSteps,
     Captured, Finishes, Zenon DEF Next, Commands, ReadEnds, Environment

\* The session implements the service, for either family and any number of
\* enrollment samples: what an authentication decides is delivered once, before a
\* clean completion, and a match whatever fails after it.
THEOREM ServiceRefinement == Spec => ServiceSpec
<1>1. Init => Service!Init BY DEF Init, Service!Init
<1>2. Inductive /\ [Next]_vars => [Service!Next]_(Service!vars)
  BY NextServed DEF Served
<1> QED BY <1>1, <1>2, SessionInvariant, PTL DEF Spec, ServiceSpec, Service!Spec
=============================================================================
