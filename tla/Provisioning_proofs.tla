------------------------- MODULE Provisioning_proofs -------------------------
(***************************************************************************)
(* The open and self-heal SSMs implement Provisioning: every step of       *)
(* OpenHeal maps to a step of Provisioning or to a stutter.                *)
(***************************************************************************)
EXTENDS OpenHeal_proofs

USE DEF OpenStates, Greeting, TlsStates, PskStates, GtlsStates, SetupStates,
        HealStates, HealCommands, HealWrites, IsTls

\* What the sensor's mode tells of its image and PSK, beside Inductive.
InBootloader == {"HEAL_CONTAINER_WRITE1", "HEAL_CONTAINER_WRITE2", "HEAL_WRITE_FW_SEND",
                 "HEAL_CHECK_FW"}
UnitShape ==
  /\ mode = "APP" => app = "VALID"
  /\ mode = "IAP" => IsTls /\ (app = "ERASED" \/ psk = "ZERO")
  /\ IsTls /\ tls_handshake_done => mode = "APP"
  /\ ~IsTls /\ st \in SetupStates => psk = "ZERO"
  /\ st \in InBootloader => mode = "IAP"

Proven == Inductive /\ UnitShape

\* What a step does to libfprint's view of the request.
Answered == phase = "OPENING" /\ phase' = "CLOSED" /\ outcome' = "ERROR"
Silent == UNCHANGED <<phase, outcome>>

LEMMA InitProven == Init => Proven
<1> SUFFICES ASSUME Init PROVE UnitShape BY InitInductive DEF Proven
<1> QED BY DEF Init, UnitShape, InBootloader

\* A 53x5 always runs its application.
LEMMA ApplicationRuns == Proven => (~IsTls \/ mode = "APP" => app = "VALID")
<1>1. Proven => mode \in {"APP", "IAP"} BY DEF Proven, Inductive, TypeOK, ValuesOK
<1>2. Proven => (mode = "APP" => app = "VALID") /\ (mode = "IAP" => IsTls)
  BY Zenon DEF Proven, UnitShape
<1> QED BY <1>1, <1>2

----
\* A failed SSM leaves no state of the setup or of the bootloader, and answers a
\* pending request.
LEMMA FailView ==
  ASSUME Inductive, NEW reached, runner # "NONE", SsmFails(reached)
  PROVE  st' \in {"NONE", "HEAL_READ_PSK_HASH"} /\ (Answered \/ Silent)
<1>1. runner \in {"OPEN", "HEAL"} => phase = "OPENING" BY DEF Inductive, RunShape
<1> QED BY <1>1 DEF SsmFails, StartHeal, EndOpen, Answered, Silent

\* A step that leaves the sensor alone keeps the shape.
LEMMA SteadyShape ==
  ASSUME Proven, UNCHANGED <<mode, psk, app, variant>>,
         tls_handshake_done' => tls_handshake_done \/ mode = "APP",
         ~IsTls /\ st' \in SetupStates => psk = "ZERO",
         st' \in InBootloader => mode = "IAP"
  PROVE  UnitShape'
<1>1. (mode = "APP" => app = "VALID")' BY DEF Proven, UnitShape
<1>2. (mode = "IAP" => IsTls /\ (app = "ERASED" \/ psk = "ZERO"))'
  BY DEF Proven, UnitShape
<1>3. (IsTls /\ tls_handshake_done => mode = "APP")'
  BY Zenon DEF Proven, UnitShape, IsTls
<1>4. /\ (~IsTls /\ st \in SetupStates => psk = "ZERO")'
      /\ (st \in InBootloader => mode = "IAP")'
  BY DEF InBootloader
<1> QED BY <1>1, <1>2, <1>3, <1>4, Zenon DEF UnitShape

\* A step that leaves the sensor alone and does not speak is a stutter.
LEMMA SteadyStep ==
  ASSUME UNCHANGED <<mode, psk, app, variant>>
  PROVE  /\ Silent => [Unit!Next]_(Unit!vars)
         /\ Answered => [Unit!Next]_(Unit!vars)
  BY DEF Silent, Answered, Unit!Next, Unit!Fail, Unit!Change, Unit!vars

----
\* The steps that leave the sensor alone.

LEMMA RequestSteps ==
  ASSUME Proven, Open \/ Close \/ Reinit \/ Configure
  PROVE  UnitShape' /\ [Unit!Next]_(Unit!vars)
<1> USE DEF sensorVars, hostVars, flagVars, InBootloader
<1>1. CASE Open
  <2>1. /\ UNCHANGED <<mode, psk, app, variant>> /\ st' \in {"PING", "NONE"}
        /\ phase = "CLOSED"
        /\ \/ phase' = "OPENING" /\ outcome' = "NONE"
           \/ phase' = "CLOSED" /\ outcome' = "ERROR"
    BY <1>1 DEF Open, ResetAndClaim
  <2>2. ~tls_handshake_done' BY <1>1, Zenon DEF Open
  <2>3. UnitShape' BY <2>1, <2>2, SteadyShape
  <2>4. Unit!Next BY <2>1 DEF Unit!Next, Unit!Ask
  <2> QED BY <2>3, <2>4
<1>2. CASE Close
  <2>1. /\ UNCHANGED <<mode, psk, app, variant, st, tls_handshake_done, outcome>>
        /\ phase = "OPEN" /\ phase' = "CLOSED"
    BY <1>2 DEF Close
  <2>2. UnitShape' BY <2>1, SteadyShape DEF Proven, UnitShape
  <2>3. Unit!Next BY <2>1 DEF Unit!Next, Unit!Close
  <2> QED BY <2>2, <2>3
<1>3. CASE Reinit
  <2>1. /\ UNCHANGED <<mode, psk, app, variant, tls_handshake_done>> /\ Silent
        /\ st' \in {"PING", "NONE"}
    BY <1>3 DEF Reinit, ResetAndClaim, Silent
  <2> QED BY <2>1, SteadyShape, SteadyStep
<1>4. CASE Configure
  <2>1. UNCHANGED <<mode, psk, app, variant, st, tls_handshake_done>> /\ Silent
    BY <1>4 DEF Configure, Silent
  <2>2. UnitShape' BY <2>1, SteadyShape DEF Proven, UnitShape
  <2> QED BY <2>1, <2>2, SteadyStep
<1> QED BY <1>1, <1>2, <1>3, <1>4

LEMMA OpenSteps ==
  ASSUME Proven, OpenStep \/ OtpRead \/ TlsPump \/ TlsSent \/ TlsRefused \/ PskHashRead
                   \/ PskVerified \/ FdtRead
  PROVE  UnitShape' /\ [Unit!Next]_(Unit!vars)
<1> USE DEF sensorVars, hostVars, flagVars, histVars, InBootloader
<1>1. runner # "NONE"
  BY Zenon DEF Proven, Inductive, RunShape, OpenStep, StepNext, OtpRead, TlsPump, TlsSent,
     TlsRefused, PskHashRead, PskVerified, FdtRead
<1>2. CASE OpenStep
  <2>1. /\ UNCHANGED <<mode, psk, app, variant, tls_handshake_done>> /\ Silent
        /\ st \in DOMAIN StepNext /\ st' = StepNext[st]
    BY <1>2 DEF OpenStep, Silent
  <2>2. st' \notin InBootloader BY <2>1 DEF StepNext
  <2>3. ~IsTls /\ st' \in SetupStates => psk = "ZERO"
    BY <2>1 DEF StepNext, Proven, Inductive, RunShape, UnitShape, GtlsOnVerifiedPsk
  <2> QED BY <2>1, <2>2, <2>3, SteadyShape, SteadyStep
<1>3. CASE OtpRead
  <2>1. UNCHANGED <<mode, psk, app, variant>> BY <1>3 DEF OtpRead, FailRest
  <2>2. tls_handshake_done' => tls_handshake_done
    BY <1>3, Zenon DEF OtpRead, FailRest
  <2>3. st' \in {"TLS_INIT", "READ_PSK_HASH", "NONE", "HEAL_READ_PSK_HASH"}
        /\ (Answered \/ Silent)
    BY <1>1, <1>3, FailView DEF OtpRead, Silent, Proven
  <2> QED BY <2>1, <2>2, <2>3, SteadyShape, SteadyStep
<1>4. CASE TlsPump
  <2>1. /\ UNCHANGED <<mode, psk, app, variant>> /\ Silent /\ mode = "APP"
        /\ st' \in {"TLS_PUMP", "TLS_ESTABLISHED", "TLS_RECV"}
    BY <1>4, Zenon DEF TlsPump, Silent
  <2> QED BY <2>1, SteadyShape, SteadyStep
<1>5. CASE TlsSent
  <2>1. /\ UNCHANGED <<mode, psk, app, variant, tls_handshake_done>> /\ Silent
        /\ st' \in {"TLS_ESTABLISHED", "TLS_RECV"}
    BY <1>5 DEF TlsSent, AfterSend, Silent
  <2> QED BY <2>1, SteadyShape, SteadyStep
<1>6. CASE TlsRefused
  <2>1. UNCHANGED <<mode, psk, app, variant, tls_handshake_done>>
    BY <1>6 DEF TlsRefused, FailRest
  <2>2. st' \in {"NONE", "HEAL_READ_PSK_HASH"} /\ (Answered \/ Silent)
    BY <1>1, <1>6, FailView DEF TlsRefused, Proven
  <2> QED BY <2>1, <2>2, SteadyShape, SteadyStep
<1>7. CASE PskHashRead
  <2>1. /\ UNCHANGED <<mode, psk, app, variant, tls_handshake_done>> /\ Silent
        /\ st' \in {"GTLS_CLIENT_HELLO", "WRITE_PSK"}
    BY <1>7, Zenon DEF PskHashRead, Silent
  <2> QED BY <2>1, SteadyShape, SteadyStep
<1>8. CASE PskVerified
  <2>1. UNCHANGED <<mode, psk, app, variant, tls_handshake_done>>
    BY <1>8 DEF PskVerified, FailRest
  <2>2. st' \in {"GTLS_CLIENT_HELLO", "NONE", "HEAL_READ_PSK_HASH"} /\ (Answered \/ Silent)
    BY <1>1, <1>8, FailView DEF PskVerified, Silent, Proven
  <2> QED BY <2>1, <2>2, SteadyShape, SteadyStep
<1>9. CASE FdtRead
  <2>1. UNCHANGED <<mode, psk, app, variant, tls_handshake_done>> /\ st = "FDT_TX_ON_2"
    BY <1>9 DEF FdtRead
  <2>2. st' \in {"SLEEP", "FDT_TX_ON_2", "NONE", "HEAL_READ_PSK_HASH"}
        /\ (Answered \/ Silent)
    BY <1>1, <1>9, FailView DEF FdtRead, Silent, Proven
  <2>3. ~IsTls => psk = "ZERO" BY <2>1 DEF Proven, UnitShape
  <2> QED BY <2>1, <2>2, <2>3, SteadyShape, SteadyStep
<1> QED BY <1>2, <1>3, <1>4, <1>5, <1>6, <1>7, <1>8, <1>9

\* An open that succeeds has passed the handshake of a unit with an application.
LEMMA OpenedStep ==
  ASSUME Proven, Opened
  PROVE  UnitShape' /\ [Unit!Next]_(Unit!vars)
<1> USE DEF sensorVars, hostVars, flagVars, InBootloader
<1>1. /\ UNCHANGED <<mode, psk, app, variant, tls_handshake_done>>
      /\ st = "SLEEP" /\ st' = "NONE"
  <2>1. st' = "NONE" BY Zenon DEF Opened, EndOpen
  <2> QED BY <2>1 DEF Opened
<1>2. app = "VALID" /\ (~IsTls => psk = "ZERO")
  <2>1. (IsTls => mode = "APP") /\ (~IsTls => psk = "ZERO")
    <3>1. st \in SetupStates BY <1>1
    <3> QED
      BY <3>1, Zenon DEF Proven, Inductive, UnitShape, TlsBeforeSetup, IsTls
  <2> QED BY <2>1, ApplicationRuns
<1>3. UnitShape' BY <1>1, SteadyShape
<1>4. CASE runner = "OPEN"
  <2>1. phase = "OPENING" /\ phase' = "OPEN" /\ outcome' = "OK"
    BY <1>4 DEF Opened, EndOpen, Proven, Inductive, RunShape
  <2>2. Unit!Succeed
    BY <1>1, <1>2, <2>1 DEF Unit!Succeed, Proven, Inductive, TypeOK, ValuesOK
  <2> QED BY <1>1, <1>3, <2>2 DEF Unit!Next
<1>5. CASE runner # "OPEN"
  <2>1. Silent BY <1>5 DEF Opened, Silent
  <2> QED BY <1>1, <1>3, <2>1, SteadyStep
<1> QED BY <1>4, <1>5

----
\* The steps that may write the PSK of a 53x5.

LEMMA PskSteps ==
  ASSUME Proven, OpenStepFails \/ PskWritten
  PROVE  UnitShape' /\ [Unit!Next]_(Unit!vars)
<1> USE DEF sensorVars, hostVars, flagVars, histVars, InBootloader
<1>1. /\ UNCHANGED <<mode, app, variant, tls_handshake_done>>
      /\ psk' \in {psk, "ZERO"} /\ (psk' # psk => ~IsTls /\ phase # "CLOSED")
      /\ runner # "NONE"
  BY DEF OpenStepFails, PskWritten, FailRest, Proven, Inductive, RunShape, TypeOK, ValuesOK
<1>2. st' \in {"VERIFY_PSK_WRITE", "NONE", "HEAL_READ_PSK_HASH"} /\ (Answered \/ Silent)
  <2>1. CASE OpenStepFails BY <1>1, <2>1, FailView DEF OpenStepFails, Proven
  <2>2. CASE PskWritten BY <2>2 DEF PskWritten, Silent
  <2> QED BY <2>1, <2>2
<1>3. UnitShape'
  <2>1. /\ (mode = "APP" => app = "VALID")'
        /\ (mode = "IAP" => IsTls /\ (app = "ERASED" \/ psk = "ZERO"))'
    BY <1>1 DEF Proven, UnitShape
  <2>2. (IsTls /\ tls_handshake_done => mode = "APP")'
    BY <1>1, Zenon DEF Proven, UnitShape, IsTls
  <2>3. /\ (~IsTls /\ st \in SetupStates => psk = "ZERO")'
        /\ (st \in InBootloader => mode = "IAP")'
    BY <1>2
  <2> QED BY <2>1, <2>2, <2>3, Zenon DEF UnitShape
<1>4. psk' # psk => app = "VALID"
  BY <1>1, ApplicationRuns
<1>5. Unit!Change
  <2>1. variant \in {"GTLS", "TLS_PSK"} BY DEF Proven, Inductive, TypeOK, ValuesOK
  <2>2. CASE psk' = psk BY <1>1, <2>2 DEF Unit!Change
  <2>3. CASE psk' # psk BY <1>1, <1>4, <2>1, <2>3 DEF Unit!Change, Unit!WritePsk
  <2> QED BY <2>2, <2>3
<1>6. Unit!Next
  BY <1>1, <1>2, <1>5 DEF Answered, Silent, Unit!Next, Unit!Fail, Unit!Proceed
<1> QED BY <1>3, <1>6

----
\* The steps of the heal.

\* What a command does to the sensor, done or not, is one of Provisioning's
\* changes, made within the request.
LEMMA EffectChanges ==
  ASSUME Proven, runner = "HEAL", Effect \/ UNCHANGED sensorVars, UNCHANGED variant
  PROVE  /\ phase = "OPENING" /\ Unit!Change
         /\ mode' = "APP" => app' = "VALID"
         /\ mode' = "IAP" => app' = "ERASED" \/ psk' = "ZERO"
<1>1. phase = "OPENING" /\ IsTls /\ st \in HealStates
  BY DEF Proven, Inductive, RunShape, HealShape
<1>2. CASE UNCHANGED sensorVars
  BY <1>1, <1>2 DEF sensorVars, Unit!Change, Proven, UnitShape
<1>3. CASE Effect
  BY <1>1, <1>3 DEF Effect, Erase, WriteContainer, WriteFw, Commit, Restart, InBootloader,
     Unit!Change, Unit!Erase, Unit!Provision, Proven, UnitShape, Inductive, TypeOK,
     ValuesOK, WriteShape
<1> QED BY <1>2, <1>3

\* A heal step that goes on, with the bootloader entered where it has to be.
LEMMA HealGoes ==
  ASSUME Proven, runner = "HEAL", Effect \/ UNCHANGED sensorVars, NEW s, HealGoto(s),
         s \in HealStates, s \in InBootloader => mode' = "IAP"
  PROVE  UnitShape' /\ [Unit!Next]_(Unit!vars)
<1>1. /\ UNCHANGED <<variant, phase, outcome>> /\ st' = s
      /\ tls_handshake_done' = tls_handshake_done
  BY Zenon DEF HealGoto, hostVars
<1>2. ~tls_handshake_done' /\ IsTls'
  BY <1>1, Zenon DEF Proven, Inductive, HealShape, IsTls
<1>3. UnitShape'
  BY <1>1, <1>2, EffectChanges DEF UnitShape
<1>4. Unit!Next BY <1>1, EffectChanges DEF Unit!Next, Unit!Proceed
<1> QED BY <1>3, <1>4

\* A heal step that fails.
LEMMA HealStops ==
  ASSUME Proven, runner = "HEAL", Effect \/ UNCHANGED sensorVars, HealFails
  PROVE  UnitShape' /\ [Unit!Next]_(Unit!vars)
<1>1. variant' = variant /\ tls_handshake_done' = tls_handshake_done
  BY Zenon DEF HealFails, FailRest, hostVars
<1>2. ~tls_handshake_done' /\ IsTls'
  BY <1>1, Zenon DEF Proven, Inductive, HealShape, IsTls
<1>3. st' \in {"NONE", "HEAL_READ_PSK_HASH"} /\ (Answered \/ Silent)
  BY FailView DEF HealFails, Proven
<1>4. UnitShape'
  BY <1>1, <1>2, <1>3, EffectChanges DEF UnitShape, InBootloader
<1>5. Unit!Next
  BY <1>1, <1>3, EffectChanges
     DEF Answered, Silent, Unit!Next, Unit!Fail, Unit!Proceed
<1> QED BY <1>4, <1>5

LEMMA HealSteps ==
  ASSUME Proven, HealNeeded \/ HealDecideMode \/ HealErased \/ HealReclaim \/ HealContainer
                   \/ HealWriteFw \/ HealCheckFw \/ HealResetMcu \/ HealCommandFails
  PROVE  UnitShape' /\ [Unit!Next]_(Unit!vars)
<1>1. runner = "HEAL"
  BY DEF Proven, Inductive, RunShape, HealNeeded, HealDecideMode, HealErased, HealReclaim,
     HealContainer, HealWriteFw, HealCheckFw, HealResetMcu, HealCommandFails
<1>2. CASE HealNeeded
  BY <1>1, <1>2, HealGoes DEF HealNeeded, InBootloader
<1>3. CASE HealDecideMode
  <2>1. UNCHANGED sensorVars /\ mode' = mode BY <1>3 DEF HealDecideMode, sensorVars
  <2>2. CASE InIap /\ HealGoto("HEAL_CONTAINER_WRITE1")
    BY <1>1, <2>1, <2>2, HealGoes DEF InIap
  <2>3. CASE HealGoto("HEAL_ERASE_APP")
    BY <1>1, <2>1, <2>3, HealGoes DEF InBootloader
  <2>4. CASE HealFails BY <1>1, <2>1, <2>4, HealStops
  <2> QED BY <1>3, <2>2, <2>3, <2>4, Zenon DEF HealDecideMode
<1>4. CASE HealErased
  BY <1>1, <1>4, HealGoes DEF HealErased, InBootloader
<1>5. CASE HealReclaim
  <2>1. HealGoto("HEAL_READ_FW_VERSION") \/ HealFails BY <1>5, Zenon DEF HealReclaim
  <2>2. UNCHANGED sensorVars BY <1>5 DEF HealReclaim
  <2> QED BY <1>1, <2>1, <2>2, HealGoes, HealStops DEF InBootloader
<1>6. CASE HealContainer
  <2>1. Effect /\ mode' = "IAP"
    BY <1>6 DEF HealContainer, Effect, WriteContainer, InBootloader, Proven, UnitShape
  <2>2. PICK s \in {"HEAL_CONTAINER_WRITE2", "HEAL_CHECK_FW", "HEAL_WRITE_FW_SEND"} :
          HealGoto(s)
    BY <1>6 DEF HealContainer, NextWrite
  <2> QED BY <1>1, <2>1, <2>2, HealGoes
<1>7. CASE HealWriteFw
  <2>1. Effect /\ mode' = "IAP"
    BY <1>7 DEF HealWriteFw, Effect, WriteFw, InBootloader, Proven, UnitShape
  <2>2. PICK s \in {"HEAL_CHECK_FW", "HEAL_WRITE_FW_SEND"} : HealGoto(s)
    BY <1>7 DEF HealWriteFw, NextWrite
  <2> QED BY <1>1, <2>1, <2>2, HealGoes
<1>8. CASE HealCheckFw
  <2>1. CASE Effect /\ HealGoto("HEAL_RESET_MCU")
    BY <1>1, <2>1, HealGoes DEF InBootloader
  <2>2. CASE UNCHANGED sensorVars /\ HealFails BY <1>1, <2>2, HealStops
  <2> QED BY <1>8, <2>1, <2>2, Zenon DEF HealCheckFw, CheckRefused
<1>9. CASE HealResetMcu
  BY <1>1, <1>9, HealGoes DEF HealResetMcu, InBootloader
<1>10. CASE HealCommandFails
  BY <1>1, <1>10, HealStops DEF HealCommandFails
<1> QED BY <1>2, <1>3, <1>4, <1>5, <1>6, <1>7, <1>8, <1>9, <1>10

\* The retry in place is still the same request; a heal that is over leaves the
\* unit reprovisioned.
LEMMA HealEnds ==
  ASSUME Proven, HealRetryOpen \/ Healed
  PROVE  UnitShape' /\ [Unit!Next]_(Unit!vars)
<1> USE DEF sensorVars, hostVars, flagVars, InBootloader
<1>1. UNCHANGED <<mode, psk, app, variant>> /\ st' \in {"PING", "NONE"}
  <2>1. CASE HealRetryOpen BY <2>1 DEF HealRetryOpen, Relaunch, ResetAndClaim
  <2>2. CASE Healed
    <3>1. st' = "NONE" BY <2>2, Zenon DEF Healed, EndOpen
    <3> QED BY <2>2, <3>1 DEF Healed
  <2> QED BY <2>1, <2>2
<1>2. tls_handshake_done' => tls_handshake_done
  BY Zenon DEF HealRetryOpen, Healed
<1>3. UnitShape' BY <1>1, <1>2, SteadyShape
<1>4. phase = "OPENING"
  BY DEF HealRetryOpen, Healed, Proven, Inductive, RunShape
<1>5. CASE HealRetryOpen
  <2>1. \/ outcome' = "NONE" /\ phase' = "OPENING"
        \/ outcome' = "ERROR" /\ phase' = "CLOSED"
    BY <1>5 DEF HealRetryOpen
  <2>2. outcome = "NONE" BY <1>4 DEF Proven, Inductive, RunShape
  <2> QED BY <1>1, <1>3, <1>4, <2>1, <2>2, SteadyStep DEF Silent, Answered
<1>6. CASE Healed
  <2>1. phase' = "CLOSED" /\ outcome' = "REMOVED" BY <1>6 DEF Healed, EndOpen
  <2>2. psk = "ZERO" /\ app = "VALID"
    BY <1>6 DEF Healed, Proven, Inductive, WriteShape
  <2>3. Unit!Reprovisioned BY <1>1, <1>4, <2>1, <2>2 DEF Unit!Reprovisioned
  <2> QED BY <1>1, <1>3, <2>3 DEF Unit!Next
<1> QED BY <1>5, <1>6

----
\* Whenever the daemon dies, the unit keeps what it has.
LEMMA CrashStep ==
  ASSUME Proven, Crash
  PROVE  UnitShape' /\ [Unit!Next]_(Unit!vars)
<1>1. /\ UNCHANGED <<psk, app, variant>> /\ st' = "NONE" /\ phase' = "CLOSED"
      /\ outcome' = "NONE"
      /\ \/ mode' = mode
         \/ mode' = IF app = "VALID" THEN "APP" ELSE "IAP"
  BY DEF Crash, Restart, sensorVars, hostVars
<1>2. ~tls_handshake_done' BY Zenon DEF Crash
<1>3. UnitShape'
  BY <1>1, <1>2 DEF UnitShape, InBootloader, Proven, Inductive, TypeOK, ValuesOK
<1>4. Unit!Next BY <1>1 DEF Unit!Next, Unit!Crash
<1> QED BY <1>3, <1>4

LEMMA NextProven == Proven /\ [Next]_vars => Proven' /\ [Unit!Next]_(Unit!vars)
<1> SUFFICES ASSUME Proven, [Next]_vars PROVE UnitShape' /\ [Unit!Next]_(Unit!vars)
  BY NextInductive DEF Proven
<1>1. CASE Next
  BY <1>1, RequestSteps, OpenSteps, OpenedStep, PskSteps, HealSteps, HealEnds, CrashStep,
     Zenon DEF Next, OpenSsm, HealSsm
<1>2. CASE UNCHANGED vars
  <2>1. UNCHANGED <<mode, psk, app, variant, st, tls_handshake_done>> /\ Silent
    BY <1>2 DEF vars, flagVars, hostVars, sensorVars, Silent
  <2>2. UnitShape' BY <2>1, SteadyShape DEF Proven, UnitShape
  <2> QED BY <2>1, <2>2, SteadyStep
<1> QED BY <1>1, <1>2

----
\* Opening and healing implement Provisioning, for either family and every size
\* of the image, however many steps fail and wherever the daemon dies.
THEOREM UnitRefinement == Spec => UnitSpec
<1>1. Init => Unit!Init
  BY DEF Init, Unit!Init
<1>2. QED BY <1>1, InitProven, NextProven, PTL DEF Spec, UnitSpec, Unit!Spec

==============================================================================
