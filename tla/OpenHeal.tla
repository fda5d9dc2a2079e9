------------------------------ MODULE OpenHeal ------------------------------
(***************************************************************************)
(* Opening a sensor and, on a 550c, reprovisioning it when its handshake   *)
(* fails: the open SSM, the self-heal SSM and their done handlers          *)
(* (goodix53x5-session.c), with the sensor's persistent state.             *)
(*                                                                         *)
(* As in AuthSession a step is one callback with every SSM handler it runs *)
(* before the next transfer or timer; `st` names the state whose transfer  *)
(* is outstanding (heal states carry the prefix HEAL_), and the synchronous *)
(* USB reset and claim belong to the step that makes them.  The sensor is  *)
(* modelled from how the code uses it and from its comments.  `faults`     *)
(* counts failures (transfers, timeouts, refusals, crashes) up to          *)
(* MaxFaults; outcomes the sensor is free to choose at any time (unstable  *)
(* FDT readings, a failed handshake, a gated slot read, an erase that does *)
(* not take) are not counted.                                              *)
(***************************************************************************)
EXTENDS Integers

CONSTANTS
  FwLen,       \* GOODIX_550C_APP_FIRMWARE_LEN
  FwChunk,     \* GOODIX_550C_FW_CHUNK
  TlsFlights,  \* handshake packs the sensor sends until the handshake is done
  IapOpens,    \* does the bootloader answer the open SSM as far as the OTP?
  MaxFaults    \* bound on the failures of a behaviour

ASSUME OpenAssumption ==
  /\ FwLen \in Nat \ {0} /\ FwChunk \in Nat \ {0} /\ TlsFlights \in Nat \ {0}
  /\ IapOpens \in BOOLEAN /\ MaxFaults \in Nat

VARIABLES
  \* --- the driver
  phase,                    \* libfprint's view: "CLOSED", "OPENING", "OPEN"
  runner,                   \* the SSM that runs: "NONE", "OPEN", "HEAL", "REINIT"
  st,                       \* the state whose transfer or timer is outstanding
  claimed,                  \* usb_interface_claimed
  open_reached_tls,
  tls_handshake_done,
  selfheal_attempted,
  heal_erased,
  psk_write_verify_pending,
  open_fdt_retries,
  heal_fw_offset,
  key,                      \* the PSK the TLS engine was created with
  image,                    \* a verified application image is cached
  \* --- the host's configuration
  variant,                  \* "GTLS" (53x5) or "TLS_PSK" (550c), the probed device
  override,                 \* PSK override: "NONE", "KEY" (another PSK), "ZERO" (the
                            \* all-zero PSK, or a file that cannot be read), "BAD"
  fwFile,                   \* does the firmware file verify: "GOOD", "BAD"
  \* --- the sensor
  mode,                     \* "APP" or "IAP", the bootloader
  psk,                      \* committed PSK: "ZERO" or "OTHER"
  app,                      \* application image: "VALID" or "ERASED"
  container,                \* PSK container chunks written since the erase
  flashed,                  \* bytes of the image written, gap-free from 0
  flight,                   \* handshake packs sent
  \* --- bound and history
  faults,
  outcome,                  \* how the last open completed
  launches,                 \* open SSMs launched for it
  erases                    \* erase commands sent for it

flagVars   == <<open_reached_tls, tls_handshake_done, selfheal_attempted, heal_erased,
                psk_write_verify_pending>>
countVars  == <<open_fdt_retries, heal_fw_offset>>
engineVars == <<key, image>>
hostVars   == <<variant, override, fwFile>>
sensorVars == <<mode, psk, app, container, flashed>>
histVars   == <<launches, erases>>
vars == <<phase, runner, st, claimed, flagVars, countVars, engineVars, hostVars,
          sensorVars, flight, faults, outcome, histVars>>

----
\* States of the SSMs that have a transfer or timer.

Greeting   == {"PING", "READ_FW_VERSION", "RESET", "READ_CHIP_ID", "READ_OTP"}
TlsStates  == {"TLS_INIT", "TLS_PUMP", "TLS_RECV", "TLS_ESTABLISHED"}
PskStates  == {"READ_PSK_HASH", "WRITE_PSK", "VERIFY_PSK_WRITE"}
GtlsStates == {"GTLS_CLIENT_HELLO", "GTLS_RECV_IDENTITY", "GTLS_SEND_VERIFY",
               "GTLS_RECV_DONE"}
SetupStates == {"UPLOAD_CONFIG", "FDT_TX_ON", "FDT_TX_ON_2", "SLEEP"}
OpenStates == Greeting \cup TlsStates \cup PskStates \cup GtlsStates \cup SetupStates
HealWrites == {"HEAL_ERASE_APP", "HEAL_CONTAINER_WRITE1", "HEAL_CONTAINER_WRITE2",
               "HEAL_WRITE_FW_SEND", "HEAL_CHECK_FW", "HEAL_RESET_MCU"}
HealCommands == HealWrites \cup {"HEAL_READ_PSK_HASH", "HEAL_READ_FW_VERSION"}
HealStates == HealCommands \cup {"HEAL_ERASE_SETTLE", "HEAL_RESET_SETTLE"}

IsTls == variant = "TLS_PSK"

OPEN_FDT_MAX_RETRIES == 2

----
Init ==
  /\ phase = "CLOSED" /\ runner = "NONE" /\ st = "NONE" /\ claimed = FALSE
  /\ open_reached_tls = FALSE /\ tls_handshake_done = FALSE
  /\ selfheal_attempted = FALSE /\ heal_erased = FALSE
  /\ psk_write_verify_pending = FALSE
  /\ open_fdt_retries = 0 /\ heal_fw_offset = 0 /\ key = "ZERO" /\ image = FALSE
  /\ variant \in {"GTLS", "TLS_PSK"}
  /\ override \in {"NONE", "KEY", "ZERO", "BAD"} /\ fwFile \in {"GOOD", "BAD"}
  /\ mode = "APP" /\ psk \in {"ZERO", "OTHER"} /\ app = "VALID"
  /\ container = 0 /\ flashed = 0 /\ flight = 0
  /\ faults = 0 /\ outcome = "NONE" /\ launches = 0 /\ erases = 0

Fault == faults < MaxFaults /\ faults' = faults + 1

\* A bug to tell apart: the error path keeps the interface.
MutantEndOpen(o) ==
  /\ phase' = IF o = "OK" THEN "OPEN" ELSE "CLOSED"
  /\ runner' = "NONE" /\ st' = "NONE" /\ outcome' = o
  /\ UNCHANGED claimed
\* fpi_device_open_complete, after goodix_cleanup_failed_open for an error.
EndOpen(o) ==
  /\ phase' = IF o = "OK" THEN "OPEN" ELSE "CLOSED"
  /\ runner' = "NONE" /\ st' = "NONE" /\ outcome' = o
  /\ claimed' = (claimed /\ o = "OK")

\* goodix_550c_has_psk_override
HasOverride == override # "NONE"

\* goodix_550c_app_firmware_load: the cached image, or a file that verifies.
ImageLoads == image \/ fwFile = "GOOD"

\* goodix_550c_load_psk, for an override it accepts.
LoadedKey == IF IsTls /\ override = "KEY" THEN "OTHER" ELSE "ZERO"

\* A bug to tell apart: an override does not protect the unit's PSK.
MutantCanHeal(reached) ==
  IsTls /\ reached /\ ~tls_handshake_done /\ ~selfheal_attempted /\ ImageLoads
\* The guards of goodix_maybe_start_selfheal, up to a verified image.
CanHeal(reached) ==
  /\ IsTls /\ reached /\ ~tls_handshake_done /\ ~selfheal_attempted
  /\ ~HasOverride /\ ImageLoads

\* The rest of goodix_maybe_start_selfheal.
StartHeal ==
  /\ runner' = "HEAL" /\ st' = "HEAL_READ_PSK_HASH"
  /\ selfheal_attempted' = TRUE /\ heal_erased' = FALSE /\ heal_fw_offset' = 0
  /\ image' = TRUE
  /\ UNCHANGED <<phase, claimed, outcome>>

\* The running SSM fails; `reached` is open_reached_tls by then.
SsmFails(reached) ==
  \/ runner = "OPEN" /\ CanHeal(reached) /\ StartHeal
  \/ /\ runner = "HEAL" \/ (runner = "OPEN" /\ ~CanHeal(reached))
     /\ EndOpen("ERROR")
     /\ UNCHANGED <<selfheal_attempted, heal_erased, heal_fw_offset, image>>
  \/ /\ runner = "REINIT"
     /\ runner' = "NONE" /\ st' = "NONE"
     /\ UNCHANGED <<phase, claimed, outcome, selfheal_attempted, heal_erased,
                    heal_fw_offset, image>>

\* What SsmFails does not speak about, open_reached_tls aside.
FailRest == UNCHANGED <<tls_handshake_done, psk_write_verify_pending, open_fdt_retries,
                        key, hostVars, histVars>>

\* The leading USB reset and claim of the open SSM, run for r.
ResetAndClaim(r) ==
  \/ /\ runner' = r /\ st' = "PING" /\ claimed' = TRUE
     /\ UNCHANGED faults
  \/ /\ Fault
     /\ runner' = "NONE" /\ st' = "NONE" /\ claimed' = FALSE

----
\* Opening and closing.

\* goodix_start_open_ssm and goodix_launch_open_ssm.
Open ==
  /\ phase = "CLOSED"
  /\ selfheal_attempted' = FALSE
  /\ open_reached_tls' = FALSE /\ tls_handshake_done' = FALSE
  /\ launches' = 1 /\ erases' = 0
  /\ ResetAndClaim("OPEN")
  /\ phase' = IF runner' = "OPEN" THEN "OPENING" ELSE "CLOSED"
  /\ outcome' = IF runner' = "OPEN" THEN "NONE" ELSE "ERROR"
  /\ UNCHANGED <<heal_erased, psk_write_verify_pending, countVars, engineVars, hostVars,
                 sensorVars, flight>>

Close ==
  /\ phase = "OPEN" /\ runner = "NONE"
  /\ phase' = "CLOSED" /\ claimed' = FALSE
  /\ UNCHANGED <<runner, st, flagVars, countVars, engineVars, hostVars, sensorVars,
                 flight, faults, outcome, histVars>>

\* goodix_maybe_start_reinit_subsm: the open SSM, but not its done handler.
Reinit ==
  /\ phase = "OPEN" /\ runner = "NONE"
  /\ ResetAndClaim("REINIT")
  /\ UNCHANGED <<phase, flagVars, countVars, engineVars, hostVars, sensorVars, flight,
                 outcome, histVars>>

----
\* The open SSM.

\* Does the sensor answer?  The bootloader may not, except to the version read.
Answers == mode = "APP" \/ st \in {"PING", "READ_FW_VERSION"} \/ IapOpens

\* The state after a command that only has to succeed.
StepNext ==
  [PING |-> "READ_FW_VERSION", READ_FW_VERSION |-> "RESET", RESET |-> "READ_CHIP_ID",
   READ_CHIP_ID |-> "READ_OTP", GTLS_CLIENT_HELLO |-> "GTLS_RECV_IDENTITY",
   GTLS_RECV_IDENTITY |-> "GTLS_SEND_VERIFY", GTLS_SEND_VERIFY |-> "GTLS_RECV_DONE",
   GTLS_RECV_DONE |-> "UPLOAD_CONFIG", TLS_ESTABLISHED |-> "UPLOAD_CONFIG",
   UPLOAD_CONFIG |-> "FDT_TX_ON", FDT_TX_ON |-> "FDT_TX_ON_2"]

OpenStep ==
  /\ st \in DOMAIN StepNext /\ Answers
  /\ st' = StepNext[st]
  /\ open_fdt_retries' = IF StepNext[st] = "UPLOAD_CONFIG" THEN 0 ELSE open_fdt_retries
  /\ UNCHANGED <<phase, runner, claimed, flagVars, heal_fw_offset, engineVars, hostVars,
                 sensorVars, flight, faults, outcome, histVars>>

\* A reply, timeout or transfer of the open SSM fails.  A PSK write whose reply
\* is lost may have been made.
OpenStepFails ==
  /\ st \in OpenStates
  /\ IF Answers THEN Fault ELSE UNCHANGED faults
  /\ SsmFails(open_reached_tls)
  /\ psk' \in {psk} \cup (IF st = "WRITE_PSK" THEN {"ZERO"} ELSE {})
  /\ FailRest
  /\ UNCHANGED <<open_reached_tls, mode, app, container, flashed, flight>>

\* PARSE_OTP, and on the 550c TLS_INIT: the PSK is loaded and the engine made.
OtpRead ==
  /\ st = "READ_OTP" /\ Answers
  /\ open_reached_tls' = (open_reached_tls \/ IsTls)
  /\ \/ /\ IsTls => override # "BAD"
        /\ st' = IF IsTls THEN "TLS_INIT" ELSE "READ_PSK_HASH"
        /\ tls_handshake_done' = (tls_handshake_done /\ ~IsTls)
        /\ key' = LoadedKey
        /\ UNCHANGED <<phase, runner, claimed, selfheal_attempted, heal_erased,
                       psk_write_verify_pending, countVars, image, hostVars, faults,
                       outcome, histVars>>
     \/ /\ IsTls
        /\ IF override = "BAD" THEN UNCHANGED faults ELSE Fault
        /\ SsmFails(TRUE)
        /\ FailRest
  /\ flight' = 0
  /\ UNCHANGED sensorVars

\* TLS_PUMP with the sensor's next handshake pack; its last one ends the
\* handshake if both sides have the same PSK.
TlsPump ==
  /\ st \in {"TLS_INIT", "TLS_RECV"} /\ mode = "APP" /\ flight < TlsFlights
  /\ flight' = flight + 1
  /\ flight' = TlsFlights => key = psk
  /\ tls_handshake_done' = (flight' = TlsFlights)
  /\ \E sends \in BOOLEAN :
       st' = IF sends THEN "TLS_PUMP"
             ELSE IF flight' = TlsFlights THEN "TLS_ESTABLISHED" ELSE "TLS_RECV"
  /\ UNCHANGED <<phase, runner, claimed, open_reached_tls, selfheal_attempted, heal_erased,
                 psk_write_verify_pending, countVars, engineVars, hostVars, sensorVars,
                 faults, outcome, histVars>>

\* A bug to tell apart: whatever was sent ended the handshake.
MutantAfterSend == "TLS_ESTABLISHED"
\* TLS_AFTER_SEND.
AfterSend == IF tls_handshake_done THEN "TLS_ESTABLISHED" ELSE "TLS_RECV"

\* The handshake bytes have been sent.
TlsSent ==
  /\ st = "TLS_PUMP"
  /\ st' = AfterSend
  /\ UNCHANGED <<phase, runner, claimed, flagVars, countVars, engineVars, hostVars,
                 sensorVars, flight, faults, outcome, histVars>>

\* The handshake fails: a wrong PSK, the bootloader, or a transient.
TlsRefused ==
  /\ st \in {"TLS_INIT", "TLS_RECV"}
  /\ SsmFails(open_reached_tls)
  /\ FailRest
  /\ UNCHANGED <<open_reached_tls, sensorVars, flight, faults>>

\* A bug to tell apart: the write is not read back.
MutantVerifies(h) == FALSE
\* psk_write_verify_pending after the hash was compared.
Verifies(h) == h # "ZERO"

\* GOODIX_OPEN_WRITE_PSK: the unit's PSK hash decides.
PskHashRead ==
  /\ st = "READ_PSK_HASH"
  /\ psk_write_verify_pending' = Verifies(psk)
  /\ st' = IF psk = "ZERO" THEN "GTLS_CLIENT_HELLO" ELSE "WRITE_PSK"
  /\ UNCHANGED <<phase, runner, claimed, open_reached_tls, tls_handshake_done,
                 selfheal_attempted, heal_erased, countVars, engineVars, hostVars,
                 sensorVars, flight, faults, outcome, histVars>>

\* The white box write is accepted, whether or not it takes.
PskWritten ==
  /\ st = "WRITE_PSK"
  /\ st' = "VERIFY_PSK_WRITE"
  /\ psk' \in {psk, "ZERO"}
  /\ UNCHANGED <<phase, runner, claimed, flagVars, countVars, engineVars, hostVars, mode,
                 app, container, flashed, flight, faults, outcome, histVars>>

\* GOODIX_OPEN_GTLS_CLIENT_HELLO with the hash read back.
PskVerified ==
  /\ st = "VERIFY_PSK_WRITE"
  /\ \/ /\ psk_write_verify_pending => psk = "ZERO"
        /\ st' = "GTLS_CLIENT_HELLO" /\ psk_write_verify_pending' = FALSE
        /\ UNCHANGED <<phase, runner, claimed, tls_handshake_done, selfheal_attempted,
                       heal_erased, countVars, engineVars, hostVars, outcome, histVars>>
     \/ /\ psk_write_verify_pending /\ psk # "ZERO"
        /\ SsmFails(open_reached_tls)
        /\ FailRest
  /\ UNCHANGED <<open_reached_tls, sensorVars, flight, faults>>

\* A bug to tell apart: one retry too many.
MutantRetriesLeft == open_fdt_retries <= OPEN_FDT_MAX_RETRIES
RetriesLeft == open_fdt_retries < OPEN_FDT_MAX_RETRIES

\* A bug to tell apart: the retry counter does not accumulate.
MutantCountRetry == 1 - open_fdt_retries
CountRetry == open_fdt_retries + 1

\* GOODIX_OPEN_VALIDATE_FDT_2.
FdtRead ==
  /\ st = "FDT_TX_ON_2"
  /\ \/ /\ st' = "SLEEP"
        /\ UNCHANGED <<phase, runner, claimed, tls_handshake_done, selfheal_attempted,
                       heal_erased, psk_write_verify_pending, countVars, engineVars,
                       hostVars, outcome, histVars>>
     \/ /\ RetriesLeft
        /\ open_fdt_retries' = CountRetry
        /\ UNCHANGED <<phase, runner, st, claimed, tls_handshake_done, selfheal_attempted,
                       heal_erased, psk_write_verify_pending, heal_fw_offset, engineVars,
                       hostVars, outcome, histVars>>
     \/ /\ ~RetriesLeft
        /\ open_fdt_retries' = open_fdt_retries + 1
        /\ SsmFails(open_reached_tls)
        /\ UNCHANGED <<tls_handshake_done, psk_write_verify_pending, key, hostVars,
                       histVars>>
  /\ UNCHANGED <<open_reached_tls, sensorVars, flight, faults>>

\* The open SSM completes: goodix_open_ssm_done, or back to the action.
Opened ==
  /\ st = "SLEEP"
  /\ IF runner = "OPEN"
       THEN EndOpen("OK")
       ELSE runner' = "NONE" /\ st' = "NONE" /\ UNCHANGED <<phase, claimed, outcome>>
  /\ UNCHANGED <<flagVars, countVars, engineVars, hostVars, sensorVars, flight, faults,
                 histVars>>

----
\* The self-heal SSM: what its commands do to the sensor.

Erase == mode' = "IAP" /\ app' = "ERASED" /\ container' = 0 /\ flashed' = 0
           /\ UNCHANGED psk

WriteContainer(n) == container' = n /\ UNCHANGED <<mode, psk, app, flashed>>

\* Bytes of the chunk at heal_fw_offset.
ChunkLen == IF FwLen - heal_fw_offset < FwChunk THEN FwLen - heal_fw_offset ELSE FwChunk

WriteFw ==
  /\ flashed' = IF heal_fw_offset \in {0, flashed}
                  THEN heal_fw_offset + ChunkLen ELSE flashed
  /\ UNCHANGED <<mode, psk, app, container>>

\* check_firmware validates the image and commits the PSK of the container.
Commit ==
  /\ container = 2 /\ flashed = FwLen
  /\ psk' = "ZERO" /\ app' = "VALID"
  /\ UNCHANGED <<mode, container, flashed>>

\* The sensor boots its application if it has a valid one.
Restart ==
  /\ mode' = IF app = "VALID" THEN "APP" ELSE "IAP"
  /\ UNCHANGED <<psk, app, container, flashed>>

\* What the outstanding command does if it reaches the sensor.
Effect ==
  \/ st = "HEAL_ERASE_APP" /\ Erase
  \/ st = "HEAL_CONTAINER_WRITE1" /\ WriteContainer(1)
  \/ st = "HEAL_CONTAINER_WRITE2" /\ WriteContainer(2)
  \/ st = "HEAL_WRITE_FW_SEND" /\ WriteFw
  \/ st = "HEAL_CHECK_FW" /\ Commit
  \/ st = "HEAL_RESET_MCU" /\ Restart

----
\* The steps of the self-heal SSM.

\* A heal step that goes on to state s.
HealGoto(s) ==
  /\ st' = s
  /\ UNCHANGED <<phase, runner, claimed, open_reached_tls, tls_handshake_done,
                 selfheal_attempted, psk_write_verify_pending, open_fdt_retries,
                 engineVars, hostVars, flight, outcome, launches>>

\* A heal step that fails.
HealFails ==
  /\ SsmFails(open_reached_tls)
  /\ FailRest
  /\ UNCHANGED <<open_reached_tls, flight>>

\* goodix_launch_open_ssm, selfheal_attempted staying TRUE.
Relaunch ==
  /\ ResetAndClaim("OPEN")
  /\ UNCHANGED selfheal_attempted
  /\ launches' = launches + 1

\* DECIDE_PSK, and the done handler's retry in place when the unit turns out to
\* be on the all-zero PSK: release, and the open SSM again.
HealRetryOpen ==
  /\ st = "HEAL_READ_PSK_HASH" /\ psk = "ZERO"
  /\ open_reached_tls' = FALSE /\ tls_handshake_done' = FALSE
  /\ Relaunch
  /\ phase' = IF runner' = "OPEN" THEN "OPENING" ELSE "CLOSED"
  /\ outcome' = IF runner' = "OPEN" THEN "NONE" ELSE "ERROR"
  /\ UNCHANGED <<heal_erased, psk_write_verify_pending, countVars, engineVars, hostVars,
                 sensorVars, flight, erases>>

\* DECIDE_PSK otherwise: another PSK, or the slot cannot be read.
HealNeeded ==
  /\ st = "HEAL_READ_PSK_HASH"
  /\ HealGoto("HEAL_READ_FW_VERSION")
  /\ UNCHANGED <<heal_erased, heal_fw_offset, sensorVars, faults, erases>>

\* Bugs to tell apart: the bootloader is not recognized; erase again.
MutantInIap == FALSE
InIap == mode = "IAP"
MutantErasable == TRUE
Erasable == ~heal_erased

\* DECIDE_MODE: go on in the bootloader; erase to get there, but once.
HealDecideMode ==
  /\ st = "HEAL_READ_FW_VERSION"
  /\ \/ /\ InIap
        /\ HealGoto("HEAL_CONTAINER_WRITE1")
        /\ UNCHANGED <<heal_erased, heal_fw_offset, erases>>
     \/ /\ ~InIap /\ Erasable
        /\ heal_erased' = TRUE /\ erases' = erases + 1
        /\ HealGoto("HEAL_ERASE_APP")
        /\ UNCHANGED heal_fw_offset
     \/ ~InIap /\ ~Erasable /\ HealFails
  /\ UNCHANGED <<sensorVars, faults>>

\* The erase is acknowledged, and takes or not.
HealErased ==
  /\ st = "HEAL_ERASE_APP"
  /\ Effect \/ UNCHANGED sensorVars
  /\ HealGoto("HEAL_ERASE_SETTLE")
  /\ UNCHANGED <<heal_erased, heal_fw_offset, faults, erases>>

\* The settle timer, and goodix_heal_reset_and_claim.
HealReclaim ==
  /\ st = "HEAL_ERASE_SETTLE"
  /\ \/ /\ HealGoto("HEAL_READ_FW_VERSION")
        /\ UNCHANGED <<heal_erased, heal_fw_offset, faults, erases>>
     \/ Fault /\ HealFails
  /\ UNCHANGED sensorVars

\* A bug to tell apart: the last, partial chunk is not written.
MutantNextWrite(off) ==
  IF off + FwChunk > FwLen THEN "HEAL_CHECK_FW" ELSE "HEAL_WRITE_FW_SEND"
\* WRITE_FW_SEND: another chunk, or the check.
NextWrite(off) == IF off >= FwLen THEN "HEAL_CHECK_FW" ELSE "HEAL_WRITE_FW_SEND"

\* The container's second chunk is accepted: WRITE_FW_BEGIN.
HealContainer ==
  /\ st \in {"HEAL_CONTAINER_WRITE1", "HEAL_CONTAINER_WRITE2"}
  /\ Effect
  /\ heal_fw_offset' = IF st = "HEAL_CONTAINER_WRITE2" THEN 0 ELSE heal_fw_offset
  /\ HealGoto(IF st = "HEAL_CONTAINER_WRITE1" THEN "HEAL_CONTAINER_WRITE2"
              ELSE NextWrite(0))
  /\ UNCHANGED <<heal_erased, faults, erases>>

\* WRITE_FW_NEXT.
HealWriteFw ==
  /\ st = "HEAL_WRITE_FW_SEND"
  /\ Effect
  /\ heal_fw_offset' = heal_fw_offset + FwChunk
  /\ HealGoto(NextWrite(heal_fw_offset + FwChunk))
  /\ UNCHANGED <<heal_erased, faults, erases>>

\* A bug to tell apart: the status of the check is not looked at.
MutantCheckRefused ==
  HealGoto("HEAL_RESET_MCU") /\ UNCHANGED <<heal_erased, heal_fw_offset, erases>>
CheckRefused == HealFails

\* RESET_MCU: the check's status.
HealCheckFw ==
  /\ st = "HEAL_CHECK_FW"
  /\ \/ /\ Effect
        /\ HealGoto("HEAL_RESET_MCU")
        /\ UNCHANGED <<heal_erased, heal_fw_offset, erases, faults>>
     \/ Fault /\ UNCHANGED sensorVars /\ CheckRefused

\* RESET_SETTLE, the reset having been acknowledged.
HealResetMcu ==
  /\ st = "HEAL_RESET_MCU"
  /\ Effect
  /\ HealGoto("HEAL_RESET_SETTLE")
  /\ UNCHANGED <<heal_erased, heal_fw_offset, faults, erases>>

\* goodix_heal_ssm_done: the sensor has re-enumerated, this device is gone.
Healed ==
  /\ st = "HEAL_RESET_SETTLE"
  /\ EndOpen("REMOVED")
  /\ UNCHANGED <<flagVars, countVars, engineVars, hostVars, sensorVars, flight, faults,
                 histVars>>

\* A heal command fails, having reached the sensor or not.
HealCommandFails ==
  /\ st \in HealCommands
  /\ Fault
  /\ Effect \/ UNCHANGED sensorVars
  /\ HealFails

----
\* The operator, and the end of the daemon.

\* The override and the firmware file are files: they come and go.  A change
\* under a running heal is not seen by it.
Configure ==
  /\ runner # "HEAL"
  /\ override' \in {"NONE", "KEY", "ZERO", "BAD"} /\ fwFile' \in {"GOOD", "BAD"}
  /\ UNCHANGED <<variant, phase, runner, st, claimed, flagVars, countVars, engineVars,
                 sensorVars, flight, faults, outcome, histVars>>

\* The daemon dies, or the host loses power: then a sensor with a valid image
\* boots it.
Crash ==
  /\ Fault
  /\ phase' = "CLOSED" /\ runner' = "NONE" /\ st' = "NONE" /\ claimed' = FALSE
  /\ image' = FALSE /\ outcome' = "NONE"
  /\ open_reached_tls' = FALSE /\ tls_handshake_done' = FALSE
  /\ selfheal_attempted' = FALSE /\ heal_erased' = FALSE
  /\ psk_write_verify_pending' = FALSE
  /\ open_fdt_retries' = 0 /\ heal_fw_offset' = 0
  /\ launches' = 0 /\ erases' = 0
  /\ Restart \/ UNCHANGED sensorVars
  /\ UNCHANGED <<key, hostVars, flight>>

----
OpenSsm == OpenStep \/ OpenStepFails \/ OtpRead \/ TlsPump \/ TlsSent \/ TlsRefused
             \/ PskHashRead \/ PskWritten \/ PskVerified \/ FdtRead \/ Opened
HealSsm == HealRetryOpen \/ HealNeeded \/ HealDecideMode \/ HealErased \/ HealReclaim
             \/ HealContainer \/ HealWriteFw \/ HealCheckFw \/ HealResetMcu \/ Healed
             \/ HealCommandFails

Next == Open \/ Close \/ Reinit \/ OpenSsm \/ HealSsm \/ Configure \/ Crash

Spec == Init /\ [][Next]_vars

----
\* Type invariant.
FlagsOK ==
  /\ claimed \in BOOLEAN /\ open_reached_tls \in BOOLEAN
  /\ tls_handshake_done \in BOOLEAN /\ selfheal_attempted \in BOOLEAN
  /\ heal_erased \in BOOLEAN /\ psk_write_verify_pending \in BOOLEAN
  /\ image \in BOOLEAN
ValuesOK ==
  /\ phase \in {"CLOSED", "OPENING", "OPEN"}
  /\ runner \in {"NONE", "OPEN", "HEAL", "REINIT"}
  /\ st \in OpenStates \cup HealStates \cup {"NONE"}
  /\ open_fdt_retries \in 0 .. OPEN_FDT_MAX_RETRIES + 1 /\ heal_fw_offset \in Nat
  /\ key \in {"ZERO", "OTHER"} /\ override \in {"NONE", "KEY", "ZERO", "BAD"}
  /\ fwFile \in {"GOOD", "BAD"} /\ variant \in {"GTLS", "TLS_PSK"}
  /\ mode \in {"APP", "IAP"} /\ psk \in {"ZERO", "OTHER"} /\ app \in {"VALID", "ERASED"}
  /\ container \in 0 .. 2 /\ flashed \in 0 .. FwLen /\ flight \in 0 .. TlsFlights
  /\ faults \in 0 .. MaxFaults
  /\ outcome \in {"NONE", "OK", "ERROR", "REMOVED"}
  /\ launches \in Nat /\ erases \in Nat
TypeOK == FlagsOK /\ ValuesOK

\* The interface is held whenever an SSM uses it, and never by a closed device,
\* on every error path through the open, the heal and its re-enumerations.
ClaimBalanced ==
  /\ runner # "NONE" => claimed
  /\ phase = "CLOSED" => ~claimed

\* However handshake, slot read and erase turn out, one open request launches
\* the open SSM at most twice and erases the sensor at most once.
HealBounded == launches <= 2 /\ erases <= 1

\* The check that commits the PSK comes after both container chunks and every
\* byte of the image, a partial last chunk included, also when the bootloader
\* still holds the remains of an earlier heal.
ImageWholeAtCheck == st = "HEAL_CHECK_FW" => container = 2 /\ flashed = FwLen

\* "Sensor was reprovisioned" is only reported of a sensor that was: it runs a
\* valid application with the all-zero PSK.
HealedMeansProvisioned ==
  outcome = "REMOVED" => mode = "APP" /\ app = "VALID" /\ psk = "ZERO"

\* No configuration is uploaded before the TLS handshake has ended, with the
\* PSK that the sensor holds.
TlsBeforeSetup ==
  IsTls /\ st \in SetupStates \cup {"TLS_ESTABLISHED"} => tls_handshake_done /\ key = psk

\* The 53x5 handshake starts only on a sensor whose PSK has been read, or read
\* back, as the all-zero one, also after a write that did not take or an
\* earlier open that stopped after its write.
GtlsOnVerifiedPsk == st \in GtlsStates => psk = "ZERO"

\* The sensor's application and PSK change only under a heal that an operator
\* who configured an override is never subjected to, with the verified image in
\* memory, before any handshake succeeded in this open.
SensorWritesConsented ==
  [][IsTls /\ (app' # app \/ psk' # psk)
       => runner = "HEAL" /\ override = "NONE" /\ image /\ ~tls_handshake_done]_vars

----
\* How many more steps an SSM takes at most, by its state and its counters.

\* The open SSM: the states to come, two for each handshake pack to come, and the
\* FDT retries.  A handshake starts after the greeting.
OpenRank ==
  [PING |-> 16, READ_FW_VERSION |-> 15, RESET |-> 14, READ_CHIP_ID |-> 13,
   READ_OTP |-> 12, READ_PSK_HASH |-> 11, WRITE_PSK |-> 10, VERIFY_PSK_WRITE |-> 9,
   GTLS_CLIENT_HELLO |-> 8, GTLS_RECV_IDENTITY |-> 7, GTLS_SEND_VERIFY |-> 6,
   GTLS_RECV_DONE |-> 5, TLS_PUMP |-> 7, TLS_INIT |-> 6, TLS_RECV |-> 6,
   TLS_ESTABLISHED |-> 5, UPLOAD_CONFIG |-> 4, FDT_TX_ON |-> 3, FDT_TX_ON_2 |-> 2,
   SLEEP |-> 1]
PacksLeft == TlsFlights - IF st \in Greeting THEN 0 ELSE flight
FdtReadsLeft ==
  OPEN_FDT_MAX_RETRIES - IF st = "FDT_TX_ON_2" THEN open_fdt_retries
                         ELSE IF st = "SLEEP" THEN OPEN_FDT_MAX_RETRIES ELSE 0
OpenLeft == OpenRank[st] + 2 * PacksLeft + FdtReadsLeft
WholeOpen == OpenRank["PING"] + 2 * TlsFlights + OPEN_FDT_MAX_RETRIES

\* The self-heal SSM; a chunk of the image has at least a byte.
HealLeft ==
  CASE st = "HEAL_READ_PSK_HASH" -> FwLen + 10
    [] st = "HEAL_READ_FW_VERSION" -> FwLen + IF heal_erased THEN 6 ELSE 9
    [] st = "HEAL_ERASE_APP" -> FwLen + 8
    [] st = "HEAL_ERASE_SETTLE" -> FwLen + 7
    [] st = "HEAL_CONTAINER_WRITE1" -> FwLen + 5
    [] st = "HEAL_CONTAINER_WRITE2" -> FwLen + 4
    [] st = "HEAL_WRITE_FW_SEND" -> FwLen - heal_fw_offset + 3
    [] st = "HEAL_CHECK_FW" -> 3
    [] st = "HEAL_RESET_MCU" -> 2
    [] OTHER -> 1
WholeHeal == FwLen + 10

\* With the heal that may follow the first open, and the open that may follow it.
StepsLeft ==
  CASE runner = "HEAL" -> HealLeft + WholeOpen
    [] runner = "OPEN" /\ ~selfheal_attempted -> OpenLeft + WholeHeal + WholeOpen
    [] OTHER -> OpenLeft

\* An open, its retries, its heal and the open after that, or a reinitialization, end
\* within a number of steps that the image, the handshake and the retry limits
\* give, whatever the sensor answers: no loop makes its SSM start over.
StepsBounded ==
  [][/\ runner = "NONE" /\ runner' # "NONE"
          => StepsLeft' \in 1 .. WholeOpen + WholeHeal + WholeOpen
     /\ runner # "NONE" /\ runner' # "NONE"
          => \/ StepsLeft' \in 1 .. StepsLeft - 1
             \/ hostVars' # hostVars /\ StepsLeft' = StepsLeft]_vars

----
\* What the driver's steps amount to for the unit and for its user.
Unit == INSTANCE Provisioning WITH
  family  <- variant,
  unit    <- IF app = "ERASED" THEN "ERASED"
             ELSE IF psk = "ZERO" THEN "ZERO" ELSE "FOREIGN",
  request <- phase,
  answer  <- outcome

\* Opening and healing, failing and crashing wherever they may, do no more to the
\* unit than Provisioning allows, and say no more of it.
UnitSpec == Unit!Spec
=============================================================================
