------------------------- MODULE OpenHeal_proofs -------------------------
(***************************************************************************)
(* The inductive invariant of OpenHeal and what it gives, for either       *)
(* sensor family and every image length, chunk size, number of handshake   *)
(* packs and bound on the failures.                                        *)
(***************************************************************************)
EXTENDS OpenHeal, TLAPS

----
\* What libfprint waits for, which SSM runs and which state is outstanding.
RunShape ==
  /\ phase = "OPENING" <=> runner \in {"OPEN", "HEAL"}
  /\ runner = "REINIT" => phase = "OPEN"
  /\ runner = "NONE" <=> st = "NONE"
  /\ runner = "HEAL" <=> st \in HealStates
  /\ outcome = "REMOVED" => phase = "CLOSED"
  /\ phase = "OPENING" => outcome = "NONE"
  /\ st \in TlsStates => IsTls
  /\ st \in PskStates \cup GtlsStates => ~IsTls
  /\ st \in {"UPLOAD_CONFIG", "FDT_TX_ON", "FDT_TX_ON_2"}
       => open_fdt_retries <= OPEN_FDT_MAX_RETRIES

\* Before a heal the open is the first and nothing was erased; a heal runs
\* under the guards it was started with.
HealShape ==
  /\ runner = "OPEN" /\ ~selfheal_attempted => launches = 1 /\ erases = 0
  /\ runner = "HEAL" => /\ IsTls /\ selfheal_attempted /\ launches = 1
                        /\ ~tls_handshake_done /\ override = "NONE" /\ image
  /\ runner = "HEAL" /\ ~heal_erased => erases = 0
  /\ st \in {"HEAL_ERASE_APP", "HEAL_ERASE_SETTLE"} => heal_erased

\* What the heal has written by the state it is in.
WriteShape ==
  /\ st = "HEAL_WRITE_FW_SEND" =>
       /\ container = 2 /\ heal_fw_offset < FwLen
       /\ heal_fw_offset = 0 \/ flashed = heal_fw_offset
  /\ st \in {"HEAL_RESET_MCU", "HEAL_RESET_SETTLE"} => psk = "ZERO" /\ app = "VALID"
  /\ st = "HEAL_RESET_SETTLE" => mode = "APP"

\* What the handshakes have established.
KeyShape ==
  /\ st = "TLS_PUMP" /\ tls_handshake_done => key = psk
  /\ st \in {"WRITE_PSK", "VERIFY_PSK_WRITE"} => psk_write_verify_pending

Inductive ==
  /\ TypeOK /\ RunShape /\ HealShape /\ WriteShape /\ KeyShape
  /\ ClaimBalanced /\ HealBounded /\ ImageWholeAtCheck /\ HealedMeansProvisioned
  /\ TlsBeforeSetup /\ GtlsOnVerifiedPsk
----
USE DEF OpenStates, Greeting, TlsStates, PskStates, GtlsStates, SetupStates,
        HealStates, HealCommands, HealWrites, IsTls, OPEN_FDT_MAX_RETRIES

\* The invariant holds in the initial states.
LEMMA InitInductive == Init => Inductive
<1> SUFFICES ASSUME Init PROVE Inductive OBVIOUS
<1>1. FlagsOK BY Zenon DEF Init, FlagsOK
<1>2. QED
  BY <1>1, OpenAssumption
     DEF Init, Inductive, TypeOK, FlagsOK, ValuesOK, RunShape, HealShape, WriteShape,
         KeyShape, ClaimBalanced, HealBounded, ImageWholeAtCheck,
         HealedMeansProvisioned, TlsBeforeSetup, GtlsOnVerifiedPsk

----
\* A failed SSM, whichever step fails it, leaves the invariant intact.
LEMMA FailKeeps ==
  ASSUME Inductive, NEW reached \in BOOLEAN, runner # "NONE", SsmFails(reached),
         UNCHANGED <<tls_handshake_done, psk_write_verify_pending, key, hostVars,
                     histVars>>,
         open_reached_tls' \in BOOLEAN,
         open_fdt_retries' \in 0 .. OPEN_FDT_MAX_RETRIES + 1,
         flight' \in 0 .. TlsFlights, faults' \in 0 .. MaxFaults,
         mode' \in {"APP", "IAP"}, psk' \in {"ZERO", "OTHER"},
         app' \in {"VALID", "ERASED"}, container' \in 0 .. 2, flashed' \in 0 .. FwLen
  PROVE  Inductive'
<1> USE DEF hostVars, histVars
<1>1. CASE runner = "OPEN" /\ CanHeal(reached) /\ StartHeal
  <2>1. FlagsOK'
    BY <1>1, Zenon DEF StartHeal, Inductive, TypeOK, FlagsOK
  <2>2. QED
    BY <1>1, <2>1
       DEF StartHeal, CanHeal, HasOverride, Inductive, TypeOK, FlagsOK, ValuesOK,
           RunShape, HealShape, WriteShape, KeyShape, ClaimBalanced, HealBounded,
           ImageWholeAtCheck, HealedMeansProvisioned, TlsBeforeSetup, GtlsOnVerifiedPsk
<1>2. CASE /\ EndOpen("ERROR")
           /\ UNCHANGED <<selfheal_attempted, heal_erased, heal_fw_offset, image>>
  <2>1. FlagsOK' /\ claimed' = FALSE
    BY <1>2, Zenon DEF EndOpen, Inductive, TypeOK, FlagsOK
  <2>2. QED
    BY <1>2, <2>1
       DEF EndOpen, Inductive, TypeOK, FlagsOK, ValuesOK, RunShape, HealShape,
           WriteShape, KeyShape, ClaimBalanced, HealBounded, ImageWholeAtCheck,
           HealedMeansProvisioned, TlsBeforeSetup, GtlsOnVerifiedPsk
<1>3. CASE /\ runner = "REINIT"
           /\ runner' = "NONE" /\ st' = "NONE"
           /\ UNCHANGED <<phase, claimed, outcome, selfheal_attempted, heal_erased,
                          heal_fw_offset, image>>
  <2>1. FlagsOK'
    BY <1>3, Zenon DEF Inductive, TypeOK, FlagsOK
  <2>2. QED
    BY <1>3, <2>1
       DEF Inductive, TypeOK, FlagsOK, ValuesOK, RunShape, HealShape, WriteShape,
           KeyShape, ClaimBalanced, HealBounded, ImageWholeAtCheck,
           HealedMeansProvisioned, TlsBeforeSetup, GtlsOnVerifiedPsk
<1>4. QED BY <1>1, <1>2, <1>3 DEF SsmFails

----
\* Opening and closing.

\* The claim is taken or given up with the open.
LEMMA OpenKeeps == Inductive /\ Open => Inductive'
<1> SUFFICES ASSUME Inductive, Open PROVE Inductive' OBVIOUS
<1> USE DEF Open, ResetAndClaim, Fault, countVars, engineVars, hostVars, sensorVars
<1>1. FlagsOK'
  BY Zenon DEF Inductive, TypeOK, FlagsOK
<1>2. QED
  BY <1>1, OpenAssumption
     DEF Inductive, TypeOK, FlagsOK, ValuesOK, RunShape, HealShape, WriteShape,
         KeyShape, ClaimBalanced, HealBounded, ImageWholeAtCheck,
         HealedMeansProvisioned, TlsBeforeSetup, GtlsOnVerifiedPsk

\* Only an open device that is not in use is closed.
LEMMA CloseKeeps == Inductive /\ Close => Inductive'
<1> SUFFICES ASSUME Inductive, Close PROVE Inductive' OBVIOUS
<1> USE DEF Close, flagVars, countVars, engineVars, hostVars, sensorVars, histVars
<1>1. FlagsOK'
  BY Zenon DEF Inductive, TypeOK, FlagsOK
<1>2. QED
  BY <1>1, OpenAssumption
     DEF Inductive, TypeOK, FlagsOK, ValuesOK, RunShape, HealShape, WriteShape,
         KeyShape, ClaimBalanced, HealBounded, ImageWholeAtCheck,
         HealedMeansProvisioned, TlsBeforeSetup, GtlsOnVerifiedPsk

\* A reinitialization that cannot claim runs no SSM.
LEMMA ReinitKeeps == Inductive /\ Reinit => Inductive'
<1> SUFFICES ASSUME Inductive, Reinit PROVE Inductive' OBVIOUS
<1> USE DEF Reinit, ResetAndClaim, Fault, flagVars, countVars, engineVars, hostVars,
        sensorVars, histVars
<1>1. FlagsOK'
  BY Zenon DEF Inductive, TypeOK, FlagsOK
<1>2. QED
  BY <1>1, OpenAssumption
     DEF Inductive, TypeOK, FlagsOK, ValuesOK, RunShape, HealShape, WriteShape,
         KeyShape, ClaimBalanced, HealBounded, ImageWholeAtCheck,
         HealedMeansProvisioned, TlsBeforeSetup, GtlsOnVerifiedPsk

----
\* The open SSM.

\* The configuration is reached from an established handshake only.
LEMMA OpenStepKeeps == Inductive /\ OpenStep => Inductive'
<1> SUFFICES ASSUME Inductive, OpenStep PROVE Inductive' OBVIOUS
<1> USE DEF OpenStep, StepNext, Answers, flagVars, engineVars, hostVars, sensorVars,
        histVars
<1>1. FlagsOK'
  BY Zenon DEF Inductive, TypeOK, FlagsOK
<1>2. QED
  BY <1>1, OpenAssumption
     DEF Inductive, TypeOK, FlagsOK, ValuesOK, RunShape, HealShape, WriteShape,
         KeyShape, ClaimBalanced, HealBounded, ImageWholeAtCheck,
         HealedMeansProvisioned, TlsBeforeSetup, GtlsOnVerifiedPsk

\* A failed step of the open SSM changes the PSK to the all-zero one at most.
LEMMA OpenStepFailsKeeps == Inductive /\ OpenStepFails => Inductive'
<1> SUFFICES ASSUME Inductive, OpenStepFails PROVE Inductive' OBVIOUS
<1>1. runner # "NONE" /\ open_reached_tls \in BOOLEAN /\ open_reached_tls' \in BOOLEAN
  BY Zenon DEF Inductive, TypeOK, FlagsOK, ValuesOK, RunShape, OpenStepFails
<1>2. /\ mode' \in {"APP", "IAP"} /\ psk' \in {"ZERO", "OTHER"}
      /\ app' \in {"VALID", "ERASED"} /\ container' \in 0 .. 2
      /\ flashed' \in 0 .. FwLen /\ flight' \in 0 .. TlsFlights
      /\ faults' \in 0 .. MaxFaults
      /\ open_fdt_retries' \in 0 .. OPEN_FDT_MAX_RETRIES + 1
  BY OpenAssumption DEF Inductive, TypeOK, ValuesOK, OpenStepFails, FailRest, Fault
<1>3. SsmFails(open_reached_tls) /\ FailRest
  BY DEF OpenStepFails
<1>4. QED
  BY <1>1, <1>2, <1>3, FailKeeps DEF FailRest

\* On the 550c no handshake is done when the TLS engine is made.
LEMMA OtpReadKeeps == Inductive /\ OtpRead => Inductive'
<1> SUFFICES ASSUME Inductive, OtpRead PROVE Inductive' OBVIOUS
<1> USE DEF sensorVars, countVars, hostVars, histVars
<1>1. runner # "NONE" /\ open_reached_tls' \in BOOLEAN
  BY Zenon DEF Inductive, TypeOK, FlagsOK, RunShape, OtpRead
<1>2. CASE /\ IsTls => override # "BAD"
           /\ st' = IF IsTls THEN "TLS_INIT" ELSE "READ_PSK_HASH"
           /\ tls_handshake_done' = (tls_handshake_done /\ ~IsTls)
           /\ key' = LoadedKey
           /\ UNCHANGED <<phase, runner, claimed, selfheal_attempted, heal_erased,
                          psk_write_verify_pending, countVars, image, hostVars, faults,
                          outcome, histVars>>
  <2>1. /\ FlagsOK'
        /\ UNCHANGED <<phase, runner, claimed, selfheal_attempted, heal_erased,
                       psk_write_verify_pending, image>>
    BY <1>1, <1>2, Zenon DEF Inductive, TypeOK, FlagsOK
  <2>2. /\ (IsTls /\ st' = "TLS_INIT") \/ (~IsTls /\ st' = "READ_PSK_HASH")
        /\ key' \in {"ZERO", "OTHER"}
        /\ UNCHANGED <<countVars, hostVars, faults, outcome, histVars>>
    <3>1. (IsTls /\ st' = "TLS_INIT") \/ (~IsTls /\ st' = "READ_PSK_HASH")
      <4>1. st' = IF IsTls THEN "TLS_INIT" ELSE "READ_PSK_HASH" BY <1>2, Zenon
      <4>2. QED BY <4>1
    <3>2. key' \in {"ZERO", "OTHER"}
      <4>1. LoadedKey \in {"ZERO", "OTHER"} BY DEF LoadedKey
      <4>2. QED BY <1>2, <4>1, Zenon
    <3>3. QED BY <1>2, <3>1, <3>2
  <2>3. st = "READ_OTP" /\ flight' = 0 /\ UNCHANGED sensorVars
    BY Zenon DEF OtpRead
  <2>4. QED
    BY <1>1, <2>1, <2>2, <2>3, OpenAssumption
       DEF Inductive, TypeOK, FlagsOK, ValuesOK, RunShape, HealShape, WriteShape,
           KeyShape, ClaimBalanced, HealBounded, ImageWholeAtCheck,
           HealedMeansProvisioned, TlsBeforeSetup, GtlsOnVerifiedPsk
<1>3. CASE /\ IsTls
           /\ IF override = "BAD" THEN UNCHANGED faults ELSE Fault
           /\ SsmFails(TRUE)
           /\ FailRest
  <2>1. /\ flight' = 0 /\ UNCHANGED sensorVars
        /\ faults' = faults \/ Fault
    BY <1>3, Zenon DEF OtpRead
  <2>2. /\ mode' \in {"APP", "IAP"} /\ psk' \in {"ZERO", "OTHER"}
        /\ app' \in {"VALID", "ERASED"} /\ container' \in 0 .. 2
        /\ flashed' \in 0 .. FwLen /\ flight' \in 0 .. TlsFlights
        /\ faults' \in 0 .. MaxFaults
        /\ open_fdt_retries' \in 0 .. OPEN_FDT_MAX_RETRIES + 1
    BY <1>3, <2>1, OpenAssumption DEF Inductive, TypeOK, ValuesOK, FailRest, Fault
  <2>3. QED
    BY <1>1, <1>3, <2>2, FailKeeps DEF FailRest
<1>4. QED BY <1>2, <1>3, Zenon DEF OtpRead

\* The handshake is done only with the sensor's PSK.
LEMMA TlsPumpKeeps == Inductive /\ TlsPump => Inductive'
<1> SUFFICES ASSUME Inductive, TlsPump PROVE Inductive' OBVIOUS
<1> USE DEF countVars, engineVars, hostVars, sensorVars, histVars
<1>1. FlagsOK'
  BY Zenon DEF TlsPump, Inductive, TypeOK, FlagsOK
<1>2. /\ st \in {"TLS_INIT", "TLS_RECV"} /\ flight < TlsFlights /\ flight' = flight + 1
      /\ tls_handshake_done' => key = psk
      /\ \/ st' \in {"TLS_PUMP", "TLS_RECV"}
         \/ st' = "TLS_ESTABLISHED" /\ tls_handshake_done'
  <2>1. CASE flight' = TlsFlights
    BY <2>1, Zenon DEF TlsPump
  <2>2. CASE flight' # TlsFlights
    BY <2>2, Zenon DEF TlsPump
  <2>3. QED BY <2>1, <2>2
<1>3. UNCHANGED <<phase, runner, claimed, open_reached_tls, selfheal_attempted,
                  heal_erased, psk_write_verify_pending, countVars, engineVars, hostVars,
                  sensorVars, faults, outcome, histVars>>
  BY Zenon DEF TlsPump
<1>4. QED
  BY <1>1, <1>2, <1>3, OpenAssumption
     DEF Inductive, TypeOK, FlagsOK, ValuesOK, RunShape, HealShape, WriteShape,
         KeyShape, ClaimBalanced, HealBounded, ImageWholeAtCheck,
         HealedMeansProvisioned, TlsBeforeSetup, GtlsOnVerifiedPsk

\* What was sent ends the handshake only if it is done.
LEMMA TlsSentKeeps == Inductive /\ TlsSent => Inductive'
<1> SUFFICES ASSUME Inductive, TlsSent PROVE Inductive' OBVIOUS
<1> USE DEF TlsSent, AfterSend, flagVars, countVars, engineVars, hostVars, sensorVars,
        histVars
<1>1. FlagsOK'
  BY Zenon DEF Inductive, TypeOK, FlagsOK
<1>2. QED
  BY <1>1, OpenAssumption
     DEF Inductive, TypeOK, FlagsOK, ValuesOK, RunShape, HealShape, WriteShape,
         KeyShape, ClaimBalanced, HealBounded, ImageWholeAtCheck,
         HealedMeansProvisioned, TlsBeforeSetup, GtlsOnVerifiedPsk

\* A refused handshake fails the SSM and changes nothing else.
LEMMA TlsRefusedKeeps == Inductive /\ TlsRefused => Inductive'
<1> SUFFICES ASSUME Inductive, TlsRefused PROVE Inductive' OBVIOUS
<1>1. runner # "NONE" /\ open_reached_tls \in BOOLEAN /\ open_reached_tls' \in BOOLEAN
  BY Zenon DEF Inductive, TypeOK, FlagsOK, ValuesOK, RunShape, TlsRefused
<1>2. /\ mode' \in {"APP", "IAP"} /\ psk' \in {"ZERO", "OTHER"}
      /\ app' \in {"VALID", "ERASED"} /\ container' \in 0 .. 2
      /\ flashed' \in 0 .. FwLen /\ flight' \in 0 .. TlsFlights
      /\ faults' \in 0 .. MaxFaults
      /\ open_fdt_retries' \in 0 .. OPEN_FDT_MAX_RETRIES + 1
  BY DEF Inductive, TypeOK, ValuesOK, TlsRefused, FailRest, sensorVars
<1>3. SsmFails(open_reached_tls) /\ FailRest
  BY DEF TlsRefused
<1>4. QED
  BY <1>1, <1>2, <1>3, FailKeeps DEF FailRest

\* The PSK is written, and has to be verified, unless it is the all-zero one.
LEMMA PskHashReadKeeps == Inductive /\ PskHashRead => Inductive'
<1> SUFFICES ASSUME Inductive, PskHashRead PROVE Inductive' OBVIOUS
<1> USE DEF countVars, engineVars, hostVars, sensorVars, histVars
<1>1. FlagsOK'
  BY Zenon DEF PskHashRead, Verifies, Inductive, TypeOK, FlagsOK
<1>2. /\ st = "READ_PSK_HASH"
      /\ \/ psk = "ZERO" /\ st' = "GTLS_CLIENT_HELLO"
         \/ psk_write_verify_pending' /\ st' = "WRITE_PSK"
  BY Zenon DEF PskHashRead, Verifies
<1>3. UNCHANGED <<phase, runner, claimed, open_reached_tls, tls_handshake_done,
                  selfheal_attempted, heal_erased, countVars, engineVars, hostVars,
                  sensorVars, flight, faults, outcome, histVars>>
  BY Zenon DEF PskHashRead
<1>4. QED
  BY <1>1, <1>2, <1>3, OpenAssumption
     DEF Inductive, TypeOK, FlagsOK, ValuesOK, RunShape, HealShape, WriteShape,
         KeyShape, ClaimBalanced, HealBounded, ImageWholeAtCheck,
         HealedMeansProvisioned, TlsBeforeSetup, GtlsOnVerifiedPsk

\* Whether the write takes or not, it is still to be verified.
LEMMA PskWrittenKeeps == Inductive /\ PskWritten => Inductive'
<1> SUFFICES ASSUME Inductive, PskWritten PROVE Inductive' OBVIOUS
<1> USE DEF PskWritten, flagVars, countVars, engineVars, hostVars, histVars
<1>1. FlagsOK'
  BY Zenon DEF Inductive, TypeOK, FlagsOK
<1>2. QED
  BY <1>1, OpenAssumption
     DEF Inductive, TypeOK, FlagsOK, ValuesOK, RunShape, HealShape, WriteShape,
         KeyShape, ClaimBalanced, HealBounded, ImageWholeAtCheck,
         HealedMeansProvisioned, TlsBeforeSetup, GtlsOnVerifiedPsk

\* The GTLS handshake starts with the PSK read back as the all-zero one.
LEMMA PskVerifiedKeeps == Inductive /\ PskVerified => Inductive'
<1> SUFFICES ASSUME Inductive, PskVerified PROVE Inductive' OBVIOUS
<1> USE DEF countVars, engineVars, hostVars, sensorVars, histVars
<1>1. CASE /\ psk_write_verify_pending => psk = "ZERO"
           /\ st' = "GTLS_CLIENT_HELLO" /\ psk_write_verify_pending' = FALSE
           /\ UNCHANGED <<phase, runner, claimed, tls_handshake_done,
                          selfheal_attempted, heal_erased, countVars, engineVars,
                          hostVars, outcome, histVars>>
  <2>1. FlagsOK'
    BY <1>1, Zenon DEF PskVerified, Inductive, TypeOK, FlagsOK
  <2>2. st = "VERIFY_PSK_WRITE" /\ UNCHANGED <<sensorVars, flight, faults>>
    BY DEF PskVerified
  <2>3. QED
    BY <1>1, <2>1, <2>2, OpenAssumption
       DEF Inductive, TypeOK, FlagsOK, ValuesOK, RunShape, HealShape, WriteShape,
           KeyShape, ClaimBalanced, HealBounded, ImageWholeAtCheck,
           HealedMeansProvisioned, TlsBeforeSetup, GtlsOnVerifiedPsk
<1>2. CASE SsmFails(open_reached_tls) /\ FailRest
  <2>1. runner # "NONE" /\ open_reached_tls \in BOOLEAN /\ open_reached_tls' \in BOOLEAN
    BY Zenon DEF Inductive, TypeOK, FlagsOK, ValuesOK, RunShape, PskVerified
  <2>2. /\ mode' \in {"APP", "IAP"} /\ psk' \in {"ZERO", "OTHER"}
        /\ app' \in {"VALID", "ERASED"} /\ container' \in 0 .. 2
        /\ flashed' \in 0 .. FwLen /\ flight' \in 0 .. TlsFlights
        /\ faults' \in 0 .. MaxFaults
        /\ open_fdt_retries' \in 0 .. OPEN_FDT_MAX_RETRIES + 1
    BY <1>2 DEF Inductive, TypeOK, ValuesOK, PskVerified, FailRest
  <2>3. QED
    BY <1>2, <2>1, <2>2, FailKeeps DEF FailRest
<1>3. QED BY <1>1, <1>2, Zenon DEF PskVerified

\* The FDT readings are repeated at most OPEN_FDT_MAX_RETRIES times.
LEMMA FdtReadKeeps == Inductive /\ FdtRead => Inductive'
<1> SUFFICES ASSUME Inductive, FdtRead PROVE Inductive' OBVIOUS
<1> USE DEF countVars, engineVars, hostVars, sensorVars, histVars
<1>1. /\ st = "FDT_TX_ON_2" /\ runner # "NONE"
      /\ UNCHANGED <<open_reached_tls, sensorVars, flight, faults>>
  BY Zenon DEF Inductive, RunShape, FdtRead
<1>2. CASE /\ st' \in {"SLEEP", "FDT_TX_ON_2"}
           /\ \/ open_fdt_retries' = open_fdt_retries
              \/ RetriesLeft /\ open_fdt_retries' = CountRetry
           /\ UNCHANGED <<phase, runner, claimed, tls_handshake_done,
                          selfheal_attempted, heal_erased, psk_write_verify_pending,
                          heal_fw_offset, engineVars, hostVars, outcome, histVars>>
  <2>1. FlagsOK'
    BY <1>1, <1>2, Zenon DEF Inductive, TypeOK, FlagsOK
  <2>2. QED
    BY <1>1, <1>2, <2>1, OpenAssumption
       DEF RetriesLeft, CountRetry, Inductive, TypeOK, FlagsOK, ValuesOK, RunShape,
           HealShape, WriteShape, KeyShape, ClaimBalanced, HealBounded,
           ImageWholeAtCheck, HealedMeansProvisioned, TlsBeforeSetup, GtlsOnVerifiedPsk
<1>3. CASE /\ ~RetriesLeft
           /\ open_fdt_retries' = open_fdt_retries + 1
           /\ SsmFails(open_reached_tls)
           /\ UNCHANGED <<tls_handshake_done, psk_write_verify_pending, key, hostVars,
                          histVars>>
  <2>1. open_reached_tls \in BOOLEAN /\ open_reached_tls' \in BOOLEAN
    BY <1>1, Zenon DEF Inductive, TypeOK, FlagsOK
  <2>2. /\ mode' \in {"APP", "IAP"} /\ psk' \in {"ZERO", "OTHER"}
        /\ app' \in {"VALID", "ERASED"} /\ container' \in 0 .. 2
        /\ flashed' \in 0 .. FwLen /\ flight' \in 0 .. TlsFlights
        /\ faults' \in 0 .. MaxFaults
        /\ open_fdt_retries' \in 0 .. OPEN_FDT_MAX_RETRIES + 1
    BY <1>1, <1>3 DEF Inductive, TypeOK, ValuesOK, RunShape, RetriesLeft
  <2>3. QED
    BY <1>1, <1>3, <2>1, <2>2, FailKeeps
<1>4. QED
  <2>1. \/ st' = "SLEEP" /\ UNCHANGED countVars
        \/ st' = st /\ RetriesLeft /\ open_fdt_retries' = CountRetry
              /\ UNCHANGED heal_fw_offset
        \/ ~RetriesLeft /\ open_fdt_retries' = open_fdt_retries + 1
              /\ SsmFails(open_reached_tls)
    BY Zenon DEF FdtRead
  <2>2. QED BY <1>1, <1>2, <1>3, Zenon DEF FdtRead

\* The open completes with the interface, a reinitialization keeps it.
LEMMA OpenedKeeps == Inductive /\ Opened => Inductive'
<1> SUFFICES ASSUME Inductive, Opened PROVE Inductive' OBVIOUS
<1> USE DEF flagVars, countVars, engineVars, hostVars, sensorVars, histVars
<1>1. /\ st = "SLEEP" /\ runner' = "NONE" /\ st' = "NONE" /\ claimed' = claimed
      /\ \/ runner = "OPEN" /\ phase' = "OPEN" /\ outcome' = "OK"
         \/ runner # "OPEN" /\ UNCHANGED <<phase, outcome>>
  <2>1. CASE runner = "OPEN"
    <3>1. claimed' = claimed
      BY <2>1, Zenon DEF Opened, EndOpen, Inductive, TypeOK, FlagsOK
    <3>2. /\ st = "SLEEP" /\ runner' = "NONE" /\ st' = "NONE"
          /\ phase' = "OPEN" /\ outcome' = "OK"
      BY <2>1, Zenon DEF Opened, EndOpen
    <3>3. QED BY <2>1, <3>1, <3>2
  <2>2. CASE runner # "OPEN"
    BY <2>2, Zenon DEF Opened
  <2>3. QED BY <2>1, <2>2
<1>2. UNCHANGED <<flagVars, countVars, engineVars, hostVars, sensorVars, flight, faults,
                  histVars>>
  BY Zenon DEF Opened
<1>3. FlagsOK'
  BY <1>1, <1>2, Zenon DEF Inductive, TypeOK, FlagsOK
<1>4. QED
  BY <1>1, <1>2, <1>3, OpenAssumption
     DEF Inductive, TypeOK, FlagsOK, ValuesOK, RunShape, HealShape, WriteShape,
         KeyShape, ClaimBalanced, HealBounded, ImageWholeAtCheck,
         HealedMeansProvisioned, TlsBeforeSetup, GtlsOnVerifiedPsk

----
\* The self-heal SSM.

\* What a command may do to the sensor, done or not, keeps its types.
LEMMA EffectTyped ==
  ASSUME Inductive, Effect \/ UNCHANGED sensorVars
  PROVE  /\ mode' \in {"APP", "IAP"} /\ psk' \in {"ZERO", "OTHER"}
         /\ app' \in {"VALID", "ERASED"} /\ container' \in 0 .. 2
         /\ flashed' \in 0 .. FwLen
BY OpenAssumption DEF Inductive, TypeOK, ValuesOK, ImageWholeAtCheck, WriteShape, Effect,
   Erase, WriteContainer, WriteFw, ChunkLen, Commit, Restart, sensorVars

\* A heal step that fails, whatever it did to the sensor.
LEMMA HealFailsKeeps ==
  ASSUME Inductive, runner = "HEAL", HealFails, Effect \/ UNCHANGED sensorVars,
         faults' = faults \/ Fault
  PROVE  Inductive'
<1>1. open_reached_tls \in BOOLEAN /\ open_reached_tls' \in BOOLEAN
  BY Zenon DEF Inductive, TypeOK, FlagsOK, HealFails
<1>2. /\ flight' \in 0 .. TlsFlights /\ faults' \in 0 .. MaxFaults
      /\ open_fdt_retries' \in 0 .. OPEN_FDT_MAX_RETRIES + 1
  BY OpenAssumption DEF Inductive, TypeOK, ValuesOK, HealFails, FailRest, Fault
<1>3. SsmFails(open_reached_tls) /\ FailRest
  BY DEF HealFails
<1>4. QED
  BY <1>1, <1>2, <1>3, EffectTyped, FailKeeps DEF FailRest

\* The retry in place is the second and last open SSM of a request.
LEMMA HealRetryOpenKeeps == Inductive /\ HealRetryOpen => Inductive'
<1> SUFFICES ASSUME Inductive, HealRetryOpen PROVE Inductive' OBVIOUS
<1> USE DEF HealRetryOpen, Relaunch, ResetAndClaim, Fault, countVars, engineVars,
        hostVars, sensorVars
<1>1. FlagsOK'
  BY Zenon DEF Inductive, TypeOK, FlagsOK
<1>2. QED
  BY <1>1, OpenAssumption
     DEF Inductive, TypeOK, FlagsOK, ValuesOK, RunShape, HealShape, WriteShape,
         KeyShape, ClaimBalanced, HealBounded, ImageWholeAtCheck,
         HealedMeansProvisioned, TlsBeforeSetup, GtlsOnVerifiedPsk

\* Nothing is changed before the mode is known.
LEMMA HealNeededKeeps == Inductive /\ HealNeeded => Inductive'
<1> SUFFICES ASSUME Inductive, HealNeeded PROVE Inductive' OBVIOUS
<1> USE DEF HealNeeded, HealGoto, engineVars, hostVars, sensorVars
<1>1. FlagsOK'
  BY Zenon DEF Inductive, TypeOK, FlagsOK
<1>2. QED
  BY <1>1, OpenAssumption
     DEF Inductive, TypeOK, FlagsOK, ValuesOK, RunShape, HealShape, WriteShape,
         KeyShape, ClaimBalanced, HealBounded, ImageWholeAtCheck,
         HealedMeansProvisioned, TlsBeforeSetup, GtlsOnVerifiedPsk

\* The erase is the first and only one of a request.
LEMMA HealDecideModeKeeps == Inductive /\ HealDecideMode => Inductive'
<1> SUFFICES ASSUME Inductive, HealDecideMode PROVE Inductive' OBVIOUS
<1> USE DEF sensorVars, engineVars, hostVars
<1>1. st = "HEAL_READ_FW_VERSION" /\ runner = "HEAL" /\ UNCHANGED <<sensorVars, faults>>
  BY DEF Inductive, RunShape, HealDecideMode
<1>2. CASE /\ HealGoto("HEAL_CONTAINER_WRITE1")
           /\ UNCHANGED <<heal_erased, heal_fw_offset, erases>>
  <2>1. FlagsOK'
    BY <1>2, Zenon DEF HealGoto, Inductive, TypeOK, FlagsOK
  <2>2. QED
    BY <1>1, <1>2, <2>1, OpenAssumption
       DEF HealGoto, Inductive, TypeOK, FlagsOK, ValuesOK, RunShape, HealShape,
           WriteShape, KeyShape, ClaimBalanced, HealBounded, ImageWholeAtCheck,
           HealedMeansProvisioned, TlsBeforeSetup, GtlsOnVerifiedPsk
<1>3. CASE /\ Erasable /\ heal_erased' = TRUE /\ erases' = erases + 1
           /\ HealGoto("HEAL_ERASE_APP")
           /\ UNCHANGED heal_fw_offset
  <2>1. FlagsOK'
    BY <1>3, Zenon DEF HealGoto, Inductive, TypeOK, FlagsOK
  <2>2. QED
    BY <1>1, <1>3, <2>1, OpenAssumption
       DEF HealGoto, Erasable, Inductive, TypeOK, FlagsOK, ValuesOK, RunShape,
           HealShape, WriteShape, KeyShape, ClaimBalanced, HealBounded,
           ImageWholeAtCheck, HealedMeansProvisioned, TlsBeforeSetup, GtlsOnVerifiedPsk
<1>4. CASE HealFails
  BY <1>1, <1>4, HealFailsKeeps
<1>5. QED BY <1>2, <1>3, <1>4, Zenon DEF HealDecideMode

\* An erase that takes leaves nothing of an earlier image.
LEMMA HealErasedKeeps == Inductive /\ HealErased => Inductive'
<1> SUFFICES ASSUME Inductive, HealErased PROVE Inductive' OBVIOUS
<1> USE DEF HealErased, HealGoto, Effect, Erase, engineVars, hostVars, sensorVars
<1>1. FlagsOK'
  BY Zenon DEF Inductive, TypeOK, FlagsOK
<1>2. QED
  BY <1>1, OpenAssumption
     DEF Inductive, TypeOK, FlagsOK, ValuesOK, RunShape, HealShape, WriteShape,
         KeyShape, ClaimBalanced, HealBounded, ImageWholeAtCheck,
         HealedMeansProvisioned, TlsBeforeSetup, GtlsOnVerifiedPsk

\* The heal goes on only with the interface claimed again.
LEMMA HealReclaimKeeps == Inductive /\ HealReclaim => Inductive'
<1> SUFFICES ASSUME Inductive, HealReclaim PROVE Inductive' OBVIOUS
<1>1. st = "HEAL_ERASE_SETTLE" /\ runner = "HEAL" /\ UNCHANGED sensorVars
  BY DEF Inductive, RunShape, HealReclaim
<1>2. CASE /\ HealGoto("HEAL_READ_FW_VERSION")
           /\ UNCHANGED <<heal_erased, heal_fw_offset, faults, erases>>
  <2>1. FlagsOK'
    BY <1>2, Zenon DEF HealGoto, engineVars, Inductive, TypeOK, FlagsOK
  <2>2. QED
    BY <1>1, <1>2, <2>1, OpenAssumption
       DEF HealGoto, sensorVars, engineVars, hostVars, Inductive, TypeOK, FlagsOK,
           ValuesOK, RunShape, HealShape, WriteShape, KeyShape, ClaimBalanced,
           HealBounded, ImageWholeAtCheck, HealedMeansProvisioned, TlsBeforeSetup,
           GtlsOnVerifiedPsk
<1>3. CASE Fault /\ HealFails
  BY <1>1, <1>3, HealFailsKeeps
<1>4. QED BY <1>2, <1>3, Zenon DEF HealReclaim

\* The image is begun with the whole container written.
LEMMA HealContainerKeeps == Inductive /\ HealContainer => Inductive'
<1> SUFFICES ASSUME Inductive, HealContainer PROVE Inductive' OBVIOUS
<1> USE DEF HealContainer, HealGoto, Effect, WriteContainer, NextWrite, engineVars,
        hostVars, sensorVars
<1>1. FlagsOK'
  BY Zenon DEF Inductive, TypeOK, FlagsOK
<1>2. QED
  BY <1>1, OpenAssumption
     DEF Inductive, TypeOK, FlagsOK, ValuesOK, RunShape, HealShape, WriteShape,
         KeyShape, ClaimBalanced, HealBounded, ImageWholeAtCheck,
         HealedMeansProvisioned, TlsBeforeSetup, GtlsOnVerifiedPsk

\* After the last chunk, a partial one included, every byte is written.
LEMMA HealWriteFwKeeps == Inductive /\ HealWriteFw => Inductive'
<1> SUFFICES ASSUME Inductive, HealWriteFw PROVE Inductive' OBVIOUS
<1> USE DEF HealWriteFw, HealGoto, Effect, WriteFw, NextWrite, ChunkLen, engineVars,
        hostVars, sensorVars
<1>1. FlagsOK'
  BY Zenon DEF Inductive, TypeOK, FlagsOK
<1>2. QED
  BY <1>1, OpenAssumption
     DEF Inductive, TypeOK, FlagsOK, ValuesOK, RunShape, HealShape, WriteShape,
         KeyShape, ClaimBalanced, HealBounded, ImageWholeAtCheck,
         HealedMeansProvisioned, TlsBeforeSetup, GtlsOnVerifiedPsk

\* The check that succeeds has committed the all-zero PSK and a valid image.
LEMMA HealCheckFwKeeps == Inductive /\ HealCheckFw => Inductive'
<1> SUFFICES ASSUME Inductive, HealCheckFw PROVE Inductive' OBVIOUS
<1>1. st = "HEAL_CHECK_FW" /\ runner = "HEAL"
  BY DEF Inductive, RunShape, HealCheckFw
<1>2. CASE /\ Effect
           /\ HealGoto("HEAL_RESET_MCU")
           /\ UNCHANGED <<heal_erased, heal_fw_offset, erases, faults>>
  <2>1. FlagsOK'
    BY <1>2, Zenon DEF HealGoto, engineVars, Inductive, TypeOK, FlagsOK
  <2>2. QED
    BY <1>1, <1>2, <2>1, OpenAssumption
       DEF HealGoto, Effect, Commit, engineVars, hostVars, Inductive, TypeOK, FlagsOK,
           ValuesOK, RunShape, HealShape, WriteShape, KeyShape, ClaimBalanced,
           HealBounded, ImageWholeAtCheck, HealedMeansProvisioned, TlsBeforeSetup,
           GtlsOnVerifiedPsk
<1>3. CASE Fault /\ UNCHANGED sensorVars /\ HealFails
  BY <1>1, <1>3, HealFailsKeeps
<1>4. QED BY <1>2, <1>3, Zenon DEF HealCheckFw, CheckRefused

\* The reset of a sensor with a valid image starts its application.
LEMMA HealResetMcuKeeps == Inductive /\ HealResetMcu => Inductive'
<1> SUFFICES ASSUME Inductive, HealResetMcu PROVE Inductive' OBVIOUS
<1> USE DEF HealResetMcu, HealGoto, Effect, Restart, engineVars, hostVars, sensorVars
<1>1. FlagsOK'
  BY Zenon DEF Inductive, TypeOK, FlagsOK
<1>2. QED
  BY <1>1, OpenAssumption
     DEF Inductive, TypeOK, FlagsOK, ValuesOK, RunShape, HealShape, WriteShape,
         KeyShape, ClaimBalanced, HealBounded, ImageWholeAtCheck,
         HealedMeansProvisioned, TlsBeforeSetup, GtlsOnVerifiedPsk

\* The heal ends the open, with the sensor provisioned.
LEMMA HealedKeeps == Inductive /\ Healed => Inductive'
<1> SUFFICES ASSUME Inductive, Healed PROVE Inductive' OBVIOUS
<1> USE DEF flagVars, countVars, engineVars, hostVars, sensorVars, histVars
<1>1. FlagsOK' /\ claimed' = FALSE
  BY Zenon DEF Healed, EndOpen, Inductive, TypeOK, FlagsOK
<1>2. /\ st = "HEAL_RESET_SETTLE" /\ phase' = "CLOSED" /\ runner' = "NONE" /\ st' = "NONE"
      /\ outcome' = "REMOVED"
  BY DEF Healed, EndOpen
<1>3. UNCHANGED <<flagVars, countVars, engineVars, hostVars, sensorVars, flight, faults,
                  histVars>>
  BY DEF Healed
<1>4. QED
  BY <1>1, <1>2, <1>3, OpenAssumption
     DEF Inductive, TypeOK, FlagsOK, ValuesOK, RunShape, HealShape, WriteShape,
         KeyShape, ClaimBalanced, HealBounded, ImageWholeAtCheck,
         HealedMeansProvisioned, TlsBeforeSetup, GtlsOnVerifiedPsk

\* A command that fails may have reached the sensor.
LEMMA HealCommandFailsKeeps == Inductive /\ HealCommandFails => Inductive'
<1> SUFFICES ASSUME Inductive, HealCommandFails PROVE Inductive' OBVIOUS
<1>1. runner = "HEAL"
  BY DEF Inductive, RunShape, HealCommandFails
<1>2. QED
  BY <1>1, HealFailsKeeps DEF HealCommandFails

----
\* The environment, and every step together.

\* The operator's files change only between heals.
LEMMA ConfigureKeeps == Inductive /\ Configure => Inductive'
<1> SUFFICES ASSUME Inductive, Configure PROVE Inductive' OBVIOUS
<1> USE DEF Configure, flagVars, countVars, engineVars, sensorVars, histVars
<1>1. FlagsOK'
  BY Zenon DEF Inductive, TypeOK, FlagsOK
<1>2. QED
  BY <1>1, OpenAssumption
     DEF Inductive, TypeOK, FlagsOK, ValuesOK, RunShape, HealShape, WriteShape,
         KeyShape, ClaimBalanced, HealBounded, ImageWholeAtCheck,
         HealedMeansProvisioned, TlsBeforeSetup, GtlsOnVerifiedPsk

\* The end of the daemon releases the interface and forgets its state.
LEMMA CrashKeeps == Inductive /\ Crash => Inductive'
<1> SUFFICES ASSUME Inductive, Crash PROVE Inductive' OBVIOUS
<1> USE DEF Crash, Fault, Restart, hostVars, sensorVars
<1>1. FlagsOK'
  BY Zenon DEF Inductive, TypeOK, FlagsOK
<1>2. QED
  BY <1>1, OpenAssumption
     DEF Inductive, TypeOK, FlagsOK, ValuesOK, RunShape, HealShape, WriteShape,
         KeyShape, ClaimBalanced, HealBounded, ImageWholeAtCheck,
         HealedMeansProvisioned, TlsBeforeSetup, GtlsOnVerifiedPsk

\* Stuttering changes nothing the invariant speaks about.
LEMMA StutterKeeps == Inductive /\ UNCHANGED vars => Inductive'
<1> SUFFICES ASSUME Inductive, UNCHANGED vars PROVE Inductive' OBVIOUS
<1> USE DEF vars, flagVars, countVars, engineVars, hostVars, sensorVars, histVars
<1>1. FlagsOK'
  BY Zenon DEF Inductive, TypeOK, FlagsOK
<1>2. QED
  BY <1>1
     DEF Inductive, TypeOK, FlagsOK, ValuesOK, RunShape, HealShape, WriteShape,
         KeyShape, ClaimBalanced, HealBounded, ImageWholeAtCheck,
         HealedMeansProvisioned, TlsBeforeSetup, GtlsOnVerifiedPsk

\* The invariant is inductive.
LEMMA NextInductive == Inductive /\ [Next]_vars => Inductive'
BY OpenKeeps, CloseKeeps, ReinitKeeps, OpenStepKeeps, OpenStepFailsKeeps, OtpReadKeeps,
   TlsPumpKeeps, TlsSentKeeps, TlsRefusedKeeps, PskHashReadKeeps, PskWrittenKeeps,
   PskVerifiedKeeps, FdtReadKeeps, OpenedKeeps, HealRetryOpenKeeps, HealNeededKeeps,
   HealDecideModeKeeps, HealErasedKeeps, HealReclaimKeeps, HealContainerKeeps,
   HealWriteFwKeeps, HealCheckFwKeeps, HealResetMcuKeeps, HealedKeeps,
   HealCommandFailsKeeps, ConfigureKeeps, CrashKeeps, StutterKeeps, Zenon
   DEF Next, OpenSsm, HealSsm

----
\* Every reachable state satisfies the invariant.
THEOREM OpenInvariant == Spec => []Inductive
BY InitInductive, NextInductive, PTL DEF Spec

\* Type correctness, the bound on the FDT retries included.
THEOREM OpenTypeOK == Spec => []TypeOK
<1>1. Inductive => TypeOK BY DEF Inductive
<1>2. QED BY <1>1, OpenInvariant, PTL

\* The interface is held exactly as long as it may be used, whichever error path
\* the open, the heal or a reinitialization takes.
THEOREM ClaimIsBalanced == Spec => []ClaimBalanced
<1>1. Inductive => ClaimBalanced BY DEF Inductive
<1>2. QED BY <1>1, OpenInvariant, PTL

\* One open request launches at most two open SSMs and sends at most one erase.
THEOREM HealIsBounded == Spec => []HealBounded
<1>1. Inductive => HealBounded BY DEF Inductive
<1>2. QED BY <1>1, OpenInvariant, PTL

\* Whatever the length of the image and of its chunks, the check finds the whole
\* image and both container chunks.
THEOREM HealIsComplete == Spec => []ImageWholeAtCheck
<1>1. Inductive => ImageWholeAtCheck BY DEF Inductive
<1>2. QED BY <1>1, OpenInvariant, PTL

\* A reprovisioning is reported of a provisioned sensor only.
THEOREM HealIsReal == Spec => []HealedMeansProvisioned
<1>1. Inductive => HealedMeansProvisioned BY DEF Inductive
<1>2. QED BY <1>1, OpenInvariant, PTL

\* The 550c is set up only behind a handshake with its own PSK.
THEOREM TlsHandshakeIsVerified == Spec => []TlsBeforeSetup
<1>1. Inductive => TlsBeforeSetup BY DEF Inductive
<1>2. QED BY <1>1, OpenInvariant, PTL

\* The GTLS handshake starts only on a sensor verified to have the all-zero PSK.
THEOREM GtlsPskIsVerified == Spec => []GtlsOnVerifiedPsk
<1>1. Inductive => GtlsOnVerifiedPsk BY DEF Inductive
<1>2. QED BY <1>1, OpenInvariant, PTL

\* On a 550c only a heal's commands change the application or the PSK.
LEMMA OnlyHealWrites ==
  ASSUME Inductive, [Next]_vars, IsTls, runner # "HEAL"
  PROVE  app' = app /\ psk' = psk
<1> USE DEF flagVars, countVars, engineVars, hostVars, sensorVars, histVars
<1>1. st \notin HealStates /\ st \notin PskStates
  BY DEF Inductive, RunShape
<1>2. CASE Open \/ Close \/ Reinit \/ Configure \/ Crash
  BY <1>2 DEF Open, Close, Reinit, Configure, Crash, Restart
<1>3. CASE OpenStep \/ OpenStepFails \/ OtpRead
  BY <1>1, <1>3 DEF OpenStep, OpenStepFails, OtpRead
<1>4. CASE TlsPump
  BY <1>4, Zenon DEF TlsPump
<1>5. CASE TlsSent \/ TlsRefused \/ FdtRead \/ Opened
  BY <1>5 DEF TlsSent, TlsRefused, FdtRead, Opened
<1>6. CASE PskHashRead \/ PskWritten \/ PskVerified
  <2>1. st \in PskStates
    BY <1>6, Zenon DEF PskHashRead, PskWritten, PskVerified, PskStates
  <2>2. QED BY <1>1, <2>1
<1>7. CASE HealSsm
  <2>1. st \in HealStates
    BY <1>7 DEF HealSsm, HealRetryOpen, HealNeeded, HealDecideMode, HealErased,
       HealReclaim,
       HealContainer, HealWriteFw, HealCheckFw, HealResetMcu, Healed, HealCommandFails
  <2>2. QED BY <1>1, <2>1
<1>8. CASE UNCHANGED vars
  BY <1>8 DEF vars
<1>9. QED
  BY <1>2, <1>3, <1>4, <1>5, <1>6, <1>7, <1>8, Zenon DEF Next, OpenSsm

\* No step changes a 550c's application or PSK but those of a heal, which runs
\* without an override, with the verified image, and after no handshake.
THEOREM WritesAreConsented == Spec => SensorWritesConsented
<1>1. Inductive /\ [Next]_vars =>
        (IsTls /\ (app' # app \/ psk' # psk)
           => runner = "HEAL" /\ override = "NONE" /\ image /\ ~tls_handshake_done)
  <2> SUFFICES ASSUME Inductive, [Next]_vars, IsTls, app' # app \/ psk' # psk
               PROVE  runner = "HEAL" /\ override = "NONE" /\ image /\ ~tls_handshake_done
    OBVIOUS
  <2>1. runner = "HEAL" BY OnlyHealWrites
  <2>2. QED BY <2>1, Zenon DEF Inductive, HealShape
<1>2. QED
  BY <1>1, OpenInvariant, PTL DEF Spec, SensorWritesConsented

----
\* How many steps an SSM has left.

\* What is left beside the running SSM does not count when steps are compared.
LEMMA FewerSteps ==
  ASSUME NEW a \in Nat, NEW b \in Nat \ {0}, b < a, NEW k \in Nat,
         NEW x, x = a + k, NEW y, y = b + k
  PROVE  y \in 1 .. x - 1
OBVIOUS

\* The length of a whole run is positive.
LEMMA WholeRuns == WholeOpen \in Nat \ {0} /\ WholeHeal \in Nat \ {0}
BY OpenAssumption DEF WholeOpen, WholeHeal, OpenRank

\* The SSM that runs has a step left, and no more than a whole run of it.
LEMMA LeftRange ==
  Inductive => /\ runner \in {"OPEN", "REINIT"} => OpenLeft \in 1 .. WholeOpen
               /\ runner = "HEAL" => HealLeft \in 1 .. WholeHeal
<1> SUFFICES ASSUME Inductive
             PROVE  /\ runner \in {"OPEN", "REINIT"} => OpenLeft \in 1 .. WholeOpen
                    /\ runner = "HEAL" => HealLeft \in 1 .. WholeHeal
  OBVIOUS
<1>1. /\ flight \in 0 .. TlsFlights /\ TlsFlights \in Nat \ {0} /\ FwLen \in Nat \ {0}
      /\ open_fdt_retries \in Nat /\ heal_fw_offset \in Nat
      /\ st = "FDT_TX_ON_2" => open_fdt_retries <= OPEN_FDT_MAX_RETRIES
      /\ st = "HEAL_WRITE_FW_SEND" => heal_fw_offset < FwLen
  BY OpenAssumption DEF Inductive, TypeOK, ValuesOK, RunShape, WriteShape
<1>2. ASSUME runner \in {"OPEN", "REINIT"} PROVE OpenLeft \in 1 .. WholeOpen
  <2>1. st \in OpenStates BY <1>2 DEF Inductive, TypeOK, ValuesOK, RunShape
  <2>2. CASE st \in Greeting
    BY <1>1, <2>2 DEF OpenLeft, OpenRank, PacksLeft, FdtReadsLeft, WholeOpen
  <2>3. CASE st \in PskStates
    BY <1>1, <2>3 DEF OpenLeft, OpenRank, PacksLeft, FdtReadsLeft, WholeOpen
  <2>4. CASE st \in GtlsStates
    BY <1>1, <2>4 DEF OpenLeft, OpenRank, PacksLeft, FdtReadsLeft, WholeOpen
  <2>5. CASE st \in TlsStates
    BY <1>1, <2>5 DEF OpenLeft, OpenRank, PacksLeft, FdtReadsLeft, WholeOpen
  <2>6. CASE st \in SetupStates
    BY <1>1, <2>6 DEF OpenLeft, OpenRank, PacksLeft, FdtReadsLeft, WholeOpen
  <2> QED BY <2>1, <2>2, <2>3, <2>4, <2>5, <2>6
<1>3. ASSUME runner = "HEAL" PROVE HealLeft \in 1 .. WholeHeal
  BY <1>1 DEF HealLeft, WholeHeal
<1> QED BY <1>2, <1>3

\* An open SSM that fails with no heal before it has the heal and one more open left.
LEMMA FailLeft ==
  ASSUME Inductive, Inductive', NEW reached, SsmFails(reached), runner' # "NONE"
  PROVE  StepsLeft' \in 1 .. StepsLeft - 1
<1>1. runner = "OPEN" /\ ~selfheal_attempted /\ runner' = "HEAL"
      /\ st' = "HEAL_READ_PSK_HASH"
  BY DEF SsmFails, CanHeal, StartHeal, EndOpen
<1>2. OpenLeft \in 1 .. WholeOpen BY <1>1, LeftRange
<1>3. StepsLeft = OpenLeft + WholeHeal + WholeOpen BY <1>1 DEF StepsLeft
<1>4. StepsLeft' = WholeHeal + WholeOpen
  BY <1>1 DEF StepsLeft, HealLeft, WholeHeal, WholeOpen
<1>5. PICK a, b, c : a = OpenLeft /\ b = WholeHeal /\ c = WholeOpen OBVIOUS
<1>6. PICK x, y : x = StepsLeft /\ y = StepsLeft' OBVIOUS
<1>7. a \in 1 .. c /\ b \in Nat \ {0} /\ c \in Nat \ {0} BY <1>2, <1>5, WholeRuns
<1>8. x = a + b + c /\ y = b + c BY <1>3, <1>4, <1>5, <1>6
<1>9. y \in 1 .. x - 1 BY <1>7, <1>8
<1> QED BY <1>6, <1>9

\* A step that the open SSM goes on from.
LEMMA OpenGoesOn ==
  ASSUME Inductive, Inductive', runner \in {"OPEN", "REINIT"},
         UNCHANGED <<runner, selfheal_attempted>>, OpenLeft' < OpenLeft
  PROVE  StepsLeft' \in 1 .. StepsLeft - 1
<1>1. OpenLeft \in 1 .. WholeOpen BY LeftRange
<1>2. (Inductive => (runner \in {"OPEN", "REINIT"} => OpenLeft \in 1 .. WholeOpen))'
  BY LeftRange, PTL
<1>3. OpenLeft' \in Nat \ {0}
  <2>1. OpenLeft' \in 1 .. WholeOpen' BY <1>2
  <2>2. WholeOpen' = WholeOpen BY DEF WholeOpen, OpenRank
  <2> QED BY <2>1, <2>2, WholeRuns
<1>4. WholeHeal \in Nat /\ WholeOpen \in Nat BY WholeRuns
<1>5. CASE runner = "OPEN" /\ ~selfheal_attempted
  <2>1. StepsLeft = OpenLeft + (WholeHeal + WholeOpen)
    BY <1>1, <1>4, <1>5 DEF StepsLeft
  <2>2. StepsLeft' = OpenLeft' + (WholeHeal + WholeOpen)
    BY <1>3, <1>4, <1>5 DEF StepsLeft, WholeHeal, WholeOpen
  <2>3. OpenLeft \in Nat /\ WholeHeal + WholeOpen \in Nat BY <1>1, <1>4
  <2> QED BY <1>3, <2>1, <2>2, <2>3, FewerSteps, Zenon
<1>6. CASE runner = "REINIT" \/ selfheal_attempted
  <2>1. OpenLeft \in Nat BY <1>1, <1>4
  <2>2. StepsLeft = OpenLeft BY <1>6, <2>1 DEF StepsLeft
  <2>3. StepsLeft' = OpenLeft' BY <1>6 DEF StepsLeft
  <2>4. OpenLeft' \in 1 .. OpenLeft - 1 BY <1>3, <2>1
  <2> QED BY <2>2, <2>3, <2>4
<1> QED BY <1>5, <1>6

\* A step that the heal SSM goes on from.
LEMMA HealGoesOn ==
  ASSUME Inductive, Inductive', runner = "HEAL", UNCHANGED runner, HealLeft' < HealLeft
  PROVE  StepsLeft' \in 1 .. StepsLeft - 1
<1>1. HealLeft \in 1 .. WholeHeal BY LeftRange
<1>2. (Inductive => (runner = "HEAL" => HealLeft \in 1 .. WholeHeal))'
  BY LeftRange, PTL
<1>3. HealLeft' \in Nat \ {0}
  <2>1. HealLeft' \in 1 .. WholeHeal' BY <1>2
  <2> QED BY <2>1, OpenAssumption DEF WholeHeal
<1>4. StepsLeft = HealLeft + WholeOpen BY DEF StepsLeft
<1>5. StepsLeft' = HealLeft' + WholeOpen BY DEF StepsLeft, WholeOpen
<1>6. WholeHeal \in Nat /\ WholeOpen \in Nat BY WholeRuns
<1> QED
  <2>1. HealLeft \in Nat BY <1>1, <1>6
  <2> QED BY <1>3, <1>4, <1>5, <1>6, <2>1, FewerSteps, Zenon

\* Every step of the open SSM is one of those.
LEMMA OpenSsmLeft ==
  ASSUME Inductive, Inductive', OpenSsm, runner' # "NONE"
  PROVE  StepsLeft' \in 1 .. StepsLeft - 1
<1> USE DEF flagVars, countVars, engineVars, hostVars, sensorVars, histVars
<1>1. /\ flight \in 0 .. TlsFlights /\ TlsFlights \in Nat \ {0}
      /\ open_fdt_retries \in Nat
      /\ st \in {"UPLOAD_CONFIG", "FDT_TX_ON", "FDT_TX_ON_2"}
           => open_fdt_retries <= OPEN_FDT_MAX_RETRIES
  BY OpenAssumption DEF Inductive, TypeOK, ValuesOK, RunShape
<1>2. st \in OpenStates => runner \in {"OPEN", "REINIT"}
  BY DEF Inductive, TypeOK, ValuesOK, RunShape
<1>3. CASE OpenStep
  <2>1. /\ st \in DOMAIN StepNext /\ st' = StepNext[st]
        /\ UNCHANGED <<runner, selfheal_attempted, flight>>
        /\ open_fdt_retries' = IF StepNext[st] = "UPLOAD_CONFIG" THEN 0
                               ELSE open_fdt_retries
    BY <1>3, Zenon DEF OpenStep
  <2>2. OpenLeft' < OpenLeft
    BY <1>1, <2>1 DEF OpenLeft, OpenRank, PacksLeft, FdtReadsLeft, StepNext
  <2>3. st \in OpenStates BY <2>1 DEF StepNext
  <2> QED BY <1>2, <2>1, <2>2, <2>3, OpenGoesOn
<1>4. CASE OpenStepFails
  BY <1>4, FailLeft DEF OpenStepFails
<1>5. CASE OtpRead
  <2>1. CASE SsmFails(TRUE) BY <2>1, FailLeft
  <2>2. CASE ~SsmFails(TRUE)
    <3>1. /\ st = "READ_OTP" /\ flight' = 0 /\ st' \in {"TLS_INIT", "READ_PSK_HASH"}
          /\ UNCHANGED <<runner, selfheal_attempted>>
      BY <1>5, <2>2 DEF OtpRead
    <3>2. OpenLeft' < OpenLeft
      BY <1>1, <3>1 DEF OpenLeft, OpenRank, PacksLeft, FdtReadsLeft
    <3> QED BY <1>2, <3>1, <3>2, OpenGoesOn
  <2> QED BY <2>1, <2>2
<1>6. CASE TlsPump
  <2>1. /\ st \in {"TLS_INIT", "TLS_RECV"} /\ flight < TlsFlights /\ flight' = flight + 1
        /\ st' \in {"TLS_PUMP", "TLS_ESTABLISHED", "TLS_RECV"}
        /\ UNCHANGED <<runner, selfheal_attempted>>
    BY <1>6 DEF TlsPump
  <2>2. OpenLeft' < OpenLeft
    BY <1>1, <2>1 DEF OpenLeft, OpenRank, PacksLeft, FdtReadsLeft
  <2> QED BY <1>2, <2>1, <2>2, OpenGoesOn
<1>7. CASE TlsSent
  <2>1. /\ st = "TLS_PUMP" /\ st' \in {"TLS_ESTABLISHED", "TLS_RECV"}
        /\ UNCHANGED <<runner, selfheal_attempted, flight>>
    BY <1>7 DEF TlsSent, AfterSend
  <2>2. OpenLeft' < OpenLeft
    BY <1>1, <2>1 DEF OpenLeft, OpenRank, PacksLeft, FdtReadsLeft
  <2> QED BY <1>2, <2>1, <2>2, OpenGoesOn
<1>8. CASE TlsRefused
  BY <1>8, FailLeft DEF TlsRefused
<1>9. CASE PskHashRead
  <2>1. /\ st = "READ_PSK_HASH" /\ st' \in {"GTLS_CLIENT_HELLO", "WRITE_PSK"}
        /\ UNCHANGED <<runner, selfheal_attempted, flight>>
    BY <1>9 DEF PskHashRead
  <2>2. OpenLeft' < OpenLeft
    BY <1>1, <2>1 DEF OpenLeft, OpenRank, PacksLeft, FdtReadsLeft
  <2> QED BY <1>2, <2>1, <2>2, OpenGoesOn
<1>10. CASE PskWritten
  <2>1. /\ st = "WRITE_PSK" /\ st' = "VERIFY_PSK_WRITE"
        /\ UNCHANGED <<runner, selfheal_attempted, flight>>
    BY <1>10 DEF PskWritten
  <2>2. OpenLeft' < OpenLeft
    BY <1>1, <2>1 DEF OpenLeft, OpenRank, PacksLeft, FdtReadsLeft
  <2> QED BY <1>2, <2>1, <2>2, OpenGoesOn
<1>11. CASE PskVerified
  <2>1. CASE SsmFails(open_reached_tls) BY <2>1, FailLeft
  <2>2. CASE ~SsmFails(open_reached_tls)
    <3>1. /\ st = "VERIFY_PSK_WRITE" /\ st' = "GTLS_CLIENT_HELLO"
          /\ UNCHANGED <<runner, selfheal_attempted, flight>>
      BY <1>11, <2>2 DEF PskVerified
    <3>2. OpenLeft' < OpenLeft
      BY <1>1, <3>1 DEF OpenLeft, OpenRank, PacksLeft, FdtReadsLeft
    <3> QED BY <1>2, <3>1, <3>2, OpenGoesOn
  <2> QED BY <2>1, <2>2
<1>12. CASE FdtRead
  <2>1. CASE SsmFails(open_reached_tls) BY <2>1, FailLeft
  <2>2. CASE ~SsmFails(open_reached_tls)
    <3>1. /\ st = "FDT_TX_ON_2" /\ UNCHANGED <<runner, selfheal_attempted, flight>>
          /\ \/ st' = "SLEEP"
             \/ st' = st /\ open_fdt_retries' = open_fdt_retries + 1
      BY <1>12, <2>2 DEF FdtRead, CountRetry
    <3>2. OpenLeft' < OpenLeft
      BY <1>1, <3>1 DEF OpenLeft, OpenRank, PacksLeft, FdtReadsLeft
    <3> QED BY <1>2, <3>1, <3>2, OpenGoesOn
  <2> QED BY <2>1, <2>2
<1>13. CASE Opened
  BY <1>13 DEF Opened, EndOpen
<1> QED
  BY <1>3, <1>4, <1>5, <1>6, <1>7, <1>8, <1>9, <1>10, <1>11, <1>12, <1>13, Zenon
     DEF OpenSsm

\* And of the heal SSM, one of those or the start of the last open.
LEMMA HealSsmLeft ==
  ASSUME Inductive, Inductive', HealSsm, runner' # "NONE"
  PROVE  StepsLeft' \in 1 .. StepsLeft - 1
<1>1. /\ FwLen \in Nat \ {0} /\ FwChunk \in Nat \ {0} /\ heal_fw_offset \in Nat
      /\ TlsFlights \in Nat
      /\ st = "HEAL_WRITE_FW_SEND" => heal_fw_offset < FwLen
  BY OpenAssumption DEF Inductive, TypeOK, ValuesOK, WriteShape
<1>2. runner = "HEAL" <=> st \in HealStates
  BY DEF Inductive, RunShape
<1>3. ASSUME NEW s, HealGoto(s) PROVE st' = s /\ UNCHANGED runner
  BY <1>3 DEF HealGoto
<1>4. ASSUME HealFails PROVE StepsLeft' \in 1 .. StepsLeft - 1
  BY <1>4, FailLeft DEF HealFails
<1>5. CASE HealRetryOpen
  <2>1. /\ runner = "HEAL" /\ st = "HEAL_READ_PSK_HASH"
        /\ runner' = "OPEN" /\ st' = "PING" /\ selfheal_attempted'
    BY <1>2, <1>5
       DEF HealRetryOpen, Relaunch, ResetAndClaim, Inductive, HealShape
  <2>2. StepsLeft = FwLen + 10 + WholeOpen BY <2>1 DEF StepsLeft, HealLeft
  <2>3. StepsLeft' = WholeOpen
    BY <1>1, <2>1 DEF StepsLeft, OpenLeft, OpenRank, PacksLeft, FdtReadsLeft, WholeOpen
  <2>4. WholeOpen \in Nat \ {0} BY WholeRuns
  <2> QED BY <1>1, <2>2, <2>3, <2>4
<1>6. CASE HealNeeded
  <2>1. /\ st = "HEAL_READ_PSK_HASH" /\ st' = "HEAL_READ_FW_VERSION"
        /\ UNCHANGED runner
    BY <1>3, <1>6 DEF HealNeeded
  <2>2. HealLeft' < HealLeft BY <1>1, <2>1 DEF HealLeft
  <2> QED BY <1>2, <2>1, <2>2, HealGoesOn
<1>7. CASE HealDecideMode
  <2>1. CASE HealFails BY <1>4, <2>1
  <2>2. CASE ~HealFails
    <3>1. /\ st = "HEAL_READ_FW_VERSION" /\ UNCHANGED runner
          /\ \/ st' = "HEAL_CONTAINER_WRITE1"
             \/ st' = "HEAL_ERASE_APP" /\ ~heal_erased
      BY <1>3, <1>7, <2>2 DEF HealDecideMode, Erasable
    <3>2. HealLeft' < HealLeft BY <1>1, <3>1 DEF HealLeft
    <3> QED BY <1>2, <3>1, <3>2, HealGoesOn
  <2> QED BY <2>1, <2>2
<1>8. CASE HealErased
  <2>1. st = "HEAL_ERASE_APP" /\ st' = "HEAL_ERASE_SETTLE" /\ UNCHANGED runner
    BY <1>3, <1>8 DEF HealErased
  <2>2. HealLeft' < HealLeft BY <1>1, <2>1 DEF HealLeft
  <2> QED BY <1>2, <2>1, <2>2, HealGoesOn
<1>9. CASE HealReclaim
  <2>1. CASE HealFails BY <1>4, <2>1
  <2>2. CASE ~HealFails
    <3>1. /\ st = "HEAL_ERASE_SETTLE" /\ st' = "HEAL_READ_FW_VERSION"
          /\ UNCHANGED <<runner, heal_erased>>
      BY <1>3, <1>9, <2>2 DEF HealReclaim
    <3>2. heal_erased' BY <3>1 DEF Inductive, HealShape
    <3>3. HealLeft' < HealLeft BY <1>1, <3>1, <3>2 DEF HealLeft
    <3> QED BY <1>2, <3>1, <3>3, HealGoesOn
  <2> QED BY <2>1, <2>2
<1>10. CASE HealContainer
  <2>1. /\ UNCHANGED runner
        /\ \/ st = "HEAL_CONTAINER_WRITE1" /\ st' = "HEAL_CONTAINER_WRITE2"
           \/ /\ st = "HEAL_CONTAINER_WRITE2" /\ st' = NextWrite(0)
              /\ heal_fw_offset' = 0
    BY <1>3, <1>10 DEF HealContainer
  <2>2. HealLeft' < HealLeft BY <1>1, <2>1 DEF HealLeft, NextWrite
  <2> QED BY <1>2, <2>1, <2>2, HealGoesOn
<1>11. CASE HealWriteFw
  <2>1. /\ st = "HEAL_WRITE_FW_SEND" /\ UNCHANGED runner
        /\ st' = NextWrite(heal_fw_offset + FwChunk)
        /\ heal_fw_offset' = heal_fw_offset + FwChunk
    BY <1>3, <1>11 DEF HealWriteFw
  <2>2. HealLeft' < HealLeft BY <1>1, <2>1 DEF HealLeft, NextWrite
  <2> QED BY <1>2, <2>1, <2>2, HealGoesOn
<1>12. CASE HealCheckFw
  <2>1. CASE HealFails BY <1>4, <2>1
  <2>2. CASE ~HealFails
    <3>1. st = "HEAL_CHECK_FW" /\ st' = "HEAL_RESET_MCU" /\ UNCHANGED runner
      BY <1>3, <1>12, <2>2 DEF HealCheckFw, CheckRefused
    <3>2. HealLeft' < HealLeft BY <1>1, <3>1 DEF HealLeft
    <3> QED BY <1>2, <3>1, <3>2, HealGoesOn
  <2> QED BY <2>1, <2>2
<1>13. CASE HealResetMcu
  <2>1. st = "HEAL_RESET_MCU" /\ st' = "HEAL_RESET_SETTLE" /\ UNCHANGED runner
    BY <1>3, <1>13 DEF HealResetMcu
  <2>2. HealLeft' < HealLeft BY <1>1, <2>1 DEF HealLeft
  <2> QED BY <1>2, <2>1, <2>2, HealGoesOn
<1>14. CASE Healed
  BY <1>14 DEF Healed, EndOpen
<1>15. CASE HealCommandFails
  BY <1>4, <1>15 DEF HealCommandFails
<1> QED
  BY <1>5, <1>6, <1>7, <1>8, <1>9, <1>10, <1>11, <1>12, <1>13, <1>14, <1>15, Zenon
     DEF HealSsm

\* Changes of the files leave the SSM where it is.
LEMMA ConfigureLeft ==
  ASSUME Inductive, Configure, runner # "NONE"
  PROVE  StepsLeft' = StepsLeft
BY DEF Configure, flagVars, countVars, StepsLeft, HealLeft, OpenLeft, OpenRank, PacksLeft,
       FdtReadsLeft, WholeOpen,
       WholeHeal

\* An SSM starts with a bounded number of steps, and each one reduces it: an open
\* request and a reinitialization end, as long as transfers and timers do.
THEOREM StepsAreBounded == Spec => StepsBounded
<1> DEFINE Step ==
      /\ runner = "NONE" /\ runner' # "NONE"
           => StepsLeft' \in 1 .. WholeOpen + WholeHeal + WholeOpen
      /\ runner # "NONE" /\ runner' # "NONE"
           => \/ StepsLeft' \in 1 .. StepsLeft - 1
              \/ hostVars' # hostVars /\ StepsLeft' = StepsLeft
<1>1. Inductive /\ Inductive' /\ [Next]_vars => [Step]_vars
  <2> SUFFICES ASSUME Inductive, Inductive', Next, UNCHANGED vars => FALSE PROVE Step
    OBVIOUS
  <2>1. runner = "NONE" <=> st = "NONE" BY DEF Inductive, RunShape
  <2>2. CASE Open
    <3>1. runner = "NONE"
      BY <2>2 DEF Open, Inductive, TypeOK, ValuesOK, RunShape
    <3>2. runner' # "NONE" => runner' = "OPEN" /\ st' = "PING" /\ ~selfheal_attempted'
      BY <2>2 DEF Open, ResetAndClaim
    <3>3. runner' # "NONE" => StepsLeft' = WholeOpen + WholeHeal + WholeOpen
      BY <3>2, OpenAssumption DEF StepsLeft, OpenLeft, OpenRank, PacksLeft, FdtReadsLeft,
                                  WholeOpen, WholeHeal
    <3>4. WholeOpen \in Nat \ {0} /\ WholeHeal \in Nat
      BY WholeRuns
    <3> QED BY <3>1, <3>3, <3>4
  <2>3. CASE Close
    BY <2>3 DEF Close
  <2>4. CASE Reinit
    <3>1. runner = "NONE" BY <2>4 DEF Reinit
    <3>2. runner' # "NONE" => runner' = "REINIT" /\ st' = "PING"
      BY <2>4 DEF Reinit, ResetAndClaim
    <3>3. runner' # "NONE" => StepsLeft' = WholeOpen
      BY <3>2, OpenAssumption DEF StepsLeft, OpenLeft, OpenRank, PacksLeft, FdtReadsLeft,
                                  WholeOpen
    <3>4. WholeOpen \in Nat \ {0} /\ WholeHeal \in Nat
      BY WholeRuns
    <3> QED BY <3>1, <3>3, <3>4
  <2>5. CASE OpenSsm
    <3>1. st # "NONE"
      BY <2>5 DEF OpenSsm, OpenStep, StepNext, OpenStepFails, OtpRead, TlsPump, TlsSent,
         TlsRefused, PskHashRead, PskWritten, PskVerified, FdtRead, Opened
    <3> QED BY <2>1, <2>5, <3>1, OpenSsmLeft
  <2>6. CASE HealSsm
    <3>1. st # "NONE"
      BY <2>6 DEF HealSsm, HealRetryOpen, HealNeeded, HealDecideMode, HealErased,
         HealReclaim, HealContainer, HealWriteFw, HealCheckFw, HealResetMcu, Healed,
         HealCommandFails
    <3> QED BY <2>1, <2>6, <3>1, HealSsmLeft
  <2>7. CASE Configure
    <3>1. runner' = runner /\ hostVars' # hostVars
      BY <2>7 DEF Configure, hostVars, vars
    <3> QED BY <2>7, <3>1, ConfigureLeft
  <2>8. CASE Crash
    BY <2>8 DEF Crash
  <2> QED BY <2>2, <2>3, <2>4, <2>5, <2>6, <2>7, <2>8 DEF Next
<1> QED BY <1>1, OpenInvariant, PTL DEF Spec, StepsBounded, Step
=============================================================================
