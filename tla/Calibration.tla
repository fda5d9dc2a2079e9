---------------------------- MODULE Calibration ----------------------------
(***************************************************************************)
(* The finger detection (FDT) calibration: the tolerances parsed from the  *)
(* sensor's OTP, the baseline an open or a reinitialization settles on,    *)
(* and the thresholds a scan arms the sensor with                          *)
(* (goodix53x5-calibration.c, called by goodix53x5-session.c and -scan.c). *)
(*                                                                         *)
(* A reading is a guint16 per zone.  A threshold is a guint16 v * 0x100 |  *)
(* v; it is represented by its low byte, which the high byte repeats as    *)
(* long as v fits a byte.                                                  *)
(***************************************************************************)
EXTENDS Integers

CONSTANTS
  Zones,     \* the 12 detection zones of the sensor
  Readings,  \* values a zone may read: guint16
  Diffs,     \* bits 5:1 of OTP byte 17
  NoData     \* no reading: a NULL pointer

Vectors == [Zones -> Readings]

ASSUME CalibrationAssumption ==
  /\ Readings \subseteq Nat /\ Diffs \subseteq 0 .. 31
  /\ NoData \notin Vectors

Thresholds == [Zones -> 0 .. 255]

VARIABLES
  st,               \* what the driver waits for, "CLOSED" or "IDLE"
  runner,           \* "OPEN" or "REINIT", who runs the open SSM
  needs_reinit,     \* "YES" or "NO"
  diff,             \* of this sensor's OTP
  fdt_base_down, fdt_base_up, fdt_base_manual,
  fdt_data_tx_on, open_fdt_retries,
  fdt_event_data, fdt_touch_flag,
  baseline,         \* history: the reading the baseline was made of
  confirmed,        \* history: the reading that confirmed it
  lifted            \* history: the reading of the last lift, or the baseline

bases   == <<fdt_base_down, fdt_base_up, fdt_base_manual>>
event   == <<fdt_event_data, fdt_touch_flag>>
history == <<baseline, confirmed, lifted>>
vars == <<st, runner, needs_reinit, diff, bases, fdt_data_tx_on, open_fdt_retries,
          event, history>>

----
\* The tolerances of goodix_device_parse_otp.
Scaled == ((diff + 5) * 50) \div 16
delta_fdt == IF diff = 0 THEN 0 ELSE Scaled \div 5
\* A bug to tell apart: half the distance to the down threshold.
Mutant_delta_down == IF diff = 0 THEN 13 ELSE Scaled \div 6
delta_down == IF diff = 0 THEN 13 ELSE Scaled \div 3
delta_up == IF diff = 0 THEN 11 ELSE delta_down - 2

Half(v) == v \div 2
Byte(v) == v % 256
Abs(i) == IF i < 0 THEN -i ELSE i
Zero == [z \in Zones |-> 0]

\* goodix_device_is_fdt_base_valid
Near(r, s) == \A z \in Zones : Abs(Half(r[z]) - Half(s[z])) <= delta_fdt

\* goodix_device_generate_fdt_base
Base(r) == [z \in Zones |-> Byte(Half(r[z]))]

\* A bug to tell apart: the touch flag is read the wrong way round.
MutantUpBase(r, touched) ==
  [z \in Zones |-> IF z \in touched THEN Byte(delta_up) ELSE Byte(Half(r[z]) + delta_down)]
\* goodix_device_generate_fdt_up_base
UpBase(r, touched) ==
  [z \in Zones |-> IF z \in touched THEN Byte(Half(r[z]) + delta_down) ELSE Byte(delta_up)]

----
Init ==
  /\ st = "CLOSED" /\ runner = "OPEN" /\ needs_reinit = "NO" /\ diff \in Diffs
  /\ fdt_base_down = Zero /\ fdt_base_up = Zero /\ fdt_base_manual = Zero
  /\ fdt_data_tx_on = NoData /\ open_fdt_retries = 0
  /\ fdt_event_data = NoData /\ fdt_touch_flag = {}
  /\ baseline = NoData /\ confirmed = NoData /\ lifted = NoData

(* --- the open SSM, of an open or of a reinitialization                  *)

Open ==
  /\ st = "CLOSED" /\ st' = "OTP" /\ runner' = "OPEN"
  /\ UNCHANGED <<needs_reinit, diff, bases, fdt_data_tx_on, open_fdt_retries, event, history>>

\* goodix_maybe_start_reinit_subsm, at the start of an action.
Reinit ==
  /\ st = "IDLE" /\ needs_reinit = "YES"
  /\ st' = "OTP" /\ runner' = "REINIT"
  /\ UNCHANGED <<needs_reinit, diff, bases, fdt_data_tx_on, open_fdt_retries, event, history>>

\* PARSE_OTP: parsing starts by clearing the calibration.
ParseOtp ==
  /\ st = "OTP" /\ st' = "UPLOAD_CONFIG"
  /\ fdt_base_down' = Zero /\ fdt_base_up' = Zero /\ fdt_base_manual' = Zero
  /\ baseline' = NoData /\ confirmed' = NoData /\ lifted' = NoData
  /\ UNCHANGED <<runner, needs_reinit, diff, fdt_data_tx_on, open_fdt_retries, event>>

UploadConfig ==
  /\ st = "UPLOAD_CONFIG" /\ st' = "FDT_TX_ON"
  /\ open_fdt_retries' = 0
  /\ UNCHANGED <<runner, needs_reinit, diff, bases, fdt_data_tx_on, event, history>>

ValidateFdt(r) ==
  /\ st = "FDT_TX_ON" /\ st' = "FDT_TX_ON_2"
  /\ fdt_data_tx_on' = r
  /\ UNCHANGED <<runner, needs_reinit, diff, bases, open_fdt_retries, event, history>>

\* A bug to tell apart: the retries are not counted out.
MutantFdtUnstable(r) ==
  /\ st = "FDT_TX_ON_2" /\ ~Near(r, fdt_data_tx_on)
  /\ fdt_data_tx_on' = r /\ open_fdt_retries' = open_fdt_retries + 1
  /\ UNCHANGED <<st, runner, needs_reinit, diff, bases, event, history>>
\* VALIDATE_FDT_2 of a reading unlike the one before, which it replaces.
FdtUnstable(r) ==
  /\ st = "FDT_TX_ON_2" /\ ~Near(r, fdt_data_tx_on)
  /\ open_fdt_retries < 2
  /\ fdt_data_tx_on' = r /\ open_fdt_retries' = open_fdt_retries + 1
  /\ UNCHANGED <<st, runner, needs_reinit, diff, bases, event, history>>

\* VALIDATE_FDT_2 of a reading like the one before, and GENERATE_FDT_BASE.
FdtSettles(r) ==
  /\ st = "FDT_TX_ON_2" /\ Near(r, fdt_data_tx_on) /\ st' = "OPEN_SLEEP"
  /\ fdt_base_down' = Base(fdt_data_tx_on) /\ fdt_base_up' = Base(fdt_data_tx_on)
  /\ fdt_base_manual' = Base(fdt_data_tx_on)
  /\ baseline' = fdt_data_tx_on /\ confirmed' = r /\ lifted' = fdt_data_tx_on
  /\ UNCHANGED <<runner, needs_reinit, diff, fdt_data_tx_on, open_fdt_retries, event>>

\* A bug to tell apart: a failed reinitialization counts as done.
MutantReinitFailed == needs_reinit' = "NO"
\* The action fails short of REINIT_DONE: only a lost transfer sets it, again.
ReinitFailed == UNCHANGED needs_reinit

\* goodix_open_ssm_done with an error, or the action's reinit state fails:
\* here also a third reading unlike the one before.
OpenSsmFails ==
  /\ IF runner = "OPEN"
       THEN st' = "CLOSED" /\ fdt_data_tx_on' = NoData /\ UNCHANGED needs_reinit
       ELSE st' = "IDLE" /\ UNCHANGED fdt_data_tx_on /\ ReinitFailed
  /\ UNCHANGED <<runner, diff, bases, event, history>>

StepFails ==
  /\ st \in {"OTP", "UPLOAD_CONFIG", "FDT_TX_ON", "FDT_TX_ON_2", "OPEN_SLEEP"}
  /\ OpenSsmFails /\ UNCHANGED open_fdt_retries

FdtNeverSettles(r) ==
  /\ st = "FDT_TX_ON_2" /\ ~Near(r, fdt_data_tx_on) /\ open_fdt_retries >= 2
  /\ open_fdt_retries' = open_fdt_retries + 1
  /\ OpenSsmFails

\* goodix_open_ssm_done without an error.
OpenDone ==
  /\ st = "OPEN_SLEEP" /\ runner = "OPEN" /\ st' = "IDLE"
  /\ fdt_data_tx_on' = NoData /\ needs_reinit' = "NO"
  /\ UNCHANGED <<runner, diff, bases, open_fdt_retries, event, history>>

\* REINIT_DONE of the action, which goes on to arm the sensor.
ReinitDone ==
  /\ st = "OPEN_SLEEP" /\ runner = "REINIT" /\ st' = "FDT_DOWN"
  /\ needs_reinit' = "NO"
  /\ UNCHANGED <<runner, diff, bases, fdt_data_tx_on, open_fdt_retries, event, history>>

(* --- the scan: FDT_DOWN, FDT_CHECK, CAPTURE, FDT_UP                     *)

unscanned == <<runner, diff, fdt_data_tx_on, open_fdt_retries>>

Start ==
  /\ st = "IDLE" /\ needs_reinit = "NO" /\ st' = "FDT_DOWN"
  /\ UNCHANGED <<needs_reinit, bases, event, history, unscanned>>

\* GEN_UP_BASE, and the manual reading of FDT_CHECK is asked for.
FdtDownEvent(r, touched) ==
  /\ st = "FDT_DOWN" /\ st' = "FDT_CHECK"
  /\ fdt_event_data' = r /\ fdt_touch_flag' = touched
  /\ fdt_base_up' = UpBase(r, touched)
  /\ UNCHANGED <<needs_reinit, fdt_base_down, fdt_base_manual, history, unscanned>>

\* VALIDATE: a reading that is still the event's is taken for noise.
FdtCheck(r) ==
  /\ st = "FDT_CHECK"
  /\ st' = IF Near(fdt_event_data, r) THEN "FDT_DOWN" ELSE "CAPTURE"
  /\ UNCHANGED <<needs_reinit, bases, event, history, unscanned>>

FdtUpSetup ==
  /\ st = "CAPTURE" /\ st' = "FDT_UP"
  /\ UNCHANGED <<needs_reinit, bases, event, history, unscanned>>

\* UPDATE_DOWN_BASE
FdtUpEvent(r) ==
  /\ st = "FDT_UP" /\ st' = "LIFTED"
  /\ fdt_base_down' = Base(r) /\ lifted' = r
  /\ UNCHANGED <<needs_reinit, fdt_base_up, fdt_base_manual, event, baseline, confirmed,
                 unscanned>>

\* An enrollment asks for the finger again.
NextAttempt ==
  /\ st = "LIFTED" /\ st' = "FDT_DOWN"
  /\ UNCHANGED <<needs_reinit, bases, event, history, unscanned>>

\* The action succeeds, which takes the session for sound, or fails; what it
\* fails with may lose the session.
ActionEnds ==
  /\ st \in {"FDT_DOWN", "FDT_CHECK", "CAPTURE", "FDT_UP", "LIFTED"} /\ st' = "IDLE"
  /\ needs_reinit' \in {"YES", "NO"}
  /\ UNCHANGED <<bases, event, history, unscanned>>

\* The host goes to sleep.
Suspend ==
  /\ st # "CLOSED" /\ needs_reinit' = "YES"
  /\ UNCHANGED <<st, bases, event, history, unscanned>>

Close ==
  /\ st = "IDLE" /\ st' = "CLOSED"
  /\ UNCHANGED <<needs_reinit, bases, event, history, unscanned>>

Next ==
  \/ Open \/ Reinit \/ ParseOtp \/ UploadConfig \/ StepFails \/ OpenDone \/ ReinitDone
  \/ Start \/ FdtUpSetup \/ NextAttempt \/ ActionEnds \/ Suspend \/ Close
  \/ \E r \in Vectors :
       \/ ValidateFdt(r) \/ FdtUnstable(r) \/ FdtSettles(r) \/ FdtNeverSettles(r)
       \/ FdtCheck(r) \/ FdtUpEvent(r)
       \/ \E touched \in SUBSET Zones : FdtDownEvent(r, touched)

Spec == Init /\ [][Next]_vars

----
TypeOK ==
  /\ st \in {"CLOSED", "IDLE", "OTP", "UPLOAD_CONFIG", "FDT_TX_ON", "FDT_TX_ON_2",
             "OPEN_SLEEP", "FDT_DOWN", "FDT_CHECK", "CAPTURE", "FDT_UP", "LIFTED"}
  /\ runner \in {"OPEN", "REINIT"} /\ needs_reinit \in {"YES", "NO"} /\ diff \in Diffs
  /\ fdt_base_down \in Thresholds /\ fdt_base_up \in Thresholds
  /\ fdt_base_manual \in Thresholds
  /\ open_fdt_retries \in 0 .. 3 /\ fdt_touch_flag \subseteq Zones
  /\ \A data \in {fdt_data_tx_on, fdt_event_data, baseline, confirmed, lifted} :
       data \in Vectors \/ data = NoData

Scanning == st \in {"FDT_DOWN", "FDT_CHECK", "CAPTURE", "FDT_UP", "LIFTED"}

\* The baseline is one of two readings in a row that agree within delta_fdt in
\* every zone, however many readings were replaced before.
BaselineSettled ==
  /\ confirmed # NoData
  /\ \A z \in Zones : Abs(Half(confirmed[z]) - Half(baseline[z])) <= delta_fdt

\* A scan never runs on the zeroed calibration a failed reinitialization leaves
\* behind, nor on a reading that was replaced: the sensor is armed, and noise is
\* told from a finger, with bases of this session's settled baseline or of the
\* last lift, not of parse_otp's memset.
ArmedOnBaseline ==
  Scanning =>
    /\ baseline \in Vectors /\ lifted \in Vectors /\ BaselineSettled
    /\ fdt_base_manual = Base(baseline) /\ fdt_base_down = Base(lifted)

\* While the driver waits for the lift of a finger, each touched zone waits at
\* delta_down above the reading of the touch that was checked, not of a false
\* one before it, if that fits a byte; the other zones wait at delta_up.
LiftAboveTouch ==
  st \in {"CAPTURE", "FDT_UP"} =>
    \A z \in Zones :
      IF z \notin fdt_touch_flag THEN fdt_base_up[z] = delta_up
      ELSE Half(fdt_event_data[z]) + delta_down < 256 =>
             fdt_base_up[z] = Half(fdt_event_data[z]) + delta_down

\* For every OTP the tolerance between two readings of one baseline is below both
\* detection parameters: delta_down, which the config carries and which is added to
\* the reading of a touched zone, and delta_up, the absolute threshold of the
\* others while a lift is awaited.  No subtraction wraps, and each fits the byte
\* that goodix_device_generate_fdt_up_base repeats.
TolerancesOrdered == delta_fdt < delta_up /\ delta_up < delta_down /\ delta_down < 256
=============================================================================
