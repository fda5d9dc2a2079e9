------------------------- MODULE Calibration_proofs -------------------------
(***************************************************************************)
(* The invariants of Calibration for every number of zones, every set of   *)
(* readings and every OTP.                                                 *)
(***************************************************************************)
EXTENDS Calibration, TLAPS

----
\* What the thresholds stand for while there is a baseline.
BaseShape ==
  baseline # NoData =>
    /\ baseline \in Vectors /\ confirmed \in Vectors /\ lifted \in Vectors
    /\ fdt_base_manual = Base(baseline) /\ fdt_base_down = Base(lifted)
    /\ Near(confirmed, baseline)

\* Where there is a baseline, and where its absence is remembered.
StageShape ==
  /\ Scanning \/ st = "OPEN_SLEEP" => baseline # NoData
  /\ st = "IDLE" /\ baseline = NoData => needs_reinit = "YES"
  /\ runner = "REINIT" /\ st \in {"OTP", "UPLOAD_CONFIG", "FDT_TX_ON", "FDT_TX_ON_2"}
       => needs_reinit = "YES"
  /\ st \in {"FDT_TX_ON", "FDT_TX_ON_2"} => open_fdt_retries <= 2
  /\ st = "FDT_TX_ON_2" => fdt_data_tx_on \in Vectors

\* The up thresholds stand for the event at hand.
EventShape ==
  st \in {"FDT_CHECK", "CAPTURE", "FDT_UP"} =>
    /\ fdt_event_data \in Vectors
    /\ fdt_base_up = UpBase(fdt_event_data, fdt_touch_flag)

Calib == TypeOK /\ BaseShape /\ StageShape /\ EventShape

----
\* Quotients and remainders are what their names say.
LEMMA ScaledType ==
  ASSUME NEW d \in 1 .. 31
  PROVE  ((d + 5) * 50) \div 16 \in (18 .. 112) \ {20}
OBVIOUS

LEMMA QuotientsOrdered ==
  ASSUME NEW n \in (18 .. 112) \ {20}
  PROVE  /\ n \div 5 \in 3 .. 22 /\ n \div 3 \in 6 .. 37
         /\ n \div 5 + 2 < n \div 3
<1>1. n \div 5 \in 3 .. 22
  OBVIOUS
<1>2. n \div 3 \in 6 .. 37
  OBVIOUS
<1>3. n \div 5 + 2 < n \div 3
  OBVIOUS
<1> QED
  BY <1>1, <1>2, <1>3

LEMMA HalfType == ASSUME NEW v \in Nat PROVE Half(v) \in Nat
BY DEF Half

LEMMA ByteType == ASSUME NEW v \in Nat PROVE Byte(v) \in 0 .. 255
BY DEF Byte

LEMMA ByteOfByte == ASSUME NEW v \in Nat, v < 256 PROVE Byte(v) = v
BY DEF Byte

\* The tolerances are bytes in order of size.
LEMMA Tolerances ==
  ASSUME diff \in 0 .. 31
  PROVE  /\ delta_fdt \in 0 .. 255 /\ delta_down \in 0 .. 255 /\ delta_up \in 0 .. 255
         /\ delta_fdt < delta_up /\ delta_up < delta_down
<1>1. CASE diff = 0
  BY <1>1 DEF delta_fdt, delta_down, delta_up
<1>2. CASE diff # 0
  <2>1. Scaled \in (18 .. 112) \ {20}
    BY <1>2, ScaledType DEF Scaled
  <2>2. Scaled \div 5 \in 3 .. 22 /\ Scaled \div 3 \in 6 .. 37
    BY <2>1, QuotientsOrdered
  <2>3. Scaled \div 5 + 2 < Scaled \div 3
    BY <2>1, QuotientsOrdered
  <2>4. delta_fdt = Scaled \div 5 /\ delta_down = Scaled \div 3 /\ delta_up = delta_down - 2
    BY <1>2 DEF delta_fdt, delta_down, delta_up
  <2> HIDE DEF Scaled
  <2> QED
    BY <2>2, <2>3, <2>4
<1> QED
  BY <1>1, <1>2

\* They are this sensor's for good.
LEMMA TolerancesStay ==
  ASSUME diff' = diff
  PROVE  delta_fdt' = delta_fdt /\ delta_down' = delta_down /\ delta_up' = delta_up
BY DEF delta_fdt, delta_down, delta_up, Scaled

\* A reading, and its thresholds.
LEMMA ReadingType == ASSUME NEW r \in Vectors, NEW z \in Zones PROVE Half(r[z]) \in Nat
<1>1. r[z] \in Readings
  BY DEF Vectors
<1>2. r[z] \in Nat
  BY <1>1, CalibrationAssumption
<1> QED
  BY <1>2, HalfType

LEMMA BaseType == ASSUME NEW r \in Vectors PROVE Base(r) \in Thresholds
<1>1. \A z \in Zones : Byte(Half(r[z])) \in 0 .. 255
  BY ReadingType, ByteType
<1> QED
  BY <1>1 DEF Base, Thresholds

LEMMA UpBaseType ==
  ASSUME NEW r \in Vectors, NEW touched, diff \in 0 .. 31
  PROVE  UpBase(r, touched) \in Thresholds
<1>0. delta_down \in 0 .. 255 /\ delta_up \in 0 .. 255
  BY Tolerances, Zenon
<1>1. delta_down \in Nat /\ delta_up \in Nat
  BY <1>0
<1>2. ASSUME NEW z \in Zones PROVE Byte(Half(r[z]) + delta_down) \in 0 .. 255
  <2>1. Half(r[z]) \in Nat
    BY ReadingType
  <2>2. Half(r[z]) + delta_down \in Nat
    BY <1>1, <2>1
  <2> QED
    BY <2>2, ByteType
<1>3. Byte(delta_up) \in 0 .. 255
  BY <1>1, ByteType
<1> QED
  BY <1>2, <1>3 DEF UpBase, Thresholds

LEMMA InitShape == Init => Calib
BY DEF Init, Calib, TypeOK, BaseShape, StageShape, EventShape, Scanning, Zero, Thresholds

----
\* The steps of the open SSM.
OpenSteps ==
  \/ Open \/ Reinit \/ ParseOtp \/ UploadConfig \/ StepFails \/ OpenDone \/ ReinitDone
  \/ \E r \in Vectors :
       ValidateFdt(r) \/ FdtUnstable(r) \/ FdtSettles(r) \/ FdtNeverSettles(r)

\* The steps of a scan and of its action.
ScanSteps ==
  \/ Start \/ FdtUpSetup \/ NextAttempt \/ ActionEnds \/ Suspend \/ Close
  \/ \E r \in Vectors :
       FdtCheck(r) \/ FdtUpEvent(r) \/ \E touched \in SUBSET Zones : FdtDownEvent(r, touched)

LEMMA TypeStep == ASSUME Calib, [Next]_vars PROVE TypeOK'
<1> USE CalibrationAssumption DEF Calib
<1>0. diff \in 0 .. 31
  BY DEF TypeOK
<1>1. CASE UNCHANGED vars
  BY <1>1 DEF TypeOK, vars, bases, event, history
<1>2. CASE Open \/ Reinit \/ UploadConfig \/ OpenDone \/ ReinitDone
  BY <1>2 DEF Open, Reinit, UploadConfig, OpenDone, ReinitDone, TypeOK, bases, event, history
<1>3. CASE ParseOtp
  BY <1>3 DEF ParseOtp, TypeOK, bases, event, history, Zero, Thresholds
<1>4. CASE StepFails
  BY <1>4 DEF StepFails, OpenSsmFails, ReinitFailed, TypeOK, bases, event, history
<1>5. CASE Start \/ FdtUpSetup \/ NextAttempt \/ ActionEnds \/ Suspend \/ Close
  BY <1>5 DEF Start, FdtUpSetup, NextAttempt, ActionEnds, Suspend, Close, TypeOK, bases, event,
              history, unscanned
<1>6. ASSUME NEW r \in Vectors, ValidateFdt(r) \/ FdtUnstable(r) PROVE TypeOK'
  BY <1>6 DEF ValidateFdt, FdtUnstable, TypeOK, bases, event, history
<1>7. ASSUME NEW r \in Vectors, FdtSettles(r) PROVE TypeOK'
  <2>1. Base(fdt_data_tx_on) \in Thresholds
    BY <1>7, BaseType DEF FdtSettles, StageShape
  <2> QED
    BY <1>7, <2>1 DEF FdtSettles, TypeOK, event
<1>8. ASSUME NEW r \in Vectors, FdtNeverSettles(r) PROVE TypeOK'
  BY <1>8 DEF FdtNeverSettles, OpenSsmFails, ReinitFailed, TypeOK, StageShape, bases, event,
              history
<1>9. ASSUME NEW r \in Vectors, FdtCheck(r) PROVE TypeOK'
  BY <1>9 DEF FdtCheck, TypeOK, bases, event, history, unscanned
<1>10. ASSUME NEW r \in Vectors, FdtUpEvent(r) PROVE TypeOK'
  BY <1>10, BaseType DEF FdtUpEvent, TypeOK, event, unscanned
<1>11. ASSUME NEW r \in Vectors, NEW touched \in SUBSET Zones, FdtDownEvent(r, touched)
       PROVE  TypeOK'
  BY <1>0, <1>11, UpBaseType DEF FdtDownEvent, TypeOK, history, unscanned
<1> QED
  BY <1>1, <1>2, <1>3, <1>4, <1>5, <1>6, <1>7, <1>8, <1>9, <1>10, <1>11 DEF Next

\* The bases stay, or are made of what the history remembers.
LEMMA BaseStep == ASSUME Calib, [Next]_vars PROVE BaseShape'
<1> USE CalibrationAssumption DEF Calib
<1>0. diff' = diff
  BY DEF Next, vars, Open, Reinit, ParseOtp, UploadConfig, StepFails, OpenSsmFails, OpenDone,
         ReinitDone, Start, FdtUpSetup, NextAttempt, ActionEnds, Suspend, Close, ValidateFdt,
         FdtUnstable, FdtSettles, FdtNeverSettles, FdtCheck, FdtUpEvent, FdtDownEvent, unscanned
<1>1. delta_fdt' = delta_fdt
  BY <1>0, TolerancesStay
<1>2. ASSUME UNCHANGED <<baseline, confirmed, lifted, fdt_base_manual, fdt_base_down>>
      PROVE  BaseShape'
  BY <1>1, <1>2 DEF BaseShape, Near
<1>3. CASE UNCHANGED vars
  BY <1>2, <1>3 DEF vars, bases, history
<1>4. CASE ParseOtp
  BY <1>4 DEF ParseOtp, BaseShape
<1>5. CASE \/ Open \/ Reinit \/ UploadConfig \/ StepFails \/ OpenDone \/ ReinitDone
           \/ Start \/ FdtUpSetup \/ NextAttempt \/ ActionEnds \/ Suspend \/ Close
  BY <1>2, <1>5 DEF Open, Reinit, UploadConfig, StepFails, OpenSsmFails, OpenDone, ReinitDone,
                    Start, FdtUpSetup, NextAttempt, ActionEnds, Suspend, Close, bases, history
<1>6. ASSUME NEW r \in Vectors,
             ValidateFdt(r) \/ FdtUnstable(r) \/ FdtNeverSettles(r) \/ FdtCheck(r)
      PROVE  BaseShape'
  BY <1>2, <1>6 DEF ValidateFdt, FdtUnstable, FdtNeverSettles, OpenSsmFails, FdtCheck, bases,
                    history
<1>7. ASSUME NEW r \in Vectors, FdtSettles(r) PROVE BaseShape'
  <2>1. fdt_data_tx_on \in Vectors /\ Near(r, fdt_data_tx_on)
    BY <1>7 DEF FdtSettles, StageShape
  <2>2. Near(confirmed, baseline)'
    BY <1>1, <1>7, <2>1 DEF FdtSettles, Near
  <2> QED
    BY <1>7, <2>1, <2>2 DEF FdtSettles, BaseShape
<1>8. ASSUME NEW r \in Vectors, FdtUpEvent(r) PROVE BaseShape'
  <2>1. baseline # NoData
    BY <1>8 DEF FdtUpEvent, StageShape, Scanning
  <2>2. Near(confirmed, baseline)'
    BY <1>1, <1>8, <2>1 DEF FdtUpEvent, Near, BaseShape
  <2> QED
    BY <1>8, <2>1, <2>2 DEF FdtUpEvent, BaseShape
<1>9. ASSUME NEW r \in Vectors, NEW touched \in SUBSET Zones, FdtDownEvent(r, touched)
      PROVE  BaseShape'
  BY <1>2, <1>9 DEF FdtDownEvent, history
<1> QED
  BY <1>3, <1>4, <1>5, <1>6, <1>7, <1>8, <1>9 DEF Next

\* A failed reinitialization leaves needs_reinit set, so a scan has a baseline.
LEMMA StageStep == ASSUME Calib, [Next]_vars PROVE StageShape'
<1> USE CalibrationAssumption DEF Calib, StageShape, Scanning
<1>1. CASE UNCHANGED vars
  BY <1>1 DEF vars, history
<1>2. CASE Open \/ Reinit \/ ParseOtp \/ UploadConfig \/ OpenDone \/ ReinitDone
  BY <1>2 DEF Open, Reinit, ParseOtp, UploadConfig, OpenDone, ReinitDone, history
<1>3. CASE StepFails
  BY <1>3 DEF StepFails, OpenSsmFails, ReinitFailed, history, TypeOK
<1>4. CASE Start \/ FdtUpSetup \/ NextAttempt \/ ActionEnds \/ Suspend \/ Close
  BY <1>4 DEF Start, FdtUpSetup, NextAttempt, ActionEnds, Suspend, Close, history, unscanned
<1>5. ASSUME NEW r \in Vectors, ValidateFdt(r) \/ FdtUnstable(r) \/ FdtSettles(r)
      PROVE  StageShape'
  BY <1>5 DEF ValidateFdt, FdtUnstable, FdtSettles, history, TypeOK
<1>6. ASSUME NEW r \in Vectors, FdtNeverSettles(r) PROVE StageShape'
  BY <1>6 DEF FdtNeverSettles, OpenSsmFails, ReinitFailed, history, TypeOK
<1>7. ASSUME NEW r \in Vectors, FdtCheck(r) \/ FdtUpEvent(r) PROVE StageShape'
  BY <1>7 DEF FdtCheck, FdtUpEvent, history, unscanned
<1>8. ASSUME NEW r \in Vectors, NEW touched \in SUBSET Zones, FdtDownEvent(r, touched)
      PROVE  StageShape'
  BY <1>8 DEF FdtDownEvent, history, unscanned
<1> QED
  BY <1>1, <1>2, <1>3, <1>4, <1>5, <1>6, <1>7, <1>8 DEF Next

\* Every event replaces the up thresholds with itself.
LEMMA EventStep == ASSUME Calib, [Next]_vars PROVE EventShape'
<1> USE DEF Calib
<1>0. diff' = diff
  BY DEF Next, vars, Open, Reinit, ParseOtp, UploadConfig, StepFails, OpenSsmFails, OpenDone,
         ReinitDone, Start, FdtUpSetup, NextAttempt, ActionEnds, Suspend, Close, ValidateFdt,
         FdtUnstable, FdtSettles, FdtNeverSettles, FdtCheck, FdtUpEvent, FdtDownEvent, unscanned
<1>1. delta_down' = delta_down /\ delta_up' = delta_up
  BY <1>0, TolerancesStay
<1>2. ASSUME st \in {"FDT_CHECK", "CAPTURE", "FDT_UP"},
             UNCHANGED <<fdt_event_data, fdt_touch_flag, fdt_base_up>>
      PROVE  EventShape'
  BY <1>1, <1>2 DEF EventShape, UpBase
<1>3. CASE UNCHANGED vars
  BY <1>2, <1>3 DEF vars, bases, event, EventShape
<1>4. CASE Open \/ Reinit \/ ParseOtp \/ UploadConfig \/ StepFails \/ OpenDone \/ ReinitDone
  BY <1>4 DEF Open, Reinit, ParseOtp, UploadConfig, StepFails, OpenSsmFails, OpenDone,
              ReinitDone, EventShape
<1>5. CASE Start \/ NextAttempt \/ ActionEnds \/ Close
  BY <1>5 DEF Start, NextAttempt, ActionEnds, Close, EventShape
<1>6. CASE FdtUpSetup \/ Suspend
  BY <1>2, <1>6 DEF FdtUpSetup, Suspend, bases, event, EventShape
<1>7. ASSUME NEW r \in Vectors,
             \/ ValidateFdt(r) \/ FdtUnstable(r) \/ FdtSettles(r) \/ FdtNeverSettles(r)
             \/ FdtUpEvent(r)
      PROVE  EventShape'
  BY <1>7 DEF ValidateFdt, FdtUnstable, FdtSettles, FdtNeverSettles, OpenSsmFails, FdtUpEvent,
              EventShape
<1>8. ASSUME NEW r \in Vectors, FdtCheck(r) PROVE EventShape'
  BY <1>2, <1>8 DEF FdtCheck, bases, event
<1>9. ASSUME NEW r \in Vectors, NEW touched \in SUBSET Zones, FdtDownEvent(r, touched)
      PROVE  EventShape'
  BY <1>1, <1>9 DEF FdtDownEvent, EventShape, UpBase
<1> QED
  BY <1>3, <1>4, <1>5, <1>6, <1>7, <1>8, <1>9 DEF Next

\* The inductive invariant holds of every behaviour.
THEOREM CalibrationInvariant == Spec => []Calib
<1>1. Calib /\ [Next]_vars => Calib'
  BY TypeStep, BaseStep, StageStep, EventStep DEF Calib
<1> QED
  BY InitShape, <1>1, PTL DEF Spec

----
\* Types.
THEOREM CalibrationTypeOK == Spec => []TypeOK
<1>1. Calib => TypeOK
  BY DEF Calib
<1> QED
  BY CalibrationInvariant, <1>1, PTL

\* The baseline agrees with the reading that confirmed it in every zone, during a
\* scan and in every other state that has one.
THEOREM BaselineIsSettled == Spec => [](baseline # NoData => BaselineSettled)
<1>1. Calib => (baseline # NoData => BaselineSettled)
  BY CalibrationAssumption DEF Calib, BaseShape, BaselineSettled, Near
<1> QED
  BY CalibrationInvariant, <1>1, PTL

\* No scan runs on the zeroed calibration of a failed reinitialization, or on a
\* reading that did not settle.
THEOREM ScansOnBaseline == Spec => []ArmedOnBaseline
<1>1. Calib => (baseline # NoData => BaselineSettled)
  BY CalibrationAssumption DEF Calib, BaseShape, BaselineSettled, Near
<1>2. Calib /\ Scanning => baseline # NoData
  BY CalibrationAssumption DEF Calib, StageShape, BaseShape, Scanning
<1>3. Calib => ArmedOnBaseline
  BY <1>1, <1>2 DEF Calib, StageShape, BaseShape, ArmedOnBaseline
<1> QED
  BY CalibrationInvariant, <1>3, PTL

\* The lift of a finger is awaited at thresholds above its touch.
THEOREM LiftIsAboveTouch == Spec => []LiftAboveTouch
<1>1. Calib => LiftAboveTouch
  <2> SUFFICES ASSUME Calib, st \in {"CAPTURE", "FDT_UP"}, NEW z \in Zones
               PROVE  IF z \notin fdt_touch_flag THEN fdt_base_up[z] = delta_up
                      ELSE Half(fdt_event_data[z]) + delta_down < 256 =>
                             fdt_base_up[z] = Half(fdt_event_data[z]) + delta_down
    BY DEF LiftAboveTouch
  <2>1. delta_down \in 0 .. 255 /\ delta_up \in 0 .. 255
    BY Tolerances, CalibrationAssumption DEF Calib, TypeOK
  <2>2. fdt_base_up = UpBase(fdt_event_data, fdt_touch_flag) /\ fdt_event_data \in Vectors
    BY DEF Calib, EventShape
  <2>3. Half(fdt_event_data[z]) \in Nat
    BY <2>2, ReadingType
  <2> DEFINE half == Half(fdt_event_data[z])
  <2>4. z \notin fdt_touch_flag => fdt_base_up[z] = delta_up
    <3>1. delta_up \in Nat /\ delta_up < 256
      BY <2>1
    <3>2. Byte(delta_up) = delta_up
      BY <3>1, ByteOfByte
    <3> QED
      BY <2>2, <3>2 DEF UpBase
  <2>5. z \in fdt_touch_flag /\ half + delta_down < 256 => fdt_base_up[z] = half + delta_down
    <3>1. half + delta_down \in Nat
      BY <2>1, <2>3
    <3>2. half + delta_down < 256 => Byte(half + delta_down) = half + delta_down
      BY <3>1, ByteOfByte
    <3>3. z \in fdt_touch_flag => fdt_base_up[z] = Byte(half + delta_down)
      BY <2>2 DEF UpBase
    <3> QED
      BY <3>2, <3>3
  <2> QED
    BY <2>4, <2>5
<1> QED
  BY CalibrationInvariant, <1>1, PTL

\* Accepted noise cannot trip the detection, whatever the OTP.
THEOREM TolerancesAreOrdered == Spec => []TolerancesOrdered
<1>1. Calib => TolerancesOrdered
  BY Tolerances, CalibrationAssumption DEF Calib, TypeOK, TolerancesOrdered
<1> QED
  BY CalibrationInvariant, <1>1, PTL
=============================================================================
