--------------------------- MODULE MCCalibration ---------------------------
(* Two zones; two readings with the same half, and one 20 above, which the  *)
(* sensors with OTP bits 0 and 1 call a move and the one with 31 noise, and *)
(* whose lift threshold does not fit a byte for 31.                         *)
EXTENDS Calibration

MCZones == {1, 2}
MCReadings == {400, 401, 440}
MCDiffs == {0, 1, 31}
=============================================================================
