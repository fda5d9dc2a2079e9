----------------------------- MODULE MCSensorLink -----------------------------
(* The runs of SensorLink. *)
EXTENDS SensorLink
===============================================================================
