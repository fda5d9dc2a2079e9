---------------------------- MODULE MCOpenHeal ----------------------------
(***************************************************************************)
(* Liveness of OpenHeal, and the statements of the README and of the       *)
(* source that the code does not keep.                                     *)
(***************************************************************************)
EXTENDS OpenHeal

----
\* Fairness.  Every transfer of the two SSMs has a timeout and every delay is a
\* timer, so the running SSM always takes a step.  For recovery the caller is
\* taken to open the device again after a failure.
FairSpec ==
  /\ Spec
  /\ WF_vars(OpenSsm \/ HealSsm)
  /\ WF_vars(Open)

\* Every open request is answered: no loop of the FDT validation, of the TLS
\* pump, of the erase or of the retry in place is endless.
OpenEnds == phase = "OPENING" ~> phase # "OPENING"

\* A sensor on a Windows-provisioned PSK that a heal left erased (a failure, a
\* crash) is restored by a later open, if the bootloader lets the open get as
\* far as the handshake (IapOpens), the image stays installed and no override
\* appears.
Withheld == fwFile # "GOOD" \/ override # "NONE"
ErasedRecovers == app = "ERASED" /\ psk = "OTHER" ~> app = "VALID" \/ Withheld

----
\* Statements the code does not keep.

\* README: "the sensor is never left erased without a way back", whatever PSK
\* it holds.
AlwaysRecovers == app = "ERASED" ~> app = "VALID" \/ Withheld
=============================================================================
