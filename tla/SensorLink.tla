----------------------------- MODULE SensorLink -----------------------------
(***************************************************************************)
(* The commands of a verify, identify or enroll action as messages: each   *)
(* is sent, acknowledged and perhaps answered over a USB pipe that the     *)
(* driver empties only by a USB reset.  Messages carry no sequence number  *)
(* of their request; only the encrypted images are numbered, by the HMAC   *)
(* counter of GTLS or the record number of TLS.                            *)
(*                                                                         *)
(* A step of the host is the completion of one message of                  *)
(* goodix_cmd_ssm_handler (goodix53x5-transport.c) or of the cancellable   *)
(* read of a finger event, with the check the driver makes of it           *)
(* (goodix53x5-transport.c, -commands.c, -crypto.c, -tls.c) and the next   *)
(* command.  `pos` is the scan state whose command is outstanding, as in   *)
(* AuthSession.  The sensor is external: it answers commands in order,     *)
(* and an unread message waits in the pipe.                                *)
(***************************************************************************)
EXTENDS Naturals, Sequences

CONSTANTS
  Disturbances,\* those that may occur: "TRANSFER", "GARBLED", "SHORT", "CANCEL"
  MaxFaults,   \* bound on the faults of a behaviour
  MaxUnread,   \* bound on the messages, read or to come, an action may start with
  MaxImages    \* bound on the images of a session when an attempt starts

ASSUME LinkAssumption ==
  /\ Disturbances \subseteq {"TRANSFER", "GARBLED", "SHORT", "CANCEL"}
  /\ MaxFaults \in Nat /\ MaxUnread \in Nat /\ MaxImages \in Nat

VARIABLES
  \* --- the driver
  variant,       \* "GTLS" (53x5) or "TLS_PSK" (550c)
  action,        \* "NONE", "AUTH", "ENROLL"
  pos,           \* scan state whose command or wait is outstanding
  phase,         \* what it waits for: "NONE", "ACK", "DATA", "EVENT"
  needs_reinit,
  expected,      \* hmac_server_counter, or the TLS read sequence number
  tail,          \* is a part of a TLS record left in rbio?
  \* --- the sensor and the pipe
  out,           \* commands the sensor has not finished
  pipe,          \* messages the host has not read
  armed,         \* finger detection: "NONE", "FDT_DOWN", "FDT_UP"
  taken,         \* images encrypted since the handshake
  \* --- bound and history
  faults,
  took,          \* the message last accepted
  struck,        \* a fault struck the running action
  disturbed,     \* a fault or an abandoned wait since the last USB reset
  failures,      \* actions failed in a row, counted up to 3
  lastError      \* what the last action's SSM ended with

hostVars   == <<variant, action, pos, phase, needs_reinit, expected, tail>>
sensorVars == <<out, pipe, armed, taken>>
histVars   == <<faults, took, struck, disturbed, failures, lastError>>
vars == <<hostVars, sensorVars, histVars>>

IsTls == variant = "TLS_PSK"

----
\* The commands of the scan states (goodix53x5-scan.c).

CmdOf ==
  [REF_EC_ON |-> "EC", REF_REG_ON |-> "REG", REF_GET_IMAGE |-> "IMAGE",
   REF_REG_OFF |-> "REG", FW_EC_ON |-> "EC", FW_FDT_DOWN_SETUP |-> "FDT_DOWN",
   FW_FDT_CHECK |-> "FDT_MANUAL", CAP_REG_ON |-> "REG", CAP_GET_IMAGE |-> "IMAGE",
   CAP_REG_OFF |-> "REG", FU_FDT_UP_SETUP |-> "FDT_UP", FU_SLEEP |-> "SLEEP",
   FU_EC_OFF |-> "EC", DE_SLEEP |-> "SLEEP", DE_EC_OFF |-> "EC"]

Cmds == {"EC", "REG", "IMAGE", "FDT_DOWN", "FDT_UP", "FDT_MANUAL", "SLEEP"}
Waits == [FW_RECV_EVENT |-> "FDT_DOWN", FU_RECV_EVENT |-> "FDT_UP"]
FinishStates == {"FU_FDT_UP_SETUP", "FU_RECV_EVENT", "FU_SLEEP", "FU_EC_OFF",
                 "DE_SLEEP", "DE_EC_OFF"}
ActionStates == DOMAIN CmdOf \cup DOMAIN Waits

\* expect_data of the command encoders.
HasData(c) == c \in {"EC", "IMAGE", "FDT_MANUAL"}

FirstState == IF IsTls THEN "REF_REG_ON" ELSE "REF_EC_ON"

\* t is a state that follows s when the command or wait of s has succeeded.
Follows(s, t) ==
  \/ s \in {"REF_EC_ON", "REF_REG_ON"} /\ t = "REF_GET_IMAGE"
  \/ s = "REF_GET_IMAGE" /\ t = (IF IsTls THEN "REF_REG_OFF" ELSE "FW_EC_ON")
  \/ s \in {"REF_REG_OFF", "FW_EC_ON"} /\ t = "FW_FDT_DOWN_SETUP"
  \/ s = "FW_FDT_DOWN_SETUP" /\ t = "FW_RECV_EVENT"
  \/ s = "FW_RECV_EVENT" /\ t = "FW_FDT_CHECK"
  \/ s = "FW_FDT_CHECK" /\ t = "FW_FDT_DOWN_SETUP"
  \/ s = "FW_FDT_CHECK" /\ t = (IF IsTls THEN "CAP_REG_ON" ELSE "CAP_GET_IMAGE")
  \/ s = "CAP_REG_ON" /\ t = "CAP_GET_IMAGE"
  \/ s = "CAP_GET_IMAGE" /\ IsTls /\ t = "CAP_REG_OFF"
  \/ /\ s = (IF IsTls THEN "CAP_REG_OFF" ELSE "CAP_GET_IMAGE")
     /\ t = "FU_FDT_UP_SETUP" \/ (t = "DE_SLEEP" /\ action = "AUTH")
  \/ s = "FU_FDT_UP_SETUP" /\ t = "FU_RECV_EVENT"
  \/ s = "FU_RECV_EVENT" /\ t = "FU_SLEEP"
  \/ s = "FU_SLEEP" /\ ~IsTls /\ t = "FU_EC_OFF"
  \/ s = "DE_SLEEP" /\ ~IsTls /\ t = "DE_EC_OFF"
  \/ /\ s = (IF IsTls THEN "FU_SLEEP" ELSE "FU_EC_OFF")
     /\ t = "DONE" \/ (t = FirstState /\ action = "ENROLL" /\ taken <= MaxImages)
  \/ s = (IF IsTls THEN "DE_SLEEP" ELSE "DE_EC_OFF") /\ t = "DONE"

----
Kinds == {"ACK", "REPLY", "EVENT"}

\* A message of the pipe: what it answers, the number of an image, whether its
\* TLS record is incomplete, and whether a later command has been sent since.
Message == [kind : Kinds, of : Cmds, n : Nat, short : BOOLEAN, old : BOOLEAN]

\* A command the sensor has not finished.
Command == [of : Cmds, acked : BOOLEAN, old : BOOLEAN]

Cmd(c, acked, old) == [of |-> c, acked |-> acked, old |-> old]
Msg(kind, c, n, short, old) ==
  [kind |-> kind, of |-> c, n |-> n, short |-> short, old |-> old]
NoMsg == [kind |-> "NONE", of |-> "NONE", n |-> 0, short |-> FALSE, old |-> FALSE]

Aged(q) == [i \in DOMAIN q |-> [q[i] EXCEPT !.old = TRUE]]

Fault(kind) ==
  kind \in Disturbances /\ faults < MaxFaults /\ faults' = faults + 1

----
Init ==
  /\ variant \in {"GTLS", "TLS_PSK"}
  /\ action = "NONE" /\ pos = "CLOSED" /\ phase = "NONE" /\ needs_reinit = FALSE
  /\ expected = 0 /\ tail = FALSE
  /\ out = <<>> /\ pipe = <<>> /\ armed = "NONE" /\ taken = 0
  /\ faults = 0 /\ took = NoMsg /\ struck = FALSE /\ disturbed = FALSE
  /\ failures = 0 /\ lastError = "NONE"

\* A bug to tell apart: a wait for an event is run as a command.
MutantEnter(s) ==
  /\ pos' = s /\ phase' = "ACK"
  /\ IF s \in DOMAIN Waits THEN UNCHANGED out
     ELSE out' = Append(Aged(out), Cmd(CmdOf[s], FALSE, FALSE))
\* GOODIX_CMD_SEND for the command of s, or the cancellable read of a wait.
Enter(s) ==
  /\ pos' = s
  /\ IF s \in DOMAIN Waits
       THEN phase' = "EVENT" /\ UNCHANGED out
       ELSE /\ phase' = "ACK"
            /\ out' = Append(Aged(out), Cmd(CmdOf[s], FALSE, FALSE))

\* A bug to tell apart: the handshake keeps the counter of the last session.
MutantNewSession == UNCHANGED expected
\* goodix_crypto_gtls_derive_keys, or a new TLS connection.
NewSession == expected' = 0

\* A bug to tell apart: the sensor is reset, the pipe keeps its messages.
MutantLinkReset ==
  /\ armed' = "NONE" /\ taken' = 0 /\ disturbed' = FALSE
  /\ NewSession /\ tail' = FALSE /\ UNCHANGED pipe
\* The USB reset of the open SSM and the handshake that follows it.
LinkReset ==
  /\ pipe' = <<>> /\ armed' = "NONE" /\ taken' = 0
  /\ NewSession /\ tail' = FALSE
  /\ disturbed' = FALSE

\* goodix_verify_ssm_done and goodix_enroll_ssm_done: an error of the cleanup
\* after a match is dropped; only transport errors call for a reinitialization.
Reported(err) == IF action = "AUTH" /\ pos \in FinishStates /\ err # "CANCELLED"
                 THEN "NONE" ELSE err

\* goodix_error_indicates_stale_device
Stale(err) == err = "USB"

CountFailure(e, hit) ==
  IF e \in {"NONE", "CANCELLED"} THEN 0
  ELSE IF hit THEN 1 ELSE IF failures < 3 THEN failures + 1 ELSE 3

EndAction(err, hit) ==
  LET e == Reported(err)
  IN /\ action' = "NONE" /\ pos' = "IDLE" /\ phase' = "NONE"
     /\ needs_reinit' = (Stale(e) \/ (needs_reinit /\ e # "NONE"))
     /\ failures' = CountFailure(e, hit)
     /\ lastError' = err

----
\* Sessions and actions.

Open ==
  /\ pos = "CLOSED"
  /\ pos' = "IDLE" /\ needs_reinit' = FALSE
  /\ LinkReset /\ out' = <<>>
  /\ failures' = 0
  /\ UNCHANGED <<variant, action, phase, faults, took, struck, lastError>>

Close ==
  /\ pos = "IDLE"
  /\ pos' = "CLOSED"
  /\ UNCHANGED <<variant, action, phase, needs_reinit, expected, tail>>
  /\ UNCHANGED <<sensorVars, histVars>>

\* The action's first state, behind goodix_maybe_start_reinit_subsm.
Start ==
  /\ pos = "IDLE" /\ Len(pipe) + Len(out) <= MaxUnread /\ taken <= MaxImages
  /\ action' \in {"AUTH", "ENROLL"} /\ struck' = FALSE
  /\ IF needs_reinit
       THEN pos' = "REINIT" /\ UNCHANGED <<phase, out, pipe>>
       ELSE Enter(FirstState) /\ pipe' = Aged(pipe)
  /\ UNCHANGED <<variant, needs_reinit, expected, tail, armed, taken, faults, took,
                 disturbed, failures, lastError>>

ReinitOk ==
  /\ pos = "REINIT"
  /\ LinkReset
  /\ pos' = FirstState /\ phase' = "ACK"
  /\ out' = <<Cmd(CmdOf[FirstState], FALSE, FALSE)>>
  /\ needs_reinit' = FALSE
  /\ UNCHANGED <<variant, action, faults, took, struck, failures, lastError>>

ReinitFails ==
  /\ pos = "REINIT" /\ Fault("TRANSFER")
  /\ \E err \in {"USB", "PROTO"} : EndAction(err, TRUE)
  /\ struck' = TRUE /\ disturbed' = TRUE
  /\ UNCHANGED <<variant, expected, tail, sensorVars, took>>

----
\* The sensor.

SensorAck ==
  /\ out # <<>> /\ ~Head(out).acked
  /\ LET c == Head(out).of
     IN /\ pipe' = Append(pipe, Msg("ACK", c, 0, FALSE, Head(out).old))
        /\ out' = IF HasData(c) THEN <<Cmd(c, TRUE, Head(out).old)>> \o Tail(out)
                  ELSE Tail(out)
        /\ armed' = IF c \in {"FDT_DOWN", "FDT_UP"} THEN c
                    ELSE IF c = "SLEEP" THEN "NONE" ELSE armed
  /\ UNCHANGED <<hostVars, taken, histVars>>

\* The data reply; an image is the next of its session, and its TLS record may
\* be cut short.
SensorReply ==
  /\ out # <<>> /\ Head(out).acked
  /\ LET c == Head(out).of
         n == IF c = "IMAGE" THEN taken ELSE 0
     IN \/ /\ pipe' = Append(pipe, Msg("REPLY", c, n, FALSE, Head(out).old))
           /\ UNCHANGED <<faults, struck, disturbed>>
        \/ /\ c = "IMAGE" /\ IsTls /\ Fault("SHORT")
           /\ pipe' = Append(pipe, Msg("REPLY", c, n, TRUE, Head(out).old))
           /\ struck' = TRUE /\ disturbed' = TRUE
  /\ taken' = IF Head(out).of = "IMAGE" THEN taken + 1 ELSE taken
  /\ out' = Tail(out)
  /\ UNCHANGED <<hostVars, armed, took, failures, lastError>>

\* A finger comes or goes while its detection is armed.
SensorEvent ==
  /\ armed # "NONE"
  /\ pipe' = Append(pipe, Msg("EVENT", armed, 0, FALSE, FALSE))
  /\ armed' = "NONE"
  /\ UNCHANGED <<hostVars, out, taken, histVars>>

----
\* The host reads a message.

\* goodix_validate_ack_for_cmd
AckValid(m) == m.kind = "ACK" /\ m.of = CmdOf[pos]

\* goodix_crypto_gtls_decrypt_sensor_data's HMAC over the counter, or OpenSSL's
\* record MAC: anything but the expected image fails.
Decrypts(m) == m.kind = "REPLY" /\ m.of = "IMAGE" /\ m.n = expected /\ ~tail

\* goodix_parse_reply_exact; an image reply is known by its encryption only.
ReplyValid(m) == IF CmdOf[pos] = "IMAGE" THEN Decrypts(m)
                 ELSE m.kind = "REPLY" /\ m.of = CmdOf[pos]

\* goodix_cmd_parse_fdt_event
EventValid(m) == m.kind = "EVENT" /\ m.of = Waits[pos]

Accepts(m) == \/ phase = "ACK"   /\ AckValid(m)
              \/ phase = "DATA"  /\ ReplyValid(m)
              \/ phase = "EVENT" /\ EventValid(m)

\* The command or wait of pos is done.
Advance(s) ==
  IF s = "DONE"
    THEN EndAction("NONE", FALSE) /\ pipe' = Tail(pipe) /\ UNCHANGED out
    ELSE /\ Enter(s)
         /\ pipe' = IF s \in DOMAIN Waits THEN Tail(pipe) ELSE Aged(Tail(pipe))
         /\ UNCHANGED <<action, needs_reinit, failures, lastError>>

Accept ==
  /\ phase # "NONE" /\ pipe # <<>> /\ Accepts(Head(pipe)) /\ ~Head(pipe).short
  /\ took' = Head(pipe)
  /\ IF phase = "ACK" /\ HasData(CmdOf[pos])
       THEN /\ phase' = "DATA" /\ pipe' = Tail(pipe)
            /\ UNCHANGED <<action, pos, needs_reinit, failures, lastError, out>>
       ELSE \E s \in ActionStates \cup {"DONE"} : Follows(pos, s) /\ Advance(s)
  /\ expected' = IF phase = "DATA" /\ CmdOf[pos] = "IMAGE" THEN expected + 1 ELSE expected
  /\ UNCHANGED <<variant, tail, armed, taken, faults, struck, disturbed>>

\* goodix_tls_decrypt with an incomplete record: no plaintext, no error, and
\* the part stays in rbio.  The SSM is failed with a NULL error; what libfprint
\* makes of that is not known here, the model goes on as after any error.
AcceptShort ==
  /\ phase = "DATA" /\ pipe # <<>> /\ Head(pipe).short /\ Accepts(Head(pipe))
  /\ pipe' = Tail(pipe) /\ tail' = TRUE
  /\ EndAction("NULL", struck)
  /\ UNCHANGED <<variant, expected, out, armed, taken, faults, took, struck, disturbed>>

\* The message is another than the one awaited.
Refuse ==
  /\ phase # "NONE" /\ pipe # <<>> /\ ~Accepts(Head(pipe))
  /\ pipe' = Tail(pipe)
  /\ EndAction("PROTO", struck)
  /\ UNCHANGED <<variant, expected, tail, out, armed, taken>>
  /\ UNCHANGED <<faults, took, struck, disturbed>>

\* A message does not reassemble, or fails its checksum.
Garbled ==
  /\ phase # "NONE" /\ pipe # <<>> /\ Fault("GARBLED")
  /\ pipe' = Tail(pipe)
  /\ EndAction("PROTO", TRUE)
  /\ struck' = TRUE /\ disturbed' = TRUE
  /\ UNCHANGED <<variant, expected, tail, out, armed, taken, took>>

\* A transfer fails or times out; the command may yet be answered.
TransferFails ==
  /\ phase # "NONE" /\ Fault("TRANSFER")
  /\ EndAction("USB", TRUE)
  /\ struck' = TRUE /\ disturbed' = TRUE
  /\ UNCHANGED <<variant, expected, tail, sensorVars, took>>

\* goodix_cancel reaches the cancellable read.
CancelWait ==
  /\ phase = "EVENT" /\ "CANCEL" \in Disturbances
  /\ EndAction("CANCELLED", struck)
  /\ disturbed' = TRUE
  /\ UNCHANGED <<variant, expected, tail, sensorVars, faults, took, struck>>

----
Sensor == SensorAck \/ SensorReply \/ SensorEvent
Read == Accept \/ AcceptShort \/ Refuse \/ Garbled
Next == Open \/ Close \/ Start \/ ReinitOk \/ ReinitFails \/ Sensor \/ Read
          \/ TransferFails \/ CancelWait

Spec == Init /\ [][Next]_vars

----
\* Type invariant, with the scan states that belong to each phase.
PhaseOK ==
  \/ phase = "NONE"  /\ pos \in {"CLOSED", "IDLE", "REINIT"}
  \/ phase = "ACK"   /\ pos \in DOMAIN CmdOf
  \/ phase = "DATA"  /\ pos \in DOMAIN CmdOf /\ HasData(CmdOf[pos])
  \/ phase = "EVENT" /\ pos \in DOMAIN Waits

DriverOK ==
  /\ variant \in {"GTLS", "TLS_PSK"} /\ action \in {"NONE", "AUTH", "ENROLL"}
  /\ needs_reinit \in BOOLEAN /\ expected \in Nat /\ tail \in BOOLEAN

SensorOK ==
  /\ out \in Seq(Command) /\ pipe \in Seq(Message)
  /\ armed \in {"NONE", "FDT_DOWN", "FDT_UP"} /\ taken \in Nat

HistoryOK ==
  /\ faults \in 0 .. MaxFaults /\ took \in Message \cup {NoMsg}
  /\ struck \in BOOLEAN /\ disturbed \in BOOLEAN /\ failures \in 0 .. 3
  /\ lastError \in {"NONE", "NULL", "PROTO", "USB", "CANCELLED"}

TypeOK == PhaseOK /\ DriverOK /\ SensorOK /\ HistoryOK

\* What is under way when driver and sensor are in step: commands the sensor has
\* not finished, unread messages, armed detection, and images sent but unread.
UnderWay(o, p, a, images) ==
  out = o /\ pipe = p /\ armed = a /\ taken = expected + images

Asked(acked) == <<Cmd(CmdOf[pos], acked, FALSE)>>
AckDue       == Msg("ACK", CmdOf[pos], 0, FALSE, FALSE)
ReplyDue     == Msg("REPLY", CmdOf[pos], IF CmdOf[pos] = "IMAGE" THEN expected ELSE 0,
                    FALSE, FALSE)
EventDue(c)  == Msg("EVENT", c, 0, FALSE, FALSE)
ImagesDue    == IF CmdOf[pos] = "IMAGE" THEN 1 ELSE 0
Arms         == CmdOf[pos] \in {"FDT_DOWN", "FDT_UP"}

IdleStep  == UnderWay(<<>>, <<>>, "NONE", 0)
AckStep   ==
  \/ UnderWay(Asked(FALSE), <<>>, "NONE", 0)
  \/ /\ HasData(CmdOf[pos])
     /\ \/ UnderWay(Asked(TRUE), <<AckDue>>, "NONE", 0)
        \/ UnderWay(<<>>, <<AckDue, ReplyDue>>, "NONE", ImagesDue)
  \/ /\ ~HasData(CmdOf[pos])
     /\ UnderWay(<<>>, <<AckDue>>, IF Arms THEN CmdOf[pos] ELSE "NONE", 0)
  \/ Arms /\ UnderWay(<<>>, <<AckDue, EventDue(CmdOf[pos])>>, "NONE", 0)
DataStep  == \/ UnderWay(Asked(TRUE), <<>>, "NONE", 0)
             \/ UnderWay(<<>>, <<ReplyDue>>, "NONE", ImagesDue)
EventStep == \/ UnderWay(<<>>, <<>>, Waits[pos], 0)
             \/ UnderWay(<<>>, <<EventDue(Waits[pos])>>, "NONE", 0)

\* Driver and sensor are in step unless a fault or an abandoned wait has come
\* between them since the last USB reset: what the sensor has yet to answer and
\* what the pipe holds are exactly what the driver's state waits for.
InStep ==
  ~disturbed =>
    /\ ~tail
    /\ phase = "NONE"  => IdleStep
    /\ phase = "ACK"   => AckStep
    /\ phase = "DATA"  => DataStep
    /\ phase = "EVENT" => EventStep

\* Without a fault or an abandoned wait since the reset no message is refused
\* and none is taken that answers an earlier command of the driver.
AnswersMatch ==
  [][/\ Refuse \/ AcceptShort => disturbed
     /\ Accept /\ Head(pipe).old => disturbed]_vars

\* "Reinitialize on the next attempt so one failed auth self-heals instead of
\* failing forever" (goodix53x5-auth.c:472-476): with failures of transfers only,
\* no two actions in a row fail that no fault has struck.
SelfHeals == failures < 2

\* goodix_550c_decrypt_image "Returns newly-allocated plaintext (free with g_free)
\* or NULL with @error set" (goodix53x5-transport.c:156-158): no action is failed
\* without an error.
ImageOrError == lastError # "NULL"
=============================================================================
