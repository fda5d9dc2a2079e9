-------------------------- MODULE SensorLink_proofs --------------------------
(***************************************************************************)
(* The driver and the sensor stay in step on an undisturbed link, for every *)
(* bound on faults, unread messages and images.                            *)
(***************************************************************************)
EXTENDS SensorLink, SequenceTheorems, TLAPS

Inv == TypeOK /\ InStep

----
(* Short sequences, and messages made old. *)

\* Heads and tails of the two sequences the pipe can hold in step.
LEMMA OneMessage ==
  ASSUME NEW m
  PROVE  /\ Head(<<m>>) = m /\ Tail(<<m>>) = <<>> /\ <<m>> # <<>>
         /\ Append(<<>>, m) = <<m>>
         /\ <<m>> \o <<>> = <<m>>
  OBVIOUS

LEMMA OneTyped ==
  ASSUME NEW S, NEW m \in S PROVE <<m>> \in Seq(S)
  OBVIOUS

LEMMA TwoMessages ==
  ASSUME NEW m, NEW k
  PROVE  /\ Head(<<m, k>>) = m /\ Tail(<<m, k>>) = <<k>> /\ <<m, k>> # <<>>
         /\ Append(<<m>>, k) = <<m, k>>
<1>1. Head(<<m, k>>) = m /\ <<m, k>> # <<>> OBVIOUS
<1>2. Tail(<<m, k>>) = <<k>> OBVIOUS
<1>3. /\ <<m>> \in Seq({m, k}) /\ <<m, k>> \in Seq({m, k})
      /\ Len(<<m>>) = 1 /\ Len(<<m, k>>) = 2
  OBVIOUS
<1>4. /\ Append(<<m>>, k) \in Seq({m, k}) /\ Len(Append(<<m>>, k)) = 2
      /\ Append(<<m>>, k)[1] = m /\ Append(<<m>>, k)[2] = k
  BY <1>3, AppendProperties
<1>5. \A i \in 1 .. 2 : Append(<<m>>, k)[i] = <<m, k>>[i]
  BY <1>4
<1>6. Append(<<m>>, k) = <<m, k>> BY <1>3, <1>4, <1>5, SeqEqual
<1> QED BY <1>1, <1>2, <1>6

LEMMA AgedMessages ==
  ASSUME NEW q \in Seq(Message) PROVE Aged(q) \in Seq(Message)
<1>1. DOMAIN q = 1 .. Len(q) /\ Len(q) \in Nat
  BY LenProperties
<1>2. \A m \in Message : [m EXCEPT !.old = TRUE] \in Message
  BY DEF Message
<1>3. \A i \in DOMAIN q : q[i] \in Message
  BY <1>1, ElementOfSeq
<1>4. \A i \in DOMAIN q : [q[i] EXCEPT !.old = TRUE] \in Message
  BY <1>2, <1>3, Zenon
<1>5. [i \in DOMAIN q |-> [q[i] EXCEPT !.old = TRUE]] \in [DOMAIN q -> Message]
  BY <1>4, Zenon
<1>6. Aged(q) \in [1 .. Len(q) -> Message]
  BY <1>1, <1>5, Zenon DEF Aged
<1> QED BY <1>1, <1>6, SeqDef

LEMMA AgedCommands ==
  ASSUME NEW q \in Seq(Command) PROVE Aged(q) \in Seq(Command)
<1>1. DOMAIN q = 1 .. Len(q) /\ Len(q) \in Nat
  BY LenProperties
<1>2. \A m \in Command : [m EXCEPT !.old = TRUE] \in Command
  BY DEF Command
<1>3. \A i \in DOMAIN q : q[i] \in Command
  BY <1>1, ElementOfSeq
<1>4. \A i \in DOMAIN q : [q[i] EXCEPT !.old = TRUE] \in Command
  BY <1>2, <1>3, Zenon
<1>5. [i \in DOMAIN q |-> [q[i] EXCEPT !.old = TRUE]] \in [DOMAIN q -> Command]
  BY <1>4, Zenon
<1>6. Aged(q) \in [1 .. Len(q) -> Command]
  BY <1>1, <1>5, Zenon DEF Aged
<1> QED BY <1>1, <1>6, SeqDef

LEMMA AgedEmpty == Aged(<<>>) = <<>>
<1>1. Aged(<<>>) \in Seq(Message) BY EmptySeq, AgedMessages
<1>2. DOMAIN <<>> = {} OBVIOUS
<1>3. DOMAIN Aged(<<>>) = {} BY <1>2 DEF Aged
<1>4. Len(Aged(<<>>)) = 0 BY <1>1, <1>3, LenProperties
<1> QED BY <1>1, <1>4, EmptySeq

----
(* The scan's order of commands. *)

\* A wait follows the command that arms it, and nothing else does.
LEMMA Script ==
  ASSUME NEW s \in ActionStates, NEW t \in ActionStates \cup {"DONE"}, Follows(s, t)
  PROVE  /\ s \in DOMAIN Waits => t \notin DOMAIN Waits
         /\ s \in DOMAIN CmdOf /\ t \in DOMAIN Waits =>
              CmdOf[s] = Waits[t] /\ CmdOf[s] \in {"FDT_DOWN", "FDT_UP"}
         /\ s \in DOMAIN CmdOf /\ t \notin DOMAIN Waits =>
              CmdOf[s] \notin {"FDT_DOWN", "FDT_UP"}
  BY DEF Follows, ActionStates, CmdOf, Waits, FirstState, IsTls

\* What the tables hold.
LEMMA Tables ==
  /\ \A s \in DOMAIN CmdOf : CmdOf[s] \in Cmds
  /\ \A s \in DOMAIN Waits : Waits[s] \in {"FDT_DOWN", "FDT_UP"} /\ Waits[s] \in Cmds
  /\ DOMAIN CmdOf \cap DOMAIN Waits = {}
  /\ FirstState \in DOMAIN CmdOf /\ CmdOf[FirstState] \notin {"FDT_DOWN", "FDT_UP"}
  /\ {"DONE", "NONE", "CLOSED", "IDLE", "REINIT"} \cap ActionStates = {}
  /\ ActionStates = DOMAIN CmdOf \cup DOMAIN Waits
  BY DEF CmdOf, Waits, Cmds, FirstState, IsTls, ActionStates

----
(* What the parts of the actions leave behind. *)

Errors == {"NONE", "NULL", "PROTO", "USB", "CANCELLED"}

\* A message built from a kind and a command is one of the pipe's.
LEMMA MessagesTyped ==
  ASSUME NEW k \in Kinds, NEW c \in Cmds, NEW n \in Nat, NEW short \in BOOLEAN,
         NEW old \in BOOLEAN
  PROVE  Msg(k, c, n, short, old) \in Message
  BY DEF Msg, Message

\* A state entered sends its command, or waits.
LEMMA EnterTyped ==
  ASSUME SensorOK, NEW s \in ActionStates, Enter(s)
  PROVE  out' \in Seq(Command) /\ PhaseOK' /\ pos' = s /\ phase' \in {"ACK", "EVENT"}
<1>1. CASE s \in DOMAIN Waits
  BY <1>1, Tables DEF Enter, PhaseOK, SensorOK
<1>2. CASE s \notin DOMAIN Waits
  <2>1. s \in DOMAIN CmdOf /\ CmdOf[s] \in Cmds BY <1>2, Tables
  <2>2. Cmd(CmdOf[s], FALSE, FALSE) \in Command
    BY <2>1 DEF Cmd, Command
  <2>3. Aged(out) \in Seq(Command) BY AgedCommands DEF SensorOK
  <2>4. out' = Append(Aged(out), Cmd(CmdOf[s], FALSE, FALSE))
    BY <1>2 DEF Enter
  <2>5. out' \in Seq(Command) BY <2>2, <2>3, <2>4, AppendProperties
  <2> QED BY <1>2, <2>1, <2>5 DEF Enter, PhaseOK
<1> QED BY <1>1, <1>2

\* An action that ends, with or without an error, is typed.
LEMMA EndTyped ==
  ASSUME TypeOK, NEW err \in Errors, NEW hit \in BOOLEAN, EndAction(err, hit)
  PROVE  /\ PhaseOK' /\ phase' = "NONE" /\ action' = "NONE" /\ needs_reinit' \in BOOLEAN
         /\ failures' \in 0 .. 3 /\ lastError' \in Errors
<1>1. needs_reinit' \in BOOLEAN
  BY Zenon DEF EndAction, Stale
<1>2. failures' \in 0 .. 3
  BY DEF EndAction, CountFailure, TypeOK, HistoryOK
<1> QED BY <1>1, <1>2 DEF EndAction, PhaseOK, Errors

----
(* The invariant. *)

\* Nothing has gone wrong before the device is opened.
LEMMA InitInv == Init => Inv
<1> SUFFICES ASSUME Init PROVE Inv OBVIOUS
<1>1. TypeOK
  <2>1. PhaseOK /\ DriverOK BY DEF Init, PhaseOK, DriverOK
  <2>2. SensorOK BY EmptySeq DEF Init, SensorOK
  <2>3. took \in Message \cup {NoMsg} /\ faults \in 0 .. MaxFaults
    BY LinkAssumption DEF Init
  <2>4. struck \in BOOLEAN /\ disturbed \in BOOLEAN BY Zenon DEF Init
  <2>5. failures \in 0 .. 3 /\ lastError \in Errors BY DEF Init, Errors
  <2>6. HistoryOK BY <2>3, <2>4, <2>5, Zenon DEF HistoryOK, Errors
  <2> QED BY <2>1, <2>2, <2>6 DEF TypeOK
<1>2. InStep
  BY DEF Init, InStep, IdleStep, UnderWay
<1> QED BY <1>1, <1>2 DEF Inv

\* In step, the message at hand is the one awaited, and it is new.
LEMMA HeadMatches ==
  ASSUME Inv, ~disturbed, phase # "NONE", pipe # <<>>
  PROVE  Accepts(Head(pipe)) /\ ~Head(pipe).short /\ ~Head(pipe).old
<1> USE DEF Inv, InStep, UnderWay
<1>1. CASE phase = "ACK"
  <2>1. Head(pipe) = AckDue
    BY <1>1, OneMessage, TwoMessages DEF AckStep
  <2> QED BY <1>1, <2>1 DEF AckDue, Msg, Accepts, AckValid
<1>2. CASE phase = "DATA"
  <2>1. Head(pipe) = ReplyDue
    BY <1>2, OneMessage DEF DataStep
  <2> QED BY <1>2, <2>1 DEF ReplyDue, Msg, Accepts, ReplyValid, Decrypts
<1>3. CASE phase = "EVENT"
  <2>1. Head(pipe) = EventDue(Waits[pos])
    BY <1>3, OneMessage DEF EventStep
  <2> QED BY <1>3, <2>1 DEF EventDue, Msg, Accepts, EventValid
<1> QED BY <1>1, <1>2, <1>3 DEF TypeOK, PhaseOK

\* The pipe may lose its head.
LEMMA TailTyped ==
  ASSUME SensorOK, pipe # <<>>
  PROVE  Tail(pipe) \in Seq(Message) /\ Head(pipe) \in Message
  BY HeadTailProperties DEF SensorOK

LEMMA OpenStep == Inv /\ Open => Inv'
<1> SUFFICES ASSUME Inv, Open PROVE Inv' OBVIOUS
<1> USE DEF Inv, TypeOK
<1>1. PhaseOK' /\ phase' = "NONE" BY Tables DEF Open, PhaseOK, ActionStates
<1>2. DriverOK' BY DEF Open, LinkReset, NewSession, DriverOK
<1>3. SensorOK' BY EmptySeq DEF Open, LinkReset, SensorOK
<1>4. HistoryOK'
  <2>1. struck' \in BOOLEAN /\ disturbed' \in BOOLEAN
    BY Zenon DEF Open, LinkReset, HistoryOK
  <2>2. faults' \in 0 .. MaxFaults /\ took' \in Message \cup {NoMsg}
    BY DEF Open, HistoryOK
  <2>3. failures' \in 0 .. 3 BY DEF Open
  <2>4. lastError' \in Errors BY DEF Open, HistoryOK, Errors
  <2> QED BY <2>1, <2>2, <2>3, <2>4, Zenon DEF HistoryOK, Errors
<1>5. InStep' BY <1>1 DEF Open, LinkReset, NewSession, InStep, IdleStep, UnderWay
<1> QED BY <1>1, <1>2, <1>3, <1>4, <1>5

LEMMA CloseStep == Inv /\ Close => Inv'
<1> SUFFICES ASSUME Inv, Close PROVE Inv' OBVIOUS
<1> USE DEF Inv, TypeOK
<1>1. PhaseOK' /\ phase' = "NONE" /\ phase = "NONE"
  BY Tables DEF Close, PhaseOK, ActionStates
<1>2. DriverOK' /\ SensorOK' /\ HistoryOK'
  BY DEF Close, DriverOK, SensorOK, HistoryOK, sensorVars, histVars
<1>3. InStep'
  BY <1>1 DEF Close, InStep, IdleStep, UnderWay, sensorVars, histVars
<1> QED BY <1>1, <1>2, <1>3

LEMMA StartStep == Inv /\ Start => Inv'
<1> SUFFICES ASSUME Inv, Start PROVE Inv' OBVIOUS
<1> USE DEF Inv, TypeOK
<1>1. phase = "NONE" /\ FirstState \in DOMAIN CmdOf /\ FirstState \in ActionStates
      /\ FirstState \notin DOMAIN Waits
  BY Tables DEF Start, PhaseOK
<1>2. DriverOK' BY DEF Start, DriverOK
<1>3. HistoryOK' BY DEF Start, HistoryOK
<1>4. CASE needs_reinit
  <2>1. PhaseOK' /\ phase' = "NONE" BY <1>1, <1>4 DEF Start, PhaseOK
  <2>2. SensorOK' BY <1>4 DEF Start, SensorOK
  <2>3. InStep' BY <1>1, <1>4, <2>1 DEF Start, InStep, IdleStep, UnderWay
  <2> QED BY <1>2, <1>3, <2>1, <2>2, <2>3
<1>5. CASE ~needs_reinit
  <2>1. Enter(FirstState) /\ pipe' = Aged(pipe) BY <1>5 DEF Start
  <2>2. PhaseOK' /\ out' \in Seq(Command) BY <1>1, <2>1, EnterTyped
  <2>3. SensorOK' BY <2>1, <2>2, AgedMessages DEF Start, SensorOK
  <2>4. ASSUME ~disturbed' PROVE phase' = "ACK" /\ ~tail' /\ AckStep'
    <3>1. phase' = "ACK" /\ pos' = FirstState BY <1>1, <2>1 DEF Enter
    <3>2. ~disturbed /\ ~tail /\ IdleStep BY <1>1, <2>4 DEF Start, InStep
    <3>3. out' = <<Cmd(CmdOf[FirstState], FALSE, FALSE)>>
      BY <1>1, <2>1, <3>2, AgedEmpty, OneMessage DEF Enter, IdleStep, UnderWay
    <3>4. pipe' = <<>> BY <2>1, <3>2, AgedEmpty DEF IdleStep, UnderWay
    <3> QED
      BY <3>1, <3>2, <3>3, <3>4 DEF Start, AckStep, Asked, IdleStep, UnderWay
  <2>5. InStep' BY <2>4 DEF InStep
  <2> QED BY <1>2, <1>3, <2>2, <2>3, <2>5
<1> QED BY <1>4, <1>5

LEMMA ReinitOkStep == Inv /\ ReinitOk => Inv'
<1> SUFFICES ASSUME Inv, ReinitOk PROVE Inv' OBVIOUS
<1> USE DEF Inv, TypeOK
<1>1. FirstState \in DOMAIN CmdOf /\ CmdOf[FirstState] \in Cmds BY Tables
<1>2. PhaseOK' /\ phase' = "ACK" BY <1>1 DEF ReinitOk, PhaseOK
<1>3. DriverOK' BY DEF ReinitOk, LinkReset, NewSession, DriverOK
<1>4. HistoryOK' BY DEF ReinitOk, LinkReset, HistoryOK
<1>5. Cmd(CmdOf[FirstState], FALSE, FALSE) \in Command
  BY <1>1 DEF Cmd, Command
<1>6. out' \in Seq(Command) BY <1>5, OneTyped DEF ReinitOk
<1>7. SensorOK' BY <1>6, EmptySeq DEF ReinitOk, LinkReset, SensorOK
<1>8. InStep'
  BY <1>2 DEF ReinitOk, LinkReset, NewSession, InStep, AckStep, Asked, UnderWay
<1> QED BY <1>2, <1>3, <1>4, <1>7, <1>8

LEMMA ReinitFailsStep == Inv /\ ReinitFails => Inv'
<1> SUFFICES ASSUME Inv, ReinitFails PROVE Inv' OBVIOUS
<1> USE DEF Inv, TypeOK
<1>1. PICK err \in {"USB", "PROTO"} : EndAction(err, TRUE) BY DEF ReinitFails
<1>2. /\ PhaseOK' /\ action' = "NONE" /\ needs_reinit' \in BOOLEAN
      /\ failures' \in 0 .. 3 /\ lastError' \in Errors
  BY <1>1, EndTyped DEF Errors
<1>3. DriverOK' BY <1>2 DEF ReinitFails, DriverOK
<1>4. SensorOK' BY DEF ReinitFails, SensorOK, sensorVars
<1>5. HistoryOK' BY <1>2, LinkAssumption DEF ReinitFails, Fault, HistoryOK, Errors
<1>6. InStep' BY DEF ReinitFails, InStep
<1> QED BY <1>2, <1>3, <1>4, <1>5, <1>6

USE DEF Cmd, Msg

LEMMA SensorAckStep == Inv /\ SensorAck => Inv'
<1> SUFFICES ASSUME Inv, SensorAck PROVE Inv' OBVIOUS
<1> USE DEF Inv, TypeOK
<1> DEFINE c == Head(out).of
           ack == Msg("ACK", c, 0, FALSE, Head(out).old)
           left == IF HasData(c) THEN <<Cmd(c, TRUE, Head(out).old)>> \o Tail(out)
                   ELSE Tail(out)
<1>1. /\ out # <<>> /\ ~Head(out).acked
      /\ pipe' = Append(pipe, ack) /\ out' = left
      /\ armed' = (IF c \in {"FDT_DOWN", "FDT_UP"} THEN c
                  ELSE IF c = "SLEEP" THEN "NONE" ELSE armed)
  BY DEF SensorAck
<1>2. UNCHANGED <<hostVars, taken, histVars>> BY DEF SensorAck
<1>3. Head(out) \in Command /\ Tail(out) \in Seq(Command)
  BY <1>1, HeadTailProperties DEF SensorOK
<1>4. c \in Cmds /\ Head(out).old \in BOOLEAN BY <1>3 DEF Command
<1>5. ack \in Message BY <1>4, MessagesTyped DEF Kinds
<1>6. pipe' \in Seq(Message) BY <1>1, <1>5, AppendProperties DEF SensorOK
<1>7. Cmd(c, TRUE, Head(out).old) \in Command BY <1>4 DEF Cmd, Command
<1>8. out' \in Seq(Command)
  <2>1. <<Cmd(c, TRUE, Head(out).old)>> \in Seq(Command) BY <1>7, OneTyped
  <2>2. <<Cmd(c, TRUE, Head(out).old)>> \o Tail(out) \in Seq(Command)
    BY <2>1, <1>3, ConcatProperties
  <2> QED BY <1>1, <1>3, <2>2
<1>9. SensorOK' BY <1>1, <1>2, <1>6, <1>8 DEF SensorOK
<1>10. PhaseOK' BY <1>2 DEF PhaseOK, hostVars
<1>11. DriverOK' BY <1>2 DEF DriverOK, hostVars
<1>12. HistoryOK' BY <1>2 DEF HistoryOK, histVars
<1>13. ASSUME ~disturbed' PROVE phase' = "ACK" /\ ~tail' /\ AckStep'
  <2>1. ~disturbed /\ ~tail BY <1>2, <1>13 DEF InStep, histVars
  <2>2. phase = "ACK" /\ UnderWay(Asked(FALSE), <<>>, "NONE", 0)
    BY <1>1, <2>1, OneMessage
       DEF InStep, PhaseOK, IdleStep, AckStep, DataStep, EventStep, UnderWay, Asked
  <2>3. out = <<Cmd(CmdOf[pos], FALSE, FALSE)>> /\ pipe = <<>>
        /\ armed = "NONE" /\ taken = expected
    BY <2>2 DEF UnderWay, Asked, DriverOK
  <2>4. Head(out) = Cmd(CmdOf[pos], FALSE, FALSE) /\ Tail(out) = <<>>
    BY <2>3, OneMessage
  <2>5. c = CmdOf[pos] /\ Head(out).old = FALSE BY <2>4
  <2>11. ack = AckDue BY <2>5 DEF AckDue
  <2>6. pipe' = <<AckDue>> BY <1>1, <2>3, <2>11, OneMessage
  <2>7. UNCHANGED <<phase, pos, expected, tail, taken>> BY <1>2 DEF hostVars
  <2>8. AckDue' = AckDue BY <2>7 DEF AckDue
  <2>9. CASE HasData(c)
    <3>2. out' = Asked(TRUE) BY <1>1, <2>4, <2>5, <2>9, OneMessage DEF Asked
    <3>3. armed' = "NONE" BY <1>1, <2>3, <2>9 DEF HasData
    <3> QED
      BY <2>1, <2>2, <2>3, <2>5, <2>6, <2>7, <2>8, <2>9, <3>2, <3>3
         DEF AckStep, UnderWay, Asked, DriverOK
  <2>10. CASE ~HasData(c)
    <3>1. out' = <<>> BY <1>1, <2>4, <2>10
    <3>2. armed' = IF Arms THEN CmdOf[pos] ELSE "NONE" BY <1>1, <2>3, <2>5 DEF Arms
    <3> QED
      BY <2>1, <2>2, <2>3, <2>5, <2>6, <2>7, <2>8, <2>10, <3>1, <3>2
         DEF AckStep, UnderWay, Arms, DriverOK
  <2> QED BY <2>9, <2>10
<1>14. InStep' BY <1>13 DEF InStep
<1> QED BY <1>9, <1>10, <1>11, <1>12, <1>14

LEMMA SensorReplyStep == Inv /\ SensorReply => Inv'
<1> SUFFICES ASSUME Inv, SensorReply PROVE Inv' OBVIOUS
<1> USE DEF Inv, TypeOK
<1> DEFINE c == Head(out).of
           n == IF c = "IMAGE" THEN taken ELSE 0
           whole == Msg("REPLY", c, n, FALSE, Head(out).old)
           part == Msg("REPLY", c, n, TRUE, Head(out).old)
<1>1. /\ out # <<>> /\ Head(out).acked /\ out' = Tail(out)
      /\ taken' = (IF c = "IMAGE" THEN taken + 1 ELSE taken)
      /\ UNCHANGED <<hostVars, armed, took, failures, lastError>>
  BY DEF SensorReply
<1>2. \/ pipe' = Append(pipe, whole) /\ UNCHANGED <<faults, struck, disturbed>>
      \/ pipe' = Append(pipe, part) /\ Fault("SHORT") /\ struck' = TRUE /\ disturbed' = TRUE
  BY DEF SensorReply
<1>3. Head(out) \in Command /\ Tail(out) \in Seq(Command)
  BY <1>1, HeadTailProperties DEF SensorOK
<1>4. c \in Cmds /\ Head(out).old \in BOOLEAN BY <1>3 DEF Command
<1>5. whole \in Message /\ part \in Message
  <2>1. n \in Nat BY DEF SensorOK
  <2>2. "REPLY" \in Kinds BY DEF Kinds
  <2> QED BY <1>4, <2>1, <2>2, MessagesTyped
<1>6. pipe' \in Seq(Message)
  <2>1. Append(pipe, whole) \in Seq(Message) /\ Append(pipe, part) \in Seq(Message)
    BY <1>5, AppendProperties DEF SensorOK
  <2> QED BY <1>2, <2>1
<1>7. SensorOK' BY <1>1, <1>3, <1>6 DEF SensorOK
<1>8. PhaseOK' BY <1>1 DEF PhaseOK, hostVars
<1>9. DriverOK' BY <1>1 DEF DriverOK, hostVars
<1>10. HistoryOK'
  <2>1. faults' \in 0 .. MaxFaults BY <1>2, LinkAssumption DEF HistoryOK, Fault
  <2>2. struck' \in BOOLEAN /\ disturbed' \in BOOLEAN
    BY <1>2, Zenon DEF HistoryOK
  <2>3. UNCHANGED <<took, failures, lastError>> BY <1>1
  <2> QED BY <2>1, <2>2, <2>3 DEF HistoryOK
<1>11. ASSUME ~disturbed' PROVE InStep'
  <2>1. ~disturbed /\ ~tail /\ pipe' = Append(pipe, whole)
    BY <1>2, <1>11 DEF InStep
  <2>2. \/ /\ phase = "ACK" /\ HasData(CmdOf[pos])
           /\ UnderWay(Asked(TRUE), <<AckDue>>, "NONE", 0)
        \/ phase = "DATA" /\ UnderWay(Asked(TRUE), <<>>, "NONE", 0)
    BY <1>1, <2>1, OneMessage
       DEF InStep, PhaseOK, IdleStep, AckStep, DataStep, EventStep, UnderWay, Asked
  <2>3. /\ out = <<Cmd(CmdOf[pos], TRUE, FALSE)>>
        /\ armed = "NONE" /\ taken = expected
    BY <2>2 DEF UnderWay, Asked, DriverOK
  <2>4. Head(out) = Cmd(CmdOf[pos], TRUE, FALSE) /\ Tail(out) = <<>>
    BY <2>3, OneMessage
  <2>5. c = CmdOf[pos] /\ Head(out).old = FALSE BY <2>4 DEF Cmd
  <2>11. whole = ReplyDue BY <2>3, <2>5 DEF ReplyDue
  <2>6. UNCHANGED <<phase, pos, expected, tail, armed>> BY <1>1 DEF hostVars
  <2>7. AckDue' = AckDue /\ ReplyDue' = ReplyDue /\ ImagesDue' = ImagesDue
    BY <2>6 DEF AckDue, ReplyDue, ImagesDue
  <2>8. taken' = expected + ImagesDue
    BY <1>1, <2>3, <2>5 DEF ImagesDue, DriverOK
  <2>9. CASE phase = "ACK"
    <3>0. pipe = <<AckDue>> BY <2>2, <2>9 DEF UnderWay
    <3>1. pipe' = <<AckDue, ReplyDue>>
      BY <2>1, <2>11, <3>0, TwoMessages
    <3> QED
      BY <1>1, <2>1, <2>2, <2>3, <2>4, <2>6, <2>7, <2>8, <2>9, <3>1
         DEF InStep, AckStep, UnderWay
  <2>10. CASE phase = "DATA"
    <3>1. pipe' = <<ReplyDue>>
      BY <2>1, <2>2, <2>10, <2>11, OneMessage DEF UnderWay
    <3> QED
      BY <1>1, <2>1, <2>2, <2>3, <2>4, <2>6, <2>7, <2>8, <2>10, <3>1
         DEF InStep, DataStep, UnderWay
  <2> QED BY <2>2, <2>9, <2>10
<1>12. InStep' BY <1>11 DEF InStep
<1> QED BY <1>7, <1>8, <1>9, <1>10, <1>12

LEMMA SensorEventStep == Inv /\ SensorEvent => Inv'
<1> SUFFICES ASSUME Inv, SensorEvent PROVE Inv' OBVIOUS
<1> USE DEF Inv, TypeOK
<1>1. /\ armed # "NONE" /\ armed' = "NONE" /\ pipe' = Append(pipe, EventDue(armed))
      /\ UNCHANGED <<hostVars, out, taken, histVars>>
  BY DEF SensorEvent, EventDue
<1>2. armed \in Cmds BY <1>1 DEF SensorOK, Cmds
<1>3. pipe' \in Seq(Message)
  <2>1. EventDue(armed) \in Message BY <1>2, MessagesTyped DEF Kinds, EventDue
  <2> QED BY <1>1, <2>1, AppendProperties DEF SensorOK
<1>4. SensorOK' BY <1>1, <1>3 DEF SensorOK
<1>5. PhaseOK' BY <1>1 DEF PhaseOK, hostVars
<1>6. DriverOK' BY <1>1 DEF DriverOK, hostVars
<1>7. HistoryOK' BY <1>1 DEF HistoryOK, histVars
<1>8. ASSUME ~disturbed' PROVE InStep'
  <2>1. ~disturbed /\ ~tail BY <1>1, <1>8 DEF InStep, histVars
  <2>2. UNCHANGED <<phase, pos, expected, tail, out, taken>> BY <1>1 DEF hostVars
  <2>3. CASE phase = "ACK"
    <3>1. Arms /\ ~HasData(CmdOf[pos])
          /\ UnderWay(<<>>, <<AckDue>>, CmdOf[pos], 0)
      BY <1>1, <2>1, <2>3 DEF InStep, AckStep, UnderWay
    <3>2. pipe' = <<AckDue, EventDue(CmdOf[pos])>>
      BY <1>1, <3>1, TwoMessages DEF UnderWay
    <3> QED
      BY <1>1, <2>1, <2>2, <2>3, <3>1, <3>2
         DEF InStep, AckStep, UnderWay, AckDue, Arms
  <2>4. CASE phase = "EVENT"
    <3>1. UnderWay(<<>>, <<>>, Waits[pos], 0)
      BY <1>1, <2>1, <2>4 DEF InStep, EventStep, UnderWay
    <3>2. pipe' = <<EventDue(Waits[pos])>>
      BY <1>1, <3>1, OneMessage DEF UnderWay
    <3> QED
      BY <1>1, <2>1, <2>2, <2>4, <3>1, <3>2 DEF InStep, EventStep, UnderWay
  <2> QED
    BY <1>1, <2>1, <2>3, <2>4 DEF InStep, PhaseOK, IdleStep, DataStep, UnderWay
<1>9. InStep' BY <1>8 DEF InStep
<1> QED BY <1>4, <1>5, <1>6, <1>7, <1>9

\* The command or wait goes on to the next, or ends the action.
LEMMA AdvanceTyped ==
  ASSUME TypeOK, phase # "NONE", pipe # <<>>,
         NEW s \in ActionStates \cup {"DONE"}, Follows(pos, s), Advance(s)
  PROVE  /\ PhaseOK' /\ out' \in Seq(Command) /\ pipe' \in Seq(Message)
         /\ action' \in {"NONE", "AUTH", "ENROLL"} /\ needs_reinit' \in BOOLEAN
         /\ failures' \in 0 .. 3 /\ lastError' \in Errors
<1> USE DEF TypeOK
<1>1. Tail(pipe) \in Seq(Message) BY TailTyped
<1>2. CASE s = "DONE"
  <2>1. EndAction("NONE", FALSE) /\ pipe' = Tail(pipe) /\ UNCHANGED out
    BY <1>2 DEF Advance
  <2>2. /\ PhaseOK' /\ action' = "NONE" /\ needs_reinit' \in BOOLEAN
        /\ failures' \in 0 .. 3 /\ lastError' \in Errors
    BY <2>1, EndTyped DEF Errors
  <2> QED BY <1>1, <2>1, <2>2 DEF SensorOK
<1>3. CASE s # "DONE"
  <2>1. /\ Enter(s) /\ UNCHANGED <<action, needs_reinit, failures, lastError>>
        /\ pipe' = IF s \in DOMAIN Waits THEN Tail(pipe) ELSE Aged(Tail(pipe))
    BY <1>3 DEF Advance
  <2>2. out' \in Seq(Command) /\ PhaseOK' BY <1>3, <2>1, EnterTyped
  <2>3. pipe' \in Seq(Message) BY <1>1, <2>1, AgedMessages
  <2> QED BY <2>1, <2>2, <2>3 DEF DriverOK, HistoryOK, Errors
<1> QED BY <1>2, <1>3

\* In step, the read that completes a command or a wait leaves nothing under
\* way, but for the finger detection its acknowledgement has armed.
LEMMA LastRead ==
  ASSUME Inv, ~disturbed, phase # "NONE", pipe # <<>>,
         ~(phase = "ACK" /\ HasData(CmdOf[pos]))
  PROVE  /\ out = <<>>
         /\ phase = "ACK" /\ Arms =>
              \/ Tail(pipe) = <<>> /\ armed = CmdOf[pos]
              \/ Tail(pipe) = <<EventDue(CmdOf[pos])>> /\ armed = "NONE"
         /\ ~(phase = "ACK" /\ Arms) => Tail(pipe) = <<>> /\ armed = "NONE"
         /\ taken = expected + (IF phase = "DATA" /\ CmdOf[pos] = "IMAGE" THEN 1 ELSE 0)
<1> USE DEF Inv, TypeOK, InStep, UnderWay
<1>1. CASE phase = "ACK"
  <2>1. Arms => ~HasData(CmdOf[pos]) BY DEF Arms, HasData
  <2>2. \/ UnderWay(<<>>, <<AckDue>>, IF Arms THEN CmdOf[pos] ELSE "NONE", 0)
        \/ Arms /\ UnderWay(<<>>, <<AckDue, EventDue(CmdOf[pos])>>, "NONE", 0)
    BY <1>1 DEF AckStep
  <2> QED BY ZenonT(60), <1>1, <2>2, OneMessage, TwoMessages DEF DriverOK
<1>2. CASE phase = "DATA"
  <2>1. UnderWay(<<>>, <<ReplyDue>>, "NONE", ImagesDue) BY <1>2 DEF DataStep
  <2> QED BY <1>2, <2>1, OneMessage DEF ImagesDue
<1>3. CASE phase = "EVENT"
  <2>1. UnderWay(<<>>, <<EventDue(Waits[pos])>>, "NONE", 0) BY <1>3 DEF EventStep
  <2> QED BY <1>3, <2>1, OneMessage DEF DriverOK
<1> QED BY <1>1, <1>2, <1>3 DEF PhaseOK

LEMMA AcceptStep == Inv /\ Accept => Inv'
<1> SUFFICES ASSUME Inv, Accept PROVE Inv' OBVIOUS
<1> USE DEF Inv, TypeOK
<1>1. /\ phase # "NONE" /\ pipe # <<>> /\ took' = Head(pipe)
      /\ expected' = (IF phase = "DATA" /\ CmdOf[pos] = "IMAGE"
                     THEN expected + 1 ELSE expected)
      /\ UNCHANGED <<variant, tail, armed, taken, faults, struck, disturbed>>
  BY DEF Accept
<1>2. Head(pipe) \in Message /\ Tail(pipe) \in Seq(Message) BY <1>1, TailTyped
<1>3. expected' \in Nat /\ took' \in Message BY <1>1, <1>2 DEF DriverOK
<1>4. pos \in ActionStates BY <1>1, Tables DEF PhaseOK
<1>5. CASE phase = "ACK" /\ HasData(CmdOf[pos])
  <2>1. /\ phase' = "DATA" /\ pipe' = Tail(pipe) /\ expected' = expected
        /\ UNCHANGED <<action, pos, needs_reinit, failures, lastError, out>>
    BY <1>1, <1>5 DEF Accept
  <2>2. PhaseOK' BY <1>5, <2>1 DEF PhaseOK
  <2>3. DriverOK' /\ SensorOK' BY <1>1, <1>2, <2>1 DEF DriverOK, SensorOK
  <2>4. HistoryOK' BY <1>1, <1>3, <2>1 DEF HistoryOK
  <2>5. ASSUME ~disturbed' PROVE ~tail' /\ DataStep'
    <3>1. ~disturbed /\ ~tail /\ AckStep BY <1>1, <1>5, <2>5 DEF InStep
    <3>2. ~Arms BY <1>5 DEF HasData, Arms
    <3>3. \/ UnderWay(Asked(TRUE), <<AckDue>>, "NONE", 0)
          \/ UnderWay(<<>>, <<AckDue, ReplyDue>>, "NONE", ImagesDue)
      BY <1>1, <1>5, <3>1, <3>2 DEF AckStep, UnderWay
    <3>4. UNCHANGED <<pos, expected, armed, taken, out>> BY <1>1, <2>1
    <3>5. ReplyDue' = ReplyDue /\ ImagesDue' = ImagesDue /\ Asked(TRUE)' = Asked(TRUE)
      BY <3>4 DEF ReplyDue, ImagesDue, Asked
    <3>6. CASE UnderWay(Asked(TRUE), <<AckDue>>, "NONE", 0)
      <4>1. pipe' = <<>> BY <2>1, <3>6, OneMessage DEF UnderWay
      <4> QED BY <1>1, <3>1, <3>4, <3>5, <3>6, <4>1 DEF DataStep, UnderWay
    <3>7. CASE UnderWay(<<>>, <<AckDue, ReplyDue>>, "NONE", ImagesDue)
      <4>1. pipe' = <<ReplyDue>> BY <2>1, <3>7, TwoMessages DEF UnderWay
      <4> QED BY <1>1, <3>1, <3>4, <3>5, <3>7, <4>1 DEF DataStep, UnderWay
    <3> QED BY <3>3, <3>6, <3>7
  <2>6. InStep' BY <2>1, <2>5 DEF InStep
  <2> QED BY <2>2, <2>3, <2>4, <2>6
<1>6. CASE ~(phase = "ACK" /\ HasData(CmdOf[pos]))
  <2>1. PICK s \in ActionStates \cup {"DONE"} : Follows(pos, s) /\ Advance(s)
    BY <1>6 DEF Accept
  <2>2. /\ PhaseOK' /\ out' \in Seq(Command) /\ pipe' \in Seq(Message)
        /\ action' \in {"NONE", "AUTH", "ENROLL"} /\ needs_reinit' \in BOOLEAN
        /\ failures' \in 0 .. 3 /\ lastError' \in Errors
    BY <1>1, <2>1, AdvanceTyped
  <2>3. DriverOK' BY <1>1, <1>3, <2>2 DEF DriverOK
  <2>4. SensorOK' BY <1>1, <2>2 DEF SensorOK
  <2>5. HistoryOK' BY <1>1, <1>3, <2>2 DEF HistoryOK, Errors
  <2>6. ASSUME ~disturbed' PROVE InStep'
    <3>1. ~disturbed /\ ~tail /\ ~tail' BY <1>1, <2>6 DEF InStep
    <3>2. out = <<>> /\ taken' = expected'
      BY <1>1, <1>6, <3>1, LastRead DEF DriverOK
    <3>6. taken' = expected' + 0
      <4>1. \A k \in Nat : k + 0 = k OBVIOUS
      <4> QED BY <1>3, <3>2, <4>1, Zenon
    <3>3. CASE s = "DONE"
      <4>1. phase' = "NONE" /\ pipe' = Tail(pipe) /\ out' = <<>>
        BY <2>1, <3>2, <3>3 DEF Advance, EndAction
      <4>2. ~(phase = "ACK" /\ Arms)
        BY <1>4, <2>1, <3>3, Script, Tables DEF Arms, PhaseOK
      <4>3. pipe' = <<>> /\ armed' = "NONE"
        BY <1>1, <1>6, <3>1, <4>1, <4>2, LastRead
      <4>4. IdleStep' BY <3>6, <4>1, <4>3, Zenon DEF IdleStep, UnderWay
      <4> QED BY <3>1, <4>1, <4>4 DEF InStep
    <3>4. CASE s # "DONE" /\ s \in DOMAIN Waits
      <4>1. phase' = "EVENT" /\ pos' = s /\ pipe' = Tail(pipe) /\ out' = <<>>
        BY <2>1, <3>2, <3>4 DEF Advance, Enter
      <4>2. phase = "ACK" /\ Arms /\ CmdOf[pos] = Waits[s]
        <5>1. pos \in DOMAIN CmdOf
          BY <1>4, <2>1, <3>4, Script, Tables
        <5>2. CmdOf[pos] = Waits[s] /\ Arms BY <1>4, <2>1, <3>4, <5>1, Script DEF Arms
        <5> QED
          BY <1>1, <5>1, <5>2, Tables DEF PhaseOK, Arms, HasData
      <4>3. \/ Tail(pipe) = <<>> /\ armed = CmdOf[pos]
            \/ Tail(pipe) = <<EventDue(CmdOf[pos])>> /\ armed = "NONE"
        BY <1>1, <1>6, <3>1, <4>2, LastRead
      <4> QED
        BY <1>1, <1>3, <3>1, <3>2, <4>1, <4>2, <4>3
           DEF InStep, EventStep, UnderWay, EventDue
    <3>5. CASE s # "DONE" /\ s \notin DOMAIN Waits
      <4>1. /\ phase' = "ACK" /\ pos' = s /\ pipe' = Aged(Tail(pipe))
            /\ out' = Append(Aged(out), Cmd(CmdOf[s], FALSE, FALSE))
        BY <2>1, <3>5 DEF Advance, Enter
      <4>2. ~(phase = "ACK" /\ Arms)
        BY <1>4, <2>1, <3>5, Script, Tables DEF Arms, PhaseOK
      <4>3. Tail(pipe) = <<>> /\ armed' = "NONE"
        BY <1>1, <1>6, <3>1, <4>2, LastRead
      <4>4. pipe' = <<>> BY <4>1, <4>3, AgedEmpty
      <4>5. out' = <<Cmd(CmdOf[s], FALSE, FALSE)>>
        BY <3>2, <4>1, AgedEmpty, OneMessage
      <4>6. UnderWay(Asked(FALSE), <<>>, "NONE", 0)'
        BY <3>6, <4>1, <4>3, <4>4, <4>5, Zenon DEF UnderWay, Asked
      <4>7. AckStep' BY <4>6 DEF AckStep
      <4> QED BY <3>1, <4>1, <4>7 DEF InStep
    <3> QED BY <3>3, <3>4, <3>5
  <2>7. InStep' BY <2>6 DEF InStep
  <2> QED BY <2>2, <2>3, <2>4, <2>5, <2>7
<1> QED BY <1>5, <1>6

\* A read that ends the action without the awaited message: a fault has struck
\* the link before, or strikes it now.
LEMMA FailedReadTyped ==
  ASSUME TypeOK, pipe # <<>>, NEW err \in Errors, NEW hit \in BOOLEAN,
         EndAction(err, hit), pipe' = Tail(pipe), tail' \in BOOLEAN,
         UNCHANGED <<variant, expected, out, armed, taken, took>>
  PROVE  PhaseOK' /\ DriverOK' /\ SensorOK' /\ failures' \in 0 .. 3 /\ lastError' \in Errors
<1> USE DEF TypeOK
<1>1. /\ PhaseOK' /\ action' = "NONE" /\ needs_reinit' \in BOOLEAN
      /\ failures' \in 0 .. 3 /\ lastError' \in Errors
  BY EndTyped
<1>2. DriverOK' BY <1>1 DEF DriverOK
<1>3. SensorOK' BY TailTyped DEF SensorOK
<1> QED BY <1>1, <1>2, <1>3

LEMMA AcceptShortStep == Inv /\ AcceptShort => Inv' /\ disturbed
<1> SUFFICES ASSUME Inv, AcceptShort PROVE Inv' /\ disturbed OBVIOUS
<1> USE DEF Inv, TypeOK
<1>1. /\ phase # "NONE" /\ pipe # <<>> /\ Head(pipe).short /\ EndAction("NULL", struck)
      /\ pipe' = Tail(pipe) /\ tail' = TRUE
      /\ UNCHANGED <<variant, expected, out, armed, taken, faults, took, struck, disturbed>>
  BY DEF AcceptShort
<1>2. disturbed BY <1>1, HeadMatches
<1>3. /\ PhaseOK' /\ DriverOK' /\ SensorOK' /\ failures' \in 0 .. 3 /\ lastError' \in Errors
  BY <1>1, FailedReadTyped DEF Errors, HistoryOK
<1>4. HistoryOK' BY <1>1, <1>3 DEF HistoryOK, Errors
<1>5. InStep' BY <1>1, <1>2 DEF InStep
<1> QED BY <1>2, <1>3, <1>4, <1>5

LEMMA RefuseStep == Inv /\ Refuse => Inv' /\ disturbed
<1> SUFFICES ASSUME Inv, Refuse PROVE Inv' /\ disturbed OBVIOUS
<1> USE DEF Inv, TypeOK
<1>1. /\ phase # "NONE" /\ pipe # <<>> /\ ~Accepts(Head(pipe)) /\ EndAction("PROTO", struck)
      /\ pipe' = Tail(pipe)
      /\ UNCHANGED <<variant, expected, tail, out, armed, taken, faults, took, struck,
                     disturbed>>
  BY DEF Refuse
<1>2. disturbed BY <1>1, HeadMatches
<1>3. /\ PhaseOK' /\ DriverOK' /\ SensorOK' /\ failures' \in 0 .. 3 /\ lastError' \in Errors
  BY <1>1, FailedReadTyped DEF Errors, HistoryOK, DriverOK
<1>4. HistoryOK' BY <1>1, <1>3 DEF HistoryOK, Errors
<1>5. InStep' BY <1>1, <1>2 DEF InStep
<1> QED BY <1>2, <1>3, <1>4, <1>5

LEMMA GarbledStep == Inv /\ Garbled => Inv'
<1> SUFFICES ASSUME Inv, Garbled PROVE Inv' OBVIOUS
<1> USE DEF Inv, TypeOK
<1>1. /\ pipe # <<>> /\ Fault("GARBLED") /\ EndAction("PROTO", TRUE) /\ pipe' = Tail(pipe)
      /\ struck' = TRUE /\ disturbed' = TRUE
      /\ UNCHANGED <<variant, expected, tail, out, armed, taken, took>>
  BY DEF Garbled
<1>2. /\ PhaseOK' /\ DriverOK' /\ SensorOK' /\ failures' \in 0 .. 3 /\ lastError' \in Errors
  BY <1>1, FailedReadTyped DEF Errors, DriverOK
<1>3. faults' \in 0 .. MaxFaults BY <1>1, LinkAssumption DEF Fault, HistoryOK
<1>4. HistoryOK' BY <1>1, <1>2, <1>3 DEF HistoryOK, Errors
<1>5. InStep' BY <1>1 DEF InStep
<1> QED BY <1>2, <1>4, <1>5

LEMMA TransferFailsStep == Inv /\ TransferFails => Inv'
<1> SUFFICES ASSUME Inv, TransferFails PROVE Inv' OBVIOUS
<1> USE DEF Inv, TypeOK
<1>1. /\ Fault("TRANSFER") /\ EndAction("USB", TRUE) /\ struck' = TRUE /\ disturbed' = TRUE
      /\ UNCHANGED <<variant, expected, tail, sensorVars, took>>
  BY DEF TransferFails
<1>2. /\ PhaseOK' /\ action' = "NONE" /\ needs_reinit' \in BOOLEAN
      /\ failures' \in 0 .. 3 /\ lastError' \in Errors
  BY <1>1, EndTyped DEF Errors
<1>3. DriverOK' BY <1>1, <1>2 DEF DriverOK
<1>4. SensorOK' BY <1>1 DEF SensorOK, sensorVars
<1>5. faults' \in 0 .. MaxFaults BY <1>1, LinkAssumption DEF Fault, HistoryOK
<1>6. HistoryOK' BY <1>1, <1>2, <1>5 DEF HistoryOK, Errors
<1>7. InStep' BY <1>1 DEF InStep
<1> QED BY <1>2, <1>3, <1>4, <1>6, <1>7

LEMMA CancelWaitStep == Inv /\ CancelWait => Inv'
<1> SUFFICES ASSUME Inv, CancelWait PROVE Inv' OBVIOUS
<1> USE DEF Inv, TypeOK
<1>1. /\ EndAction("CANCELLED", struck) /\ disturbed' = TRUE
      /\ UNCHANGED <<variant, expected, tail, sensorVars, faults, took, struck>>
  BY DEF CancelWait
<1>2. /\ PhaseOK' /\ action' = "NONE" /\ needs_reinit' \in BOOLEAN
      /\ failures' \in 0 .. 3 /\ lastError' \in Errors
  BY <1>1, EndTyped DEF Errors, HistoryOK
<1>3. DriverOK' BY <1>1, <1>2 DEF DriverOK
<1>4. SensorOK' BY <1>1 DEF SensorOK, sensorVars
<1>5. HistoryOK' BY <1>1, <1>2 DEF HistoryOK, Errors
<1>6. InStep' BY <1>1 DEF InStep
<1> QED BY <1>2, <1>3, <1>4, <1>5, <1>6

LEMMA StutterStep == Inv /\ UNCHANGED vars => Inv'
<1> SUFFICES ASSUME Inv, UNCHANGED vars PROVE Inv' OBVIOUS
<1> USE DEF vars, hostVars, sensorVars, histVars
<1>1. PhaseOK' /\ DriverOK' /\ SensorOK' BY DEF Inv, TypeOK, PhaseOK, DriverOK, SensorOK
<1>2. HistoryOK' BY DEF Inv, TypeOK, HistoryOK
<1>3. InStep'
  BY DEF Inv, InStep, IdleStep, AckStep, DataStep, EventStep, UnderWay, Asked, AckDue,
         ReplyDue, EventDue, ImagesDue, Arms
<1> QED BY <1>1, <1>2, <1>3 DEF Inv, TypeOK

----
(* The theorems. *)

LEMMA NextInv == Inv /\ [Next]_vars => Inv'
BY OpenStep, CloseStep, StartStep, ReinitOkStep, ReinitFailsStep, SensorAckStep,
   SensorReplyStep, SensorEventStep, AcceptStep, AcceptShortStep, RefuseStep, GarbledStep,
   TransferFailsStep, CancelWaitStep, StutterStep, Zenon
   DEF Next, Sensor, Read

THEOREM LinkInvariant == Spec => []Inv
BY InitInv, NextInv, PTL DEF Spec

\* Type correctness.
THEOREM LinkTypeOK == Spec => []TypeOK
<1>1. Inv => TypeOK BY DEF Inv
<1>2. QED BY <1>1, LinkInvariant, PTL

\* Until a fault or an abandoned wait comes between them, the sensor owes the
\* driver exactly what the driver's state waits for.
THEOREM LinkInStep == Spec => []InStep
<1>1. Inv => InStep BY DEF Inv
<1>2. QED BY <1>1, LinkInvariant, PTL

\* Until then no answer is refused, and none is taken for that of another command.
THEOREM LinkAnswersMatch == Spec => AnswersMatch
<1> DEFINE Matches == /\ Refuse \/ AcceptShort => disturbed
                      /\ Accept /\ Head(pipe).old => disturbed
<1>1. Inv => Matches
  <2>1. Inv /\ Accept => phase # "NONE" /\ pipe # <<>> BY DEF Accept
  <2>2. Inv /\ Accept /\ Head(pipe).old => disturbed BY <2>1, HeadMatches
  <2> QED BY <2>2, RefuseStep, AcceptShortStep, Zenon
<1>2. Inv /\ [Next]_vars => [Matches]_vars BY <1>1
<1>3. Spec => [][Matches]_vars BY <1>2, LinkInvariant, PTL DEF Spec
<1> QED BY <1>3 DEF AnswersMatch
==============================================================================
