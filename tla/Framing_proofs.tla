-------------------------- MODULE Framing_proofs --------------------------
(***************************************************************************)
(* For every chunk size, buffer size, set of payloads and number of        *)
(* messages: the reassembly buffer is never exceeded and every field keeps *)
(* its type; until a receive is given up, messages are received whole and  *)
(* in order, and only what exceeds the buffer is refused; after that, bare *)
(* framing never joins the remains of two messages.                        *)
(***************************************************************************)
EXTENDS Framing, SequenceTheorems, TLAPS

\* Bytes of the messages sent so far.
SentBytes == (1 .. Len(sent)) \X (Nat \cup {MARK})

\* What is in the pipe and in the buffer was sent.
OnlySent == pipe \in Seq(Seq(SentBytes)) /\ buf \in Seq(SentBytes)

Inductive == TypeOK /\ OnlySent

FlagsOK == pack_layer \in BOOLEAN /\ reading \in BOOLEAN /\ given_up \in BOOLEAN
----
\* The wire length of the n-th message.
W(n) == WireLen(sent[n].payload)

\* The message a chunk belongs to, and how much of it the earlier chunks hold: what
\* its first byte of data says.
Num(c) == c[1][1]
Off(c) == (IF c[1][2] = MARK THEN c[2][2] ELSE c[1][2]) - 1

\* Bytes of data that fit a chunk at offset o of its message, and its markers.
Room(o) == IF o = 0 \/ pack_layer THEN ChunkSize ELSE ChunkSize - 1
Marks(o) == ChunkSize - Room(o)

\* Offset of the k-th chunk.
Before(k) == IF k = 1 THEN 0 ELSE Covered(k - 1)

\* c is the chunk at offset o of the n-th message, of length len: a marker unless it
\* is the first, the message's bytes as far as they fit, and padding after the last.
Placed(c, n, o, len) ==
  /\ o \in 0 .. len - 1
  /\ Len(c) \in Marks(o) + Smaller(Room(o), len - o) .. ChunkSize
  /\ o + Room(o) < len => Len(c) = ChunkSize
  /\ \A j \in 1 .. Len(c) :
       c[j] = <<n, IF j <= Marks(o) THEN MARK
                   ELSE IF o + j - Marks(o) <= len THEN o + j - Marks(o) ELSE 0>>
  /\ \E k \in 1 .. ChunkCount(len) : o = Before(k)

\* Where the i-th chunk of the pipe begins; after the last one, the message that the
\* sensor sends next.
Place(i) ==
  IF i > Len(pipe) THEN <<Len(sent) + 1, 0>> ELSE <<Num(pipe[i]), Off(pipe[i])>>

\* Where the chunk after c begins.
After(c) ==
  IF Off(c) + Room(Off(c)) < W(Num(c)) THEN <<Num(c), Off(c) + Room(Off(c))>>
  ELSE <<Num(c) + 1, 0>>

\* The pipe holds consecutive chunks, up to the last one sent.
Consecutive ==
  \A i \in 1 .. Len(pipe) :
    LET c == pipe[i]
    IN /\ Num(c) \in 1 .. Len(sent)
       /\ Placed(c, Num(c), Off(c), W(Num(c)))
       /\ Place(i + 1) = After(c)

\* A bare receive that has accepted the first chunk of a message holds a beginning of
\* it, and the pipe goes on where the buffer ends or with another message.
BareGoesOn ==
  ~pack_layer /\ reading /\ buf # <<>> /\ ~cmd_byte[2] =>
    LET n == buf[1][1]
    IN /\ \A i \in 1 .. Len(buf) : buf[i] \in {<<n, i>>, <<n, 0>>}
       /\ Place(1) \in {<<n, Len(buf)>>, <<n + 1, 0>>}

\* One that has accepted the marker of a continuation accepts no other chunk.
MarkedIsAlone == ~pack_layer /\ cmd_byte[2] => Len(buf) <= ChunkSize

\* As long as no receive was given up inside a message, the buffer and the pipe
\* together hold the messages after the one received last.
InTurn ==
  ~given_up =>
    LET n == got + 1
    IN IF reading /\ buf # <<>>
         THEN /\ n <= Len(sent)
              /\ Len(buf) < W(n) /\ expected = W(n)
              /\ \A i \in 1 .. Len(buf) : buf[i] = <<n, i>>
              /\ Place(1) = <<n, Len(buf)>>
              /\ pack_layer \/ cmd_byte = <<sent[n].cmd, FALSE>>
         ELSE /\ Place(1) = <<n, 0>>
              /\ reading => expected = 0

Joining == Consecutive /\ BareGoesOn /\ MarkedIsAlone /\ BareNeverJoins /\ InTurn

----
\* A function over an interval from 1 is a sequence, an empty interval included.
LEMMA IntervalSeq ==
  ASSUME NEW S, NEW N \in Int, NEW f \in [1 .. N -> S]
  PROVE  f \in Seq(S)
<1> DEFINE n == IF N < 0 THEN 0 ELSE N
<1>1. n \in Nat /\ 1 .. N = 1 .. n OBVIOUS
<1>2. QED BY <1>1, SeqDef

\* Positions in a message are natural numbers.
LEMMA CoveredNat == ASSUME NEW k \in Nat PROVE Covered(k) \in Nat
<1>1. k * ChunkSize \in Nat BY FramingAssumption
<1>2. k * (ChunkSize - 1) \in Nat BY FramingAssumption
<1>3. QED BY <1>1, <1>2 DEF Covered

\* A message is framed by a whole number of chunks.
LEMMA ChunkCountInt == ASSUME NEW len \in Int PROVE ChunkCount(len) \in Int
<1>1. (len + ChunkSize - 1) \div ChunkSize \in Int BY FramingAssumption
<1>2. (len - ChunkSize + ChunkSize - 2) \div (ChunkSize - 1) \in Int BY FramingAssumption
<1>3. QED BY <1>1, <1>2 DEF ChunkCount, BareChunkCount

\* A chunk of the n-th message is a sequence of its bytes.
LEMMA ChunkSeq ==
  ASSUME NEW n, NEW len \in Int, NEW k \in Nat \ {0}, NEW padded \in BOOLEAN
  PROVE  Chunk(n, len, k, padded) \in Seq({n} \X (Nat \cup {MARK}))
<1> DEFINE before == IF k = 1 THEN 0 ELSE Covered(k - 1)
           marks  == IF k = 1 \/ pack_layer THEN 0 ELSE 1
           data   == Smaller(ChunkSize - marks, len - before)
           N      == IF padded THEN ChunkSize ELSE marks + data
           byte(j) == <<n, IF j <= marks THEN MARK
                           ELSE IF j <= marks + data THEN before + j - marks ELSE 0>>
<1>1. before \in Nat BY CoveredNat
<1>2. marks \in {0, 1} OBVIOUS
<1>3. data \in Int BY <1>1, <1>2, FramingAssumption DEF Smaller
<1>4. N \in Int BY <1>2, <1>3, FramingAssumption
<1> HIDE DEF before, marks, data, N
<1>5. \A j \in 1 .. N : byte(j) \in {n} \X (Nat \cup {MARK})
  BY <1>1, <1>2, <1>3, <1>4
<1> HIDE DEF byte
<1>6. [j \in 1 .. N |-> byte(j)] \in [1 .. N -> {n} \X (Nat \cup {MARK})] BY <1>5
<1>7. [j \in 1 .. N |-> byte(j)] \in Seq({n} \X (Nat \cup {MARK}))
  BY <1>4, <1>6, IntervalSeq
<1>8. Chunk(n, len, k, padded) = [j \in 1 .. N |-> byte(j)]
  BY DEF Chunk, before, marks, data, N, byte
<1>9. QED BY <1>7, <1>8

\* A frame of the n-th message is a sequence of such chunks.
LEMMA FrameSeq ==
  ASSUME NEW n, NEW len \in Int, NEW padded \in BOOLEAN
  PROVE  Frame(n, len, padded) \in Seq(Seq({n} \X (Nat \cup {MARK})))
<1> DEFINE N == ChunkCount(len)
           chunk(k) == Chunk(n, len, k, padded \/ k < ChunkCount(len))
<1>1. N \in Int BY ChunkCountInt
<1>2. ASSUME NEW k \in 1 .. N PROVE chunk(k) \in Seq({n} \X (Nat \cup {MARK}))
  <2>1. k \in Nat \ {0} BY <1>1
  <2>2. (padded \/ k < ChunkCount(len)) \in BOOLEAN BY Zenon
  <2>3. QED BY <2>1, <2>2, ChunkSeq
<1> HIDE DEF N, chunk
<1>3. [k \in 1 .. N |-> chunk(k)] \in [1 .. N -> Seq({n} \X (Nat \cup {MARK}))] BY <1>2
<1>4. [k \in 1 .. N |-> chunk(k)] \in Seq(Seq({n} \X (Nat \cup {MARK})))
  BY <1>1, <1>3, IntervalSeq
<1>5. Frame(n, len, padded) = [k \in 1 .. N |-> chunk(k)] BY DEF Frame, N, chunk
<1>6. QED BY <1>4, <1>5

\* The length computed from any header is in range.
LEMMA HeaderLensRange ==
  ASSUME Inductive, NEW b \in Seq(SentBytes), Len(b) >= 3
  PROVE  HeaderLens(b) \subseteq 0 .. MaxField + 4
<1>1. b[1] \in SentBytes BY ElementOfSeq
<1>2. b[1][1] \in 1 .. Len(sent) BY <1>1 DEF SentBytes
<1>3. sent[b[1][1]] \in [payload : Payloads, cmd : Cmds]
  BY <1>2, ElementOfSeq DEF Inductive, TypeOK
<1>4. sent[b[1][1]].payload \in Payloads BY <1>3
<1>5. \A payload \in Payloads : FieldToLen(SizeField(payload)) \in 0 .. MaxField + 4
  BY FramingAssumption DEF FieldToLen, SizeField, MessageLen
<1>6. \A f \in 0 .. MaxField : FieldToLen(f) \in 0 .. MaxField + 4
  BY FramingAssumption DEF FieldToLen
<1>7. QED BY <1>4, <1>5, <1>6 DEF HeaderLens
----
\* The invariant holds in the initial states.
LEMMA InitInductive == Init => Inductive
<1> SUFFICES ASSUME Init PROVE Inductive OBVIOUS
<1>1. FlagsOK BY Zenon DEF Init, FlagsOK
<1>2. <<"NONE", FALSE>> \in (Cmds \cup {"NONE"}) \X BOOLEAN OBVIOUS
<1>3. cmd_byte \in (Cmds \cup {"NONE"}) \X BOOLEAN BY <1>2 DEF Init
<1>4. pipe = <<>> /\ buf = <<>> /\ sent = <<>> BY DEF Init
<1>5. /\ Len(buf) <= RxBufSize /\ Len(sent) <= MaxSent /\ OnlySent
      /\ buf \in Seq(Bytes) /\ pipe \in Seq(Seq(Bytes))
      /\ sent \in Seq([payload : Payloads, cmd : Cmds])
  BY <1>4, FramingAssumption, EmptySeq DEF OnlySent
<1>6. expected = 0 /\ got = 0 /\ result = "NONE" /\ rx_timeout = "FINITE" /\ timeout = "FINITE"
  BY DEF Init
<1>7. QED BY <1>1, <1>3, <1>5, <1>6, FramingAssumption DEF Inductive, TypeOK, FlagsOK

\* It is kept by a message of the sensor.
LEMMA SensorSendsStep == Inductive /\ SensorSends => Inductive'
<1> SUFFICES ASSUME Inductive, SensorSends PROVE Inductive' OBVIOUS
<1> USE DEF SensorSends, rxVars
<1>1. FlagsOK' BY Zenon DEF Inductive, TypeOK, FlagsOK
<1>2. PICK payload \in Payloads, cmd \in Cmds, padded \in BOOLEAN :
        /\ sent' = Append(sent, [payload |-> payload, cmd |-> cmd])
        /\ pipe' = pipe \o Frame(Len(sent) + 1, WireLen(payload), padded)
  OBVIOUS
<1>3. sent \in Seq([payload : Payloads, cmd : Cmds]) /\ Len(sent) \in Nat
  BY DEF Inductive, TypeOK
<1>4. sent' \in Seq([payload : Payloads, cmd : Cmds]) /\ Len(sent') = Len(sent) + 1
  BY <1>2, <1>3, AppendProperties
<1>5. WireLen(payload) \in Int BY FramingAssumption DEF WireLen, MessageLen
<1>6. Frame(Len(sent) + 1, WireLen(payload), padded) \in
        Seq(Seq({Len(sent) + 1} \X (Nat \cup {MARK})))
  BY <1>5, FrameSeq
<1>7. SentBytes \subseteq SentBytes' /\ {Len(sent) + 1} \X (Nat \cup {MARK}) \subseteq SentBytes'
  BY <1>3, <1>4 DEF SentBytes
<1>8. SentBytes' \subseteq Bytes
  BY <1>3, <1>4, FramingAssumption DEF SentBytes, Bytes
<1>9. Seq(SentBytes) \subseteq Seq(SentBytes')
      /\ Seq({Len(sent) + 1} \X (Nat \cup {MARK})) \subseteq Seq(SentBytes')
      /\ Seq(SentBytes') \subseteq Seq(Bytes)
  BY <1>7, <1>8, SeqMonotonic
<1>10. pipe \in Seq(Seq(SentBytes'))
       /\ Frame(Len(sent) + 1, WireLen(payload), padded) \in Seq(Seq(SentBytes'))
  BY <1>6, <1>9, SeqMonotonic DEF Inductive, OnlySent
<1>11. pipe' \in Seq(Seq(SentBytes')) BY <1>2, <1>10, ConcatProperties
<1>12. pipe' \in Seq(Seq(Bytes)) BY <1>9, <1>11, SeqMonotonic
<1>13. OnlySent' BY <1>9, <1>11 DEF Inductive, OnlySent
<1>14. Len(sent') <= MaxSent BY <1>3, <1>4, FramingAssumption
<1>15. UNCHANGED <<buf, expected, cmd_byte, rx_timeout, timeout, result, got>> OBVIOUS
<1> HIDE DEF SensorSends
<1>16. TypeOK' BY <1>1, <1>4, <1>12, <1>14, <1>15 DEF Inductive, TypeOK, FlagsOK
<1>17. QED BY <1>13, <1>16 DEF Inductive

\* It is kept by the start of a receive.
LEMMA RecvStartStep == Inductive /\ RecvStart => Inductive'
<1> SUFFICES ASSUME Inductive, RecvStart PROVE Inductive' OBVIOUS
<1> USE DEF RecvStart
<1>1. FlagsOK' BY Zenon DEF Inductive, TypeOK, FlagsOK
<1>2. buf' = <<>> /\ pipe' = pipe /\ sent' = sent OBVIOUS
<1>3. SentBytes' = SentBytes BY <1>2 DEF SentBytes
<1>4. OnlySent' BY <1>2, <1>3 DEF Inductive, OnlySent
<1>5. <<"NONE", FALSE>> \in (Cmds \cup {"NONE"}) \X BOOLEAN OBVIOUS
<1>6. cmd_byte' \in (Cmds \cup {"NONE"}) \X BOOLEAN BY <1>5
<1>7. Len(buf') <= RxBufSize /\ buf' \in Seq(Bytes)
  BY <1>2, FramingAssumption, EmptySeq
<1>8. /\ expected' = 0 /\ got' = got /\ result' = "NONE"
      /\ rx_timeout' \in {"FINITE", "NONE"} /\ timeout' = rx_timeout'
  OBVIOUS
<1> HIDE DEF RecvStart
<1>9. TypeOK' BY <1>1, <1>2, <1>6, <1>7, <1>8, FramingAssumption DEF Inductive, TypeOK, FlagsOK
<1>10. QED BY <1>4, <1>9 DEF Inductive

\* A chunk that is accepted leaves the buffer within its size and typed.
LEMMA FeedTyped ==
  ASSUME Inductive, NEW c \in Seq(SentBytes), Feed(c)
  PROVE  /\ buf' \in Seq(SentBytes) /\ Len(buf') <= RxBufSize
         /\ expected' \in 0 .. MaxField + 4
         /\ cmd_byte' \in (Cmds \cup {"NONE"}) \X BOOLEAN
<1>1. buf \in Seq(SentBytes) /\ expected \in 0 .. MaxField + 4
      /\ cmd_byte \in (Cmds \cup {"NONE"}) \X BOOLEAN
  BY DEF Inductive, OnlySent, TypeOK
<1>2. CASE FeedPack(c)
  <2> USE DEF FeedPack, Fits
  <2>1. buf' = buf \o c /\ cmd_byte' = cmd_byte BY <1>2
  <2>2. buf' \in Seq(SentBytes) /\ Len(buf') = Len(buf) + Len(c)
    BY <1>1, <2>1, ConcatProperties
  <2>3. HeaderLens(buf') \subseteq 0 .. MaxField + 4 \/ ~(Len(buf') >= 4)
    BY <2>2, HeaderLensRange
  <2>4. QED BY <1>1, <1>2, <2>1, <2>2, <2>3
<1>3. CASE FeedFirst(c)
  <2> USE DEF FeedFirst, Fits
  <2>1. Len(c) >= 3 /\ buf' = c BY <1>3
  <2>2. expected' \in 0 .. MaxField + 4 BY <1>3, <2>1, HeaderLensRange
  <2>3. c[1][1] \in 1 .. Len(sent) BY <2>1, ElementOfSeq DEF SentBytes
  <2>4. sent[c[1][1]] \in [payload : Payloads, cmd : Cmds]
    BY <2>3, ElementOfSeq DEF Inductive, TypeOK
  <2>5. sent[c[1][1]].cmd \in Cmds BY <2>4
  <2>6. (c[1][2] = MARK) \in BOOLEAN BY Zenon
  <2>7. cmd_byte' = <<sent[c[1][1]].cmd, c[1][2] = MARK>> BY <1>3 DEF FirstByte
  <2>8. cmd_byte' \in (Cmds \cup {"NONE"}) \X BOOLEAN BY <2>5, <2>6, <2>7
  <2>9. Len(c) <= RxBufSize BY <1>1, <1>3, FramingAssumption
  <2>10. QED BY <2>1, <2>2, <2>8, <2>9
<1>4. CASE FeedNext(c)
  <2> USE DEF FeedNext, Fits, Continues
  <2>1. Len(c) >= 1 /\ Len(buf) + (Len(c) - 1) <= RxBufSize BY <1>4
  <2>2. buf' = buf \o Tail(c) /\ expected' = expected /\ cmd_byte' = cmd_byte BY <1>4
  <2>3. Tail(c) \in Seq(SentBytes) /\ Len(Tail(c)) = Len(c) - 1
    BY <2>1, HeadTailProperties, EmptySeq
  <2>4. buf' \in Seq(SentBytes) /\ Len(buf') = Len(buf) + Len(Tail(c))
    BY <1>1, <2>2, <2>3, ConcatProperties
  <2>5. QED BY <1>1, <2>1, <2>2, <2>3, <2>4
<1>5. QED BY <1>2, <1>3, <1>4 DEF Feed

\* It is kept by a chunk.
LEMMA ChunkArrivesStep == Inductive /\ ChunkArrives => Inductive'
<1> SUFFICES ASSUME Inductive, ChunkArrives PROVE Inductive' OBVIOUS
<1> DEFINE c == Head(pipe)
<1>1. FlagsOK' BY Zenon DEF Inductive, TypeOK, FlagsOK, ChunkArrives
<1>2. sent' = sent /\ pipe' = Tail(pipe) /\ pipe # <<>> /\ rx_timeout' = rx_timeout
  BY DEF ChunkArrives
<1>3. c \in Seq(SentBytes) /\ pipe' \in Seq(Seq(SentBytes))
  BY <1>2, HeadTailProperties DEF Inductive, OnlySent
<1>4. SentBytes' = SentBytes BY <1>2 DEF SentBytes
<1>5. pipe' \in Seq(Seq(Bytes))
  BY <1>2, HeadTailProperties DEF Inductive, TypeOK
<1>6. SentBytes \subseteq Bytes
  BY FramingAssumption DEF Inductive, TypeOK, SentBytes, Bytes
<1>7. CASE Feed(c) /\ UNCHANGED <<result, got>> /\ timeout' = "FINITE"
  <2>1. /\ buf' \in Seq(SentBytes) /\ Len(buf') <= RxBufSize
        /\ expected' \in 0 .. MaxField + 4
        /\ cmd_byte' \in (Cmds \cup {"NONE"}) \X BOOLEAN
    BY <1>3, <1>7, FeedTyped
  <2>2. buf' \in Seq(Bytes) BY <1>6, <2>1, SeqMonotonic
  <2>3. OnlySent' BY <1>3, <1>4, <2>1 DEF OnlySent
  <2>4. TypeOK' BY <1>1, <1>2, <1>5, <1>7, <2>1, <2>2 DEF Inductive, TypeOK, FlagsOK
  <2>5. QED BY <2>3, <2>4 DEF Inductive
<1>8. CASE Feed(c) /\ Complete /\ Parse /\ UNCHANGED timeout
  <2>1. /\ buf' \in Seq(SentBytes) /\ Len(buf') <= RxBufSize
        /\ expected' \in 0 .. MaxField + 4
        /\ cmd_byte' \in (Cmds \cup {"NONE"}) \X BOOLEAN
    BY <1>3, <1>8, FeedTyped
  <2>2. buf' \in Seq(Bytes) BY <1>6, <2>1, SeqMonotonic
  <2>3. Len(buf') >= 1 BY <1>8, <2>1, FramingAssumption DEF Complete
  <2>4. buf'[1] \in Bytes BY <2>2, <2>3, ElementOfSeq
  <2>5. buf'[1][1] \in 1 .. MaxSent BY <2>4 DEF Bytes
  <2>6. result' \in {"NONE", "MESSAGE", "GARBLED", "ERROR"} /\ got' \in 0 .. MaxSent
    BY <1>8, <2>5, FramingAssumption DEF Parse, Inductive, TypeOK
  <2>7. OnlySent' BY <1>3, <1>4, <2>1 DEF OnlySent
  <2>8. TypeOK'
    BY <1>1, <1>2, <1>5, <1>8, <2>1, <2>2, <2>6 DEF Inductive, TypeOK, FlagsOK
  <2>9. QED BY <2>7, <2>8 DEF Inductive
<1>9. CASE UNCHANGED <<rxVars, timeout, got>> /\ result' = "ERROR"
  <2>1. OnlySent' BY <1>3, <1>4, <1>9 DEF Inductive, OnlySent, rxVars
  <2>2. TypeOK' BY <1>1, <1>2, <1>5, <1>9 DEF Inductive, TypeOK, FlagsOK, rxVars
  <2>3. QED BY <2>1, <2>2 DEF Inductive
<1>10. QED BY <1>7, <1>8, <1>9, Zenon DEF ChunkArrives

\* It is kept by an empty read and by the end of a receive.
LEMMA EmptyReadStep == Inductive /\ EmptyRead => Inductive'
<1> SUFFICES ASSUME Inductive, EmptyRead PROVE Inductive' OBVIOUS
<1> USE DEF EmptyRead, rxVars
<1>1. FlagsOK' BY Zenon DEF Inductive, TypeOK, FlagsOK
<1>2. QED BY <1>1 DEF Inductive, TypeOK, FlagsOK, OnlySent, SentBytes

LEMMA GiveUpStep == Inductive /\ GiveUp => Inductive'
<1> SUFFICES ASSUME Inductive, GiveUp PROVE Inductive' OBVIOUS
<1> USE DEF GiveUp, rxVars
<1>1. FlagsOK' BY Zenon DEF Inductive, TypeOK, FlagsOK
<1>2. QED BY <1>1 DEF Inductive, TypeOK, FlagsOK, OnlySent, SentBytes

\* It is kept by every step, stuttering included.
LEMMA NextInductive == Inductive /\ [Next]_vars => Inductive'
<1> SUFFICES ASSUME Inductive, [Next]_vars PROVE Inductive' OBVIOUS
<1>1. CASE UNCHANGED vars
  BY <1>1 DEF vars, rxVars, Inductive, TypeOK, OnlySent, SentBytes
<1>2. QED
  BY <1>1, SensorSendsStep, RecvStartStep, ChunkArrivesStep, EmptyReadStep, GiveUpStep
     DEF Next

----
\* No sequence of chunks, whatever they hold and wherever a receive was given
\* up, writes beyond the reassembly buffer; no step leaves the types.
THEOREM FramingTypeOK == Spec => []TypeOK
<1>1. Inductive => TypeOK BY DEF Inductive
<1>2. QED BY <1>1, InitInductive, NextInductive, PTL DEF Spec
----
\* Lengths of chunks.  The k-th one ends Covered(k) bytes into the message, or is
\* the last.

LEMMA Quotient ==
  ASSUME NEW a \in Nat, NEW b \in Nat \ {0}
  PROVE  /\ a \div b \in Nat
         /\ (a \div b) * b <= a
         /\ a < (a \div b) * b + b
<1> DEFINE q == a \div b
<1>1. q \in Nat /\ q * b <= a /\ a < q * b + b OBVIOUS
<1> QED BY <1>1

LEMMA Multiples ==
  ASSUME NEW j \in Nat, NEW k \in Nat, j <= k, NEW b \in Nat
  PROVE  j * b <= k * b
OBVIOUS

\* Data in each chunk but the first.
Stride == IF pack_layer THEN ChunkSize ELSE ChunkSize - 1

LEMMA StrideNat == Stride \in Nat /\ Stride >= 3
BY FramingAssumption DEF Stride

LEMMA CoveredStride ==
  ASSUME NEW k \in Nat
  PROVE  Covered(k) = k * Stride + IF pack_layer THEN 0 ELSE 1
<1>1. k * ChunkSize \in Nat BY FramingAssumption
<1>2. CASE pack_layer BY <1>1, <1>2 DEF Covered, Stride
<1>3. CASE ~pack_layer BY <1>3 DEF Covered, Stride
<1> QED BY <1>2, <1>3

LEMMA CoveredGrows ==
  ASSUME NEW j \in Nat, NEW k \in Nat, j <= k
  PROVE  Covered(j) \in Nat /\ Covered(k) \in Nat /\ Covered(j) <= Covered(k)
<1>1. j * Stride <= k * Stride BY StrideNat, Multiples
<1>2. j * Stride \in Nat /\ k * Stride \in Nat BY StrideNat
<1> QED BY <1>1, <1>2, CoveredStride

LEMMA CoveredNext ==
  ASSUME NEW k \in Nat
  PROVE  Covered(k + 1) = Covered(k) + Stride
<1>1. (k + 1) * Stride = k * Stride + Stride BY StrideNat
<1>2. k * Stride \in Nat BY StrideNat
<1> QED BY <1>1, <1>2, CoveredStride, StrideNat

\* The chunks of a message cover it, and no fewer do.
LEMMA ChunkCountCovers ==
  ASSUME NEW len \in Nat, len >= 4
  PROVE  /\ ChunkCount(len) \in Nat \ {0}
         /\ Covered(ChunkCount(len)) >= len
         /\ Covered(ChunkCount(len) - 1) < len
<1> USE FramingAssumption
<1> DEFINE K == ChunkCount(len)
<1>1. CASE pack_layer
  <2> DEFINE q == (len + ChunkSize - 1) \div ChunkSize
  <2>1. len + ChunkSize - 1 \in Nat OBVIOUS
  <2>2. q \in Nat /\ q * ChunkSize <= len + ChunkSize - 1
        /\ len + ChunkSize - 1 < q * ChunkSize + ChunkSize
    BY <2>1, Quotient
  <2>3. K = q BY <1>1 DEF ChunkCount
  <2> HIDE DEF q, K
  <2>4. q # 0 BY <2>2
  <2>5. q * ChunkSize \in Nat /\ (q - 1) * ChunkSize = q * ChunkSize - ChunkSize BY <2>2
  <2>6. Covered(K) = q * ChunkSize /\ Covered(K - 1) = q * ChunkSize - ChunkSize
    BY <1>1, <2>3, <2>5 DEF Covered
  <2> QED BY <2>2, <2>3, <2>4, <2>5, <2>6 DEF K
<1>2. CASE ~pack_layer /\ len <= ChunkSize
  <2>1. K = 1 BY <1>2 DEF ChunkCount, BareChunkCount
  <2>2. Covered(1) = ChunkSize /\ Covered(0) = 1 BY <1>2 DEF Covered
  <2> QED BY <1>2, <2>1, <2>2
<1>3. CASE ~pack_layer /\ len > ChunkSize
  <2> DEFINE q == (len - ChunkSize + ChunkSize - 2) \div (ChunkSize - 1)
  <2>1. len - ChunkSize + ChunkSize - 2 = len - 2 /\ len - 2 \in Nat
        /\ ChunkSize - 1 \in Nat \ {0}
    OBVIOUS
  <2>2. q \in Nat /\ q * (ChunkSize - 1) <= len - 2
        /\ len - 2 < q * (ChunkSize - 1) + (ChunkSize - 1)
    BY <2>1, Quotient
  <2>3. K = 1 + q BY <1>3 DEF ChunkCount, BareChunkCount
  <2> HIDE DEF q, K
  <2>4. q * (ChunkSize - 1) \in Nat
        /\ (1 + q) * (ChunkSize - 1) = q * (ChunkSize - 1) + (ChunkSize - 1)
    BY <2>2
  <2>5. Covered(K) = q * (ChunkSize - 1) + (ChunkSize - 1) + 1
        /\ Covered(K - 1) = q * (ChunkSize - 1) + 1
    BY <1>3, <2>2, <2>3, <2>4 DEF Covered
  <2> QED BY <2>2, <2>3, <2>4, <2>5 DEF K
<1> QED BY <1>1, <1>2, <1>3

\* The length of a sequence is the length of its domain.
LEMMA IntervalLen ==
  ASSUME NEW S, NEW N \in Nat, NEW s \in Seq(S), DOMAIN s = 1 .. N
  PROVE  Len(s) = N
<1>1. Len(s) \in Nat /\ DOMAIN s = 1 .. Len(s) BY LenProperties
<1>2. Len(s) <= N
  <2>1. CASE Len(s) = 0 BY <2>1
  <2>2. CASE Len(s) # 0
    <3>1. Len(s) \in 1 .. N BY <1>1, <2>2
    <3> QED BY <3>1
  <2> QED BY <2>1, <2>2
<1>3. N <= Len(s)
  <2>1. CASE N = 0 BY <1>1, <2>1
  <2>2. CASE N # 0
    <3>1. N \in 1 .. Len(s) BY <1>1, <2>2
    <3> QED BY <1>1, <3>1
  <2> QED BY <2>1, <2>2
<1> QED BY <1>1, <1>2, <1>3

\* Where the k-th chunk of a message begins, and what fits it.
LEMMA BeforeRange ==
  ASSUME NEW len \in Nat, len >= 4, NEW k \in 1 .. ChunkCount(len)
  PROVE  /\ Before(k) \in 0 .. len - 1
         /\ Before(k) = 0 <=> k = 1
         /\ Before(k) + Room(Before(k)) = Covered(k)
         /\ Covered(k) \in Nat
         /\ k = ChunkCount(len) => Covered(k) >= len
         /\ k < ChunkCount(len) => Covered(k) < len
<1> USE FramingAssumption
<1> DEFINE K == ChunkCount(len)
<1>1. K \in Nat \ {0} /\ Covered(K) >= len /\ Covered(K - 1) < len
  BY ChunkCountCovers
<1>2. Covered(0) \in Nat /\ Covered(1) = ChunkSize
  <2>1. Covered(0) + Stride = Covered(0 + 1) BY CoveredNext
  <2>2. Covered(0) = IF pack_layer THEN 0 ELSE 1 BY DEF Covered
  <2> QED BY <2>1, <2>2 DEF Stride
<1>3. k < K => Covered(k) < len /\ Covered(k) \in Nat
  BY <1>1, CoveredGrows
<1>4. CASE k = 1
  <2>1. Before(k) = 0 /\ Room(0) = ChunkSize BY <1>4 DEF Before, Room
  <2> QED BY <1>1, <1>2, <1>3, <1>4, <2>1
<1>5. CASE k # 1
  <2>1. Before(k) = Covered(k - 1) BY <1>5 DEF Before
  <2>2. 1 <= k - 1 /\ k - 1 <= K - 1 /\ k - 1 \in Nat BY <1>1, <1>5
  <2> HIDE DEF K
  <2>3. Covered(1) <= Covered(k - 1) /\ Covered(k - 1) <= Covered(K - 1)
        /\ Covered(k - 1) \in Nat /\ Covered(K - 1) \in Nat
    BY <1>1, <2>2, CoveredGrows
  <2>4. Covered(k) = Covered(k - 1) + Stride
    <3>1. k = (k - 1) + 1 BY <2>2
    <3> QED BY <2>2, <3>1, CoveredNext
  <2>5. Room(Before(k)) = Stride
    BY <1>2, <2>1, <2>3 DEF Room, Stride
  <2>6. Before(k) # 0 /\ Before(k) \in 0 .. len - 1 BY <1>1, <1>2, <2>1, <2>3
  <2>7. Covered(k) \in Nat /\ Before(k) + Room(Before(k)) = Covered(k)
    BY <2>1, <2>3, <2>4, <2>5, StrideNat
  <2> QED BY <1>1, <1>3, <1>5, <2>6, <2>7 DEF K
<1> QED BY <1>4, <1>5

\* The k-th chunk of the n-th message lies where the k-th chunk begins.
LEMMA ChunkPlaced ==
  ASSUME NEW n, NEW len \in Nat, len >= 4, NEW k \in 1 .. ChunkCount(len),
         NEW padded \in BOOLEAN, k < ChunkCount(len) => padded
  PROVE  LET c == Chunk(n, len, k, padded)
         IN  Placed(c, n, Before(k), len) /\ Num(c) = n /\ Off(c) = Before(k)
<1> USE FramingAssumption
<1> DEFINE o == Before(k)
           m == Marks(o)
           data == Smaller(Room(o), len - o)
           N == IF padded THEN ChunkSize ELSE m + data
           c == Chunk(n, len, k, padded)
           byte(j) == <<n, IF j <= m THEN MARK
                           ELSE IF j <= m + data THEN o + j - m ELSE 0>>
           pos(j) == <<n, IF j <= m THEN MARK
                          ELSE IF o + j - m <= len THEN o + j - m ELSE 0>>
<1>1. /\ o \in 0 .. len - 1 /\ (o = 0 <=> k = 1)
      /\ k = ChunkCount(len) => o + Room(o) >= len
  BY BeforeRange
<1>2. /\ m = IF k = 1 \/ pack_layer THEN 0 ELSE 1
      /\ ChunkSize - m = Room(o) /\ m + Room(o) = ChunkSize
      /\ m \in {0, 1} /\ Room(o) \in Nat /\ Room(o) >= 3
  BY <1>1 DEF Marks, Room
<1>3. data \in Nat /\ data <= Room(o) /\ data <= len - o /\ data >= 1
      /\ (data = Room(o) \/ data = len - o)
      /\ (o = 0 => data >= 3)
  BY <1>1, <1>2 DEF Smaller
<1>4. N \in Nat /\ N >= m + data /\ N <= ChunkSize /\ N >= 1
  BY <1>2, <1>3
<1>5. c = [j \in 1 .. N |-> byte(j)]
  <2>1. data = Smaller(ChunkSize - m, len - o) BY <1>2
  <2>2. o = IF k = 1 THEN 0 ELSE Covered(k - 1) BY DEF Before
  <2> HIDE DEF o, m
  <2> QED BY <1>2, <2>1, <2>2 DEF Chunk
<1>6. c \in Seq({n} \X (Nat \cup {MARK})) BY ChunkCountInt, ChunkSeq
<1>7. Len(c) = N
  <2>1. DOMAIN c = 1 .. N BY <1>5
  <2> HIDE DEF c, N
  <2> QED BY <1>4, <1>6, <2>1, IntervalLen
<1> HIDE DEF o, m, data, N, c
<1>8. \A j \in 1 .. N : byte(j) = pos(j)
  BY <1>1, <1>2, <1>3, <1>4
<1>9. \A j \in 1 .. Len(c) : c[j] = pos(j) BY <1>5, <1>7, <1>8
<1>10. o + Room(o) < len => N = ChunkSize
  <2>1. o + Room(o) < len => k < ChunkCount(len)
    BY <1>1, <1>2, ChunkCountCovers
  <2> QED BY <2>1 DEF N
<1>11. Placed(c, n, o, len)
  <2>1. Len(c) \in m + Smaller(Room(o), len - o) .. ChunkSize
    BY <1>2, <1>3, <1>4, <1>7 DEF data
  <2>2. \E i \in 1 .. ChunkCount(len) : o = Before(i) BY DEF o
  <2> QED BY <1>1, <1>7, <1>9, <1>10, <2>1, <2>2 DEF Placed, m
<1>12. Num(c) = n BY <1>4, <1>7, <1>9 DEF Num
<1>13. Off(c) = o
  <2>1. CASE m = 0
    <3>1. c[1] = <<n, o + 1>> BY <1>1, <1>4, <1>7, <1>9, <2>1
    <3> QED BY <1>1, <3>1 DEF Off
  <2>2. CASE m = 1
    <3>1. N >= 2 BY <1>3, <1>4, <2>2
    <3>2. c[1] = <<n, MARK>> /\ c[2] = <<n, o + 1>>
      BY <1>1, <1>7, <1>9, <2>2, <3>1
    <3> QED BY <1>1, <3>2 DEF Off
  <2> QED BY <1>2, <2>1, <2>2
<1> QED BY <1>11, <1>12, <1>13 DEF c, o

----
\* The pipe holds consecutive chunks.

\* Every message is at least a header and a checksum long.
LEMMA WireLenNat ==
  ASSUME NEW payload \in Payloads
  PROVE  WireLen(payload) \in Nat /\ WireLen(payload) >= 4
<1>1. payload \in Nat BY FramingAssumption
<1> QED BY <1>1 DEF WireLen, MessageLen

LEMMA SentWireLen ==
  ASSUME Inductive, NEW n \in 1 .. Len(sent)
  PROVE  W(n) \in Nat /\ W(n) >= 4 /\ sent[n] \in [payload : Payloads, cmd : Cmds]
<1>1. sent[n] \in [payload : Payloads, cmd : Cmds]
  BY ElementOfSeq DEF Inductive, TypeOK
<1> QED BY <1>1, WireLenNat DEF W

\* The framing does not change: the pipe is read tomorrow as it is today.
LEMMA SameFraming ==
  ASSUME pack_layer' = pack_layer, NEW i
  PROVE  /\ Num(pipe[i])' = Num(pipe'[i]) /\ Off(pipe[i])' = Off(pipe'[i])
         /\ Placed(pipe[i], Num(pipe[i]), Off(pipe[i]), W(Num(pipe[i])))'
              <=> Placed(pipe'[i], Num(pipe'[i]), Off(pipe'[i]), W(Num(pipe[i]))')
         /\ After(pipe[i])' =
              IF Off(pipe'[i]) + Room(Off(pipe'[i])) < W(Num(pipe[i]))'
                THEN <<Num(pipe'[i]), Off(pipe'[i]) + Room(Off(pipe'[i]))>>
                ELSE <<Num(pipe'[i]) + 1, 0>>
<1>1. Num(pipe[i])' = Num(pipe'[i]) /\ Off(pipe[i])' = Off(pipe'[i]) BY DEF Num, Off
<1>2. Placed(pipe[i], Num(pipe[i]), Off(pipe[i]), W(Num(pipe[i])))'
        <=> Placed(pipe'[i], Num(pipe'[i]), Off(pipe'[i]), W(Num(pipe[i]))')
  BY DEF Placed, Room, Marks, Before, Covered, ChunkCount, BareChunkCount, Num, Off, W,
         WireLen, MessageLen
<1>3. After(pipe[i])' =
        IF Off(pipe'[i]) + Room(Off(pipe'[i])) < W(Num(pipe[i]))'
          THEN <<Num(pipe'[i]), Off(pipe'[i]) + Room(Off(pipe'[i]))>>
          ELSE <<Num(pipe'[i]) + 1, 0>>
  BY DEF After, Room, Num, Off
<1> QED BY <1>1, <1>2, <1>3

\* The chunks of a frame.
LEMMA FrameChunks ==
  ASSUME NEW n, NEW len \in Nat, len >= 4, NEW padded \in BOOLEAN
  PROVE  LET F == Frame(n, len, padded)
         IN  /\ Len(F) = ChunkCount(len)
             /\ \A k \in 1 .. ChunkCount(len) :
                  /\ Num(F[k]) = n /\ Off(F[k]) = Before(k)
                  /\ Placed(F[k], n, Before(k), len)
<1> DEFINE K == ChunkCount(len)
           F == Frame(n, len, padded)
<1>1. F \in Seq(Seq({n} \X (Nat \cup {MARK}))) BY FrameSeq
<1>2. K \in Nat \ {0} BY ChunkCountCovers
<1>3. DOMAIN F = 1 .. K BY DEF Frame
<1>4. Len(F) = K BY <1>1, <1>2, <1>3, IntervalLen
<1>5. ASSUME NEW k \in 1 .. K
      PROVE  Num(F[k]) = n /\ Off(F[k]) = Before(k) /\ Placed(F[k], n, Before(k), len)
  <2> DEFINE pad == padded \/ k < K
  <2>1. F[k] = Chunk(n, len, k, pad) BY DEF Frame
  <2>2. pad \in BOOLEAN BY Zenon
  <2>3. k < K => pad OBVIOUS
  <2> HIDE DEF pad, F
  <2>4. LET c == Chunk(n, len, k, pad)
        IN  Placed(c, n, Before(k), len) /\ Num(c) = n /\ Off(c) = Before(k)
    BY <2>2, <2>3, ChunkPlaced
  <2> QED BY <2>1, <2>4
<1> QED BY <1>4, <1>5

\* A message of the sensor continues the pipe, and moves nothing that was in it.
LEMMA SendKeepsPlaces ==
  ASSUME Inductive, Inductive', Consecutive, SensorSends
  PROVE  /\ Consecutive'
         /\ Place(1)' = Place(1)
         /\ Len(sent') = Len(sent) + 1
         /\ \A n \in 1 .. Len(sent) : W(n)' = W(n) /\ sent'[n] = sent[n]
<1>1. PICK payload \in Payloads, cmd \in Cmds, padded \in BOOLEAN :
        /\ sent' = Append(sent, [payload |-> payload, cmd |-> cmd])
        /\ pipe' = pipe \o Frame(Len(sent) + 1, WireLen(payload), padded)
  BY DEF SensorSends
<1>2. PICK N, P, len, K, F :
        /\ N = Len(sent) + 1 /\ P = Len(pipe)
        /\ len = WireLen(payload) /\ K = ChunkCount(len) /\ F = Frame(N, len, padded)
  OBVIOUS
<1>3. pack_layer' = pack_layer BY DEF SensorSends
<1>4. sent \in Seq([payload : Payloads, cmd : Cmds]) /\ Len(sent) \in Nat
      /\ pipe \in Seq(Seq(Bytes)) /\ P \in Nat /\ pipe' \in Seq(Seq(Bytes))
  BY <1>2 DEF Inductive, TypeOK
<1>5. /\ Len(sent') = N
      /\ \A n \in 1 .. Len(sent) : sent'[n] = sent[n]
      /\ sent'[N].payload = payload
  BY <1>1, <1>2, <1>4, AppendProperties
<1>6. W(N)' = len /\ \A n \in 1 .. Len(sent) : W(n)' = W(n)
  BY <1>2, <1>3, <1>5 DEF W, WireLen, MessageLen
<1>7. len \in Nat /\ len >= 4 /\ K \in Nat \ {0} BY <1>2, WireLenNat, ChunkCountCovers
<1>8. /\ Len(F) = K
      /\ \A k \in 1 .. K :
           Num(F[k]) = N /\ Off(F[k]) = Before(k) /\ Placed(F[k], N, Before(k), len)
  BY <1>2, <1>7, FrameChunks
<1>9. /\ Len(pipe') = P + K
      /\ \A i \in 1 .. P : pipe'[i] = pipe[i]
      /\ \A k \in 1 .. K : pipe'[P + k] = F[k]
  <2>1. F \in Seq(Seq({N} \X (Nat \cup {MARK}))) BY <1>2, <1>7, FrameSeq
  <2> DEFINE S == Seq(Bytes) \cup Seq({N} \X (Nat \cup {MARK}))
  <2>2. F \in Seq(S) /\ pipe \in Seq(S) BY <1>4, <2>1, SeqMonotonic
  <2> HIDE DEF S
  <2>3. /\ Len(pipe \o F) = Len(pipe) + Len(F)
        /\ \A i \in 1 .. Len(pipe) + Len(F) :
             (pipe \o F)[i] = IF i <= Len(pipe) THEN pipe[i] ELSE F[i - Len(pipe)]
    BY <2>2, ConcatProperties
  <2>4. pipe' = pipe \o F BY <1>1, <1>2
  <2>5. \A i \in 1 .. P : i \in 1 .. P + K /\ i <= P BY <1>4, <1>7
  <2>6. \A k \in 1 .. K : P + k \in 1 .. P + K /\ ~(P + k <= P) /\ (P + k) - P = k
    BY <1>4, <1>7
  <2>7. Len(F) = K /\ Len(pipe) = P BY <1>2, <1>8
  <2> QED BY <2>3, <2>4, <2>5, <2>6, <2>7
<1>10. \A i \in 1 .. P : Place(i)' = Place(i) /\ Place(i) = <<Num(pipe[i]), Off(pipe[i])>>
  <2> SUFFICES ASSUME NEW i \in 1 .. P
               PROVE  Place(i)' = Place(i) /\ Place(i) = <<Num(pipe[i]), Off(pipe[i])>>
    OBVIOUS
  <2>1. ~(i > Len(pipe')) /\ ~(i > Len(pipe)) BY <1>2, <1>4, <1>7, <1>9
  <2>2. pipe'[i] = pipe[i] BY <1>9
  <2> QED BY <2>1, <2>2 DEF Place, Num, Off
<1>11. \A k \in 1 .. K : Place(P + k)' = <<N, Before(k)>>
  <2> SUFFICES ASSUME NEW k \in 1 .. K PROVE Place(P + k)' = <<N, Before(k)>> OBVIOUS
  <2>1. ~(P + k > Len(pipe')) BY <1>4, <1>7, <1>9
  <2>2. pipe'[P + k] = F[k] BY <1>9
  <2>3. Num(F[k]) = N /\ Off(F[k]) = Before(k) BY <1>8
  <2> QED BY <2>1, <2>2, <2>3 DEF Place, Num, Off
<1>12. Place(P + K + 1)' = <<N + 1, 0>>
  <2>1. P + K + 1 > Len(pipe') BY <1>4, <1>7, <1>9
  <2> QED BY <1>5, <2>1 DEF Place
<1>13. Place(P + 1)' = Place(P + 1) /\ Place(P + 1) = <<N, 0>>
  <2>1. P + 1 > Len(pipe) BY <1>2, <1>4
  <2>2. Before(1) = 0 /\ 1 \in 1 .. K BY <1>7 DEF Before
  <2>3. Place(P + 1)' = <<N, 0>> BY <1>11, <2>2
  <2> QED BY <1>2, <2>1, <2>3 DEF Place
<1>14. ASSUME NEW i \in 1 .. P + K
       PROVE  /\ Num(pipe'[i]) \in 1 .. Len(sent')
              /\ Placed(pipe'[i], Num(pipe'[i]), Off(pipe'[i]), W(Num(pipe[i]))')
              /\ Place(i + 1)' = After(pipe[i])'
  <2>1. CASE i \in 1 .. P
    <3>1. /\ Num(pipe[i]) \in 1 .. Len(sent)
          /\ Placed(pipe[i], Num(pipe[i]), Off(pipe[i]), W(Num(pipe[i])))
          /\ Place(i + 1) = After(pipe[i])
      BY <1>2, <2>1 DEF Consecutive
    <3>2. pipe'[i] = pipe[i] BY <1>9, <2>1
    <3>3. W(Num(pipe[i]))' = W(Num(pipe[i]))
      <4>1. PICK n \in 1 .. Len(sent) : n = Num(pipe[i]) BY <3>1
      <4>2. n = Num(pipe[i])' BY <3>2, <4>1 DEF Num
      <4>3. W(n)' = W(n) BY <1>6
      <4> QED BY <4>1, <4>2, <4>3 DEF W
    <3>4. After(pipe[i])' = After(pipe[i])
      BY <1>3, <3>2, <3>3, SameFraming DEF After
    <3>5. Place(i + 1)' = Place(i + 1)
      <4>1. CASE i + 1 \in 1 .. P BY <1>10, <4>1
      <4>2. CASE i + 1 \notin 1 .. P
        <5>1. i + 1 = P + 1 BY <1>4, <2>1, <4>2
        <5> QED BY <1>13, <5>1
      <4> QED BY <4>1, <4>2
    <3>6. 1 .. Len(sent) \subseteq 1 .. Len(sent') BY <1>2, <1>4, <1>5
    <3> QED BY <3>1, <3>2, <3>3, <3>4, <3>5, <3>6
  <2>2. CASE i \notin 1 .. P
    <3>1. PICK k \in 1 .. K : i = P + k
      <4>1. i - P \in 1 .. K /\ i = P + (i - P) BY <1>4, <1>7, <2>2
      <4> QED BY <4>1
    <3>2. /\ pipe'[i] = F[k] /\ Num(F[k]) = N /\ Off(F[k]) = Before(k)
          /\ Placed(F[k], N, Before(k), len)
      BY <1>8, <1>9, <3>1
    <3>3. W(Num(pipe[i]))' = len
      <4>1. N = Num(pipe[i])' BY <3>2 DEF Num
      <4> QED BY <1>6, <4>1 DEF W
    <3>4. /\ Before(k) + Room(Before(k)) = Covered(k) /\ Covered(k) \in Nat
          /\ (k = K => Covered(k) >= len) /\ (k < K => Covered(k) < len)
      BY <1>2, <1>7, BeforeRange
    <3>5. After(pipe[i])' = IF k < K THEN <<N, Covered(k)>> ELSE <<N + 1, 0>>
      <4>1. After(pipe[i])' = IF Before(k) + Room(Before(k)) < len
                                THEN <<N, Before(k) + Room(Before(k))>> ELSE <<N + 1, 0>>
        BY <1>3, <3>2, <3>3, SameFraming
      <4> QED BY <1>7, <3>4, <4>1
    <3>6. Place(i + 1)' = IF k < K THEN <<N, Covered(k)>> ELSE <<N + 1, 0>>
      <4>1. CASE k < K
        <5>1. k + 1 \in 1 .. K /\ i + 1 = P + (k + 1) BY <1>4, <1>7, <3>1, <4>1
        <5>2. Before(k + 1) = Covered(k) BY <1>7 DEF Before
        <5> QED BY <1>11, <4>1, <5>1, <5>2
      <4>2. CASE ~(k < K)
        <5>1. i + 1 = P + K + 1 BY <1>4, <1>7, <3>1, <4>2
        <5> QED BY <1>12, <4>2, <5>1
      <4> QED BY <4>1, <4>2
    <3>7. Num(pipe'[i]) \in 1 .. Len(sent') BY <1>2, <1>4, <1>5, <3>2
    <3> QED BY <3>2, <3>3, <3>5, <3>6, <3>7
  <2> QED BY <2>1, <2>2
<1>15. Consecutive'
  <2> SUFFICES ASSUME NEW i \in 1 .. Len(pipe')
               PROVE  /\ Num(pipe[i])' \in 1 .. Len(sent')
                      /\ Placed(pipe[i], Num(pipe[i]), Off(pipe[i]), W(Num(pipe[i])))'
                      /\ Place(i + 1)' = After(pipe[i])'
    BY DEF Consecutive
  <2> QED BY <1>3, <1>9, <1>14, SameFraming
<1>16. Place(1)' = Place(1)
  <2>1. CASE P = 0 BY <1>13, <2>1
  <2>2. CASE P # 0
    <3>1. 1 \in 1 .. P BY <1>4, <2>2
    <3> QED BY <1>10, <3>1
  <2> QED BY <2>1, <2>2
<1> QED BY <1>2, <1>5, <1>6, <1>15, <1>16

\* Taking the first chunk leaves the rest in its place.
LEMMA TakeKeepsPlaces ==
  ASSUME Inductive, Consecutive, pipe # <<>>, pipe' = Tail(pipe), sent' = sent,
         pack_layer' = pack_layer
  PROVE  /\ Consecutive'
         /\ Place(1)' = After(Head(pipe))
         /\ Place(1) = <<Num(Head(pipe)), Off(Head(pipe))>>
         /\ Num(Head(pipe)) \in 1 .. Len(sent)
         /\ Placed(Head(pipe), Num(Head(pipe)), Off(Head(pipe)), W(Num(Head(pipe))))
<1>1. /\ Len(pipe) \in Nat \ {0} /\ Len(pipe') = Len(pipe) - 1
      /\ Head(pipe) = pipe[1]
      /\ \A i \in 1 .. Len(pipe') : pipe'[i] = pipe[i + 1]
  BY HeadTailProperties, EmptySeq DEF Inductive, TypeOK
<1>2. \A n : W(n)' = W(n) BY DEF W, WireLen, MessageLen
<1>3. ASSUME NEW i \in 1 .. Len(pipe') + 1
      PROVE  Place(i)' = Place(i + 1)
  <2>1. CASE i \in 1 .. Len(pipe')
    <3>1. ~(i > Len(pipe')) /\ ~(i + 1 > Len(pipe)) /\ pipe'[i] = pipe[i + 1]
      BY <1>1, <2>1
    <3> QED BY <3>1 DEF Place, Num, Off
  <2>2. CASE i \notin 1 .. Len(pipe')
    <3>1. i > Len(pipe') /\ i + 1 > Len(pipe) BY <1>1, <2>2
    <3> QED BY <3>1 DEF Place
  <2> QED BY <2>1, <2>2
<1>4. ASSUME NEW i \in 1 .. Len(pipe')
      PROVE  /\ Num(pipe[i])' \in 1 .. Len(sent')
             /\ Placed(pipe[i], Num(pipe[i]), Off(pipe[i]), W(Num(pipe[i])))'
             /\ Place(i + 1)' = After(pipe[i])'
  <2>1. i + 1 \in 1 .. Len(pipe) /\ pipe'[i] = pipe[i + 1] /\ i + 1 \in 1 .. Len(pipe') + 1
    BY <1>1
  <2>2. /\ Num(pipe[i + 1]) \in 1 .. Len(sent)
        /\ Placed(pipe[i + 1], Num(pipe[i + 1]), Off(pipe[i + 1]), W(Num(pipe[i + 1])))
        /\ Place((i + 1) + 1) = After(pipe[i + 1])
    BY <2>1 DEF Consecutive
  <2>3. W(Num(pipe[i]))' = W(Num(pipe[i + 1]))
    BY <2>1 DEF W, WireLen, MessageLen, Num
  <2>4. After(pipe[i])' = After(pipe[i + 1])
    BY <2>1, <2>3, SameFraming DEF After
  <2>5. Place(i + 1)' = Place((i + 1) + 1) BY <1>3, <2>1
  <2> QED BY <2>1, <2>2, <2>3, <2>4, <2>5, SameFraming
<1>5. Consecutive' BY <1>4 DEF Consecutive
<1>6. 1 \in 1 .. Len(pipe) /\ 1 \in 1 .. Len(pipe') + 1 /\ ~(1 > Len(pipe)) BY <1>1
<1>7. /\ Num(Head(pipe)) \in 1 .. Len(sent)
      /\ Placed(Head(pipe), Num(Head(pipe)), Off(Head(pipe)), W(Num(Head(pipe))))
      /\ Place(1 + 1) = After(Head(pipe))
  BY <1>1, <1>6 DEF Consecutive
<1>8. Place(1)' = Place(1 + 1) BY <1>3, <1>6
<1>9. Place(1) = <<Num(Head(pipe)), Off(Head(pipe))>> BY <1>1, <1>6 DEF Place
<1> QED BY <1>5, <1>7, <1>8, <1>9

\* Nothing moves while the pipe does not.
LEMMA StillKeepsPlaces ==
  ASSUME Consecutive, UNCHANGED <<pipe, sent, pack_layer>>
  PROVE  Consecutive' /\ Place(1)' = Place(1)
<1>1. \A i : Place(i)' = Place(i) BY DEF Place, Num, Off
<1>2. ASSUME NEW i \in 1 .. Len(pipe')
      PROVE  /\ Num(pipe[i])' \in 1 .. Len(sent')
             /\ Placed(pipe[i], Num(pipe[i]), Off(pipe[i]), W(Num(pipe[i])))'
             /\ Place(i + 1)' = After(pipe[i])'
  <2>1. /\ Num(pipe[i]) \in 1 .. Len(sent)
        /\ Placed(pipe[i], Num(pipe[i]), Off(pipe[i]), W(Num(pipe[i])))
        /\ Place(i + 1) = After(pipe[i])
    BY DEF Consecutive
  <2>2. W(Num(pipe[i]))' = W(Num(pipe[i])) BY DEF W, WireLen, MessageLen, Num
  <2>3. After(pipe[i])' = After(pipe[i]) BY <2>2, SameFraming DEF After
  <2> QED BY <1>1, <2>1, <2>2, <2>3, SameFraming
<1> QED BY <1>1, <1>2 DEF Consecutive

----
\* What a placed chunk adds to the buffer.

\* How long a chunk is: the offset lies in the message, a chunk that is not the last is
\* full, the last one holds the rest.
Sized(c, o, len) ==
  /\ o \in Nat /\ o < len /\ Marks(o) \in {0, 1} /\ Room(o) \in Nat /\ Room(o) >= 3
  /\ Marks(o) + Room(o) = ChunkSize
  /\ Len(c) <= ChunkSize /\ Len(c) - Marks(o) >= 1
  /\ o = 0 => Len(c) >= 4
  /\ o + Room(o) < len => Len(c) = ChunkSize
  /\ o + Room(o) >= len => o + Len(c) - Marks(o) >= len

\* What its first byte is: a marker, or the message's at that offset.
Marked(c, n, o) ==
  /\ Marks(o) = 0 <=> o = 0 \/ pack_layer
  /\ Marks(o) = 1 => c[1] = <<n, MARK>>
  /\ Marks(o) = 0 => c[1] = <<n, o + 1>>

\* What follows the marker: bytes of the message and, after the end of it, padding.
Filled(c, n, o, len) ==
  \A j \in 1 .. Len(c) - Marks(o) :
    c[j + Marks(o)] = <<n, IF o + j <= len THEN o + j ELSE 0>>

LEMMA PlacedBytes ==
  ASSUME NEW c, NEW n, NEW len \in Nat, len >= 4, NEW o, Placed(c, n, o, len),
         Len(c) \in Nat
  PROVE  Sized(c, o, len) /\ Marked(c, n, o) /\ Filled(c, n, o, len)
<1> USE FramingAssumption
<1> DEFINE m == Marks(o)
<1>1. o \in 0 .. len - 1 BY DEF Placed
<1>2. /\ m = IF o = 0 \/ pack_layer THEN 0 ELSE 1
      /\ m + Room(o) = ChunkSize /\ Room(o) \in Nat /\ Room(o) >= 3
      /\ (o = 0 => Room(o) = ChunkSize)
  BY DEF Marks, Room
<1>3. /\ Len(c) \in m + Smaller(Room(o), len - o) .. ChunkSize
      /\ o + Room(o) < len => Len(c) = ChunkSize
      /\ \A j \in 1 .. Len(c) : c[j] = <<n, IF j <= m THEN MARK
                   ELSE IF o + j - m <= len THEN o + j - m ELSE 0>>
  BY DEF Placed
<1>4. /\ Smaller(Room(o), len - o) \in Nat /\ Smaller(Room(o), len - o) >= 1
      /\ (o = 0 => Smaller(Room(o), len - o) >= 4)
      /\ (o + Room(o) >= len => Smaller(Room(o), len - o) = len - o)
  BY <1>1, <1>2 DEF Smaller
<1> HIDE DEF m
<1>5. m \in {0, 1} /\ 1 \in 1 .. Len(c) BY <1>2, <1>3, <1>4
<1>6. ASSUME NEW j \in 1 .. Len(c) - m
      PROVE  c[j + m] = <<n, IF o + j <= len THEN o + j ELSE 0>>
  <2>1. j + m \in 1 .. Len(c) /\ ~(j + m <= m) /\ o + (j + m) - m = o + j
    BY <1>1, <1>5
  <2> QED BY <1>3, <2>1
<1>7. m = 1 => c[1] = <<n, MARK>> BY <1>3, <1>5
<1>8. m = 0 => c[1] = <<n, o + 1>> BY <1>1, <1>3, <1>5
<1>9. /\ Len(c) <= ChunkSize /\ Len(c) - m >= 1 /\ (o = 0 => Len(c) >= 4)
      /\ (o + Room(o) >= len => o + Len(c) - m >= len)
  BY <1>1, <1>2, <1>3, <1>4, <1>5
<1>10. m = 0 <=> o = 0 \/ pack_layer BY <1>2
<1>11. /\ o \in Nat /\ o < len
       /\ m + Room(o) = ChunkSize /\ Room(o) \in Nat /\ Room(o) >= 3
       /\ o + Room(o) < len => Len(c) = ChunkSize
  BY <1>1, <1>2, <1>3
<1>12. m \in {0, 1} BY <1>5
<1> QED
  BY <1>6, <1>7, <1>8, <1>9, <1>10, <1>11, <1>12, Zenon DEF m, Sized, Marked, Filled

\* The bytes of chunk c that the buffer takes: all but its marker.
Data(c, o) == IF Marks(o) = 0 THEN c ELSE Tail(c)

\* d is b with the data of the chunk at offset o, where b was a beginning of the n-th
\* message: longer by them, and again a beginning of it or all of it and padding.
Joined(d, b, c, n, o, len) ==
  /\ Len(d) \in Nat /\ Len(d) = o + Len(c) - Marks(o)
  /\ \A i \in 1 .. Len(b) : d[i] = b[i]
  /\ \A i \in 1 .. Len(d) : i > Len(b) => d[i] = <<n, IF i <= len THEN i ELSE 0>>

LEMMA DataJoins ==
  ASSUME NEW S, NEW b \in Seq(S), NEW c \in Seq(S),
         NEW n, NEW len \in Nat, len >= 4, NEW o, Placed(c, n, o, len), Len(b) = o
  PROVE  Joined(b \o Data(c, o), b, c, n, o, len)
<1> DEFINE m == Marks(o)
           e == Data(c, o)
           d == b \o e
<1>1. Len(c) \in Nat /\ Len(b) \in Nat BY LenProperties
<1>2. Sized(c, o, len) /\ Filled(c, n, o, len) BY <1>1, PlacedBytes
<1>3. o \in Nat /\ m \in {0, 1} /\ Len(c) - m >= 1 BY <1>2 DEF Sized
<1>4. \A j \in 1 .. Len(c) - m : c[j + m] = <<n, IF o + j <= len THEN o + j ELSE 0>>
  BY <1>2 DEF Filled
<1> HIDE DEF m
<1>5. e \in Seq(S) /\ Len(e) = Len(c) - m /\ \A j \in 1 .. Len(e) : e[j] = c[j + m]
  <2>1. CASE m = 0
    <3>1. e = c BY <2>1 DEF Data, m
    <3>2. \A j \in 1 .. Len(c) : j + m = j BY <1>1, <2>1
    <3> QED BY <1>1, <2>1, <3>1, <3>2
  <2>2. CASE m = 1
    <3>1. e = Tail(c) BY <2>2 DEF Data, m
    <3>2. c # <<>> BY <1>3, <2>2, EmptySeq
    <3> QED BY <1>1, <2>2, <3>1, <3>2, HeadTailProperties
  <2> QED BY <1>3, <2>1, <2>2
<1> HIDE DEF e
<1>6. /\ Len(d) = Len(b) + Len(e)
      /\ \A i \in 1 .. Len(b) + Len(e) : d[i] = IF i <= Len(b) THEN b[i] ELSE e[i - Len(b)]
  BY <1>5, ConcatProperties
<1> HIDE DEF d
<1>7. Len(d) \in Nat /\ Len(d) = o + Len(c) - m BY <1>1, <1>3, <1>5, <1>6
<1>8. ASSUME NEW i \in 1 .. Len(b) PROVE d[i] = b[i]
  <2>1. i \in 1 .. Len(b) + Len(e) /\ i <= Len(b) BY <1>1, <1>3, <1>5
  <2> QED BY <1>6, <2>1
<1>9. ASSUME NEW i \in 1 .. Len(d), i > Len(b)
      PROVE  d[i] = <<n, IF i <= len THEN i ELSE 0>>
  <2>1. i - Len(b) \in 1 .. Len(e) /\ i \in 1 .. Len(b) + Len(e) /\ ~(i <= Len(b))
        /\ o + (i - Len(b)) = i
    BY <1>1, <1>3, <1>5, <1>6, <1>9
  <2>2. d[i] = e[i - Len(b)] BY <1>6, <2>1
  <2>3. e[i - Len(b)] = c[(i - Len(b)) + m] BY <1>5, <2>1
  <2> QED BY <1>4, <1>5, <2>1, <2>2, <2>3
<1> QED BY <1>7, <1>8, <1>9 DEF d, e, m, Joined

\* A bare receive takes the first chunk of a message, or a marker it then stays
\* alone with, or the next chunk of the message whose beginning it holds.
LEMMA BareFeed ==
  ASSUME Inductive, BareGoesOn, reading, ~pack_layer,
         NEW c \in Seq(SentBytes), Feed(c),
         NEW n, NEW o, NEW len \in Nat, len >= 4,
         Place(1) = <<n, o>>, Placed(c, n, o, len)
  PROVE  /\ cmd_byte'[2] => Len(buf') <= ChunkSize
         /\ ~cmd_byte'[2] =>
              /\ buf'[1][1] = n
              /\ \A i \in 1 .. Len(buf') : buf'[i] \in {<<n, i>>, <<n, 0>>}
              /\ o + Room(o) < len => Len(buf') = o + Room(o)
<1> USE FramingAssumption
<1>1. Len(c) \in Nat /\ buf \in Seq(SentBytes) /\ Len(buf) \in Nat
  BY LenProperties DEF Inductive, OnlySent
<1>2. Sized(c, o, len) /\ Marked(c, n, o) /\ Filled(c, n, o, len)
  BY <1>1, PlacedBytes
<1>3. /\ o \in Nat /\ o < len /\ Marks(o) \in {0, 1} /\ Marks(o) + Room(o) = ChunkSize
      /\ Room(o) \in Nat /\ Len(c) <= ChunkSize /\ Len(c) - Marks(o) >= 1
      /\ o + Room(o) < len => Len(c) = ChunkSize
  BY <1>2 DEF Sized
<1>4. /\ Marks(o) = 0 <=> o = 0
      /\ Marks(o) = 1 => c[1] = <<n, MARK>>
      /\ Marks(o) = 0 => c[1] = <<n, o + 1>>
  BY <1>2 DEF Marked
<1>5. CASE FeedFirst(c)
  <2>1. buf' = c /\ cmd_byte'[2] = (c[1][2] = MARK) BY <1>5 DEF FeedFirst, FirstByte
  <2>2. ASSUME ~cmd_byte'[2]
        PROVE  /\ buf'[1][1] = n
               /\ \A i \in 1 .. Len(buf') : buf'[i] \in {<<n, i>>, <<n, 0>>}
               /\ o + Room(o) < len => Len(buf') = o + Room(o)
    <3>1. c[1][2] # MARK BY <2>1, <2>2
    <3>2. Marks(o) = 0 /\ o = 0 BY <1>3, <1>4, <3>1
    <3>3. c[1] = <<n, 1>> BY <1>4, <3>2
    <3>4. \A j \in 1 .. Len(c) :
            c[j] = <<n, IF j <= len THEN j ELSE 0>>
      BY <1>1, <1>2, <3>2 DEF Filled
    <3>5. \A j \in 1 .. Len(c) : c[j] \in {<<n, j>>, <<n, 0>>} BY <3>4
    <3> QED BY <1>3, <2>1, <3>2, <3>3, <3>5
  <2> QED BY <1>3, <2>1, <2>2
<1>6. CASE buf # <<>> /\ FeedNext(c)
  <2>1. /\ c[1][2] = MARK /\ cmd_byte[2] = FALSE /\ cmd_byte' = cmd_byte
        /\ buf' = buf \o Tail(c)
    BY <1>6 DEF FeedNext, Continues
  <2>2. Marks(o) = 1 /\ o # 0
    <3>1. Marks(o) # 0
      <4>1. ASSUME Marks(o) = 0 PROVE FALSE
        <5>1. c[1] = <<n, o + 1>> BY <1>4, <4>1
        <5> QED BY <1>3, <2>1, <5>1
      <4> QED BY <4>1
    <3> QED BY <1>3, <1>4, <3>1
  <2>3. /\ \A i \in 1 .. Len(buf) : buf[i] \in {<<buf[1][1], i>>, <<buf[1][1], 0>>}
        /\ Place(1) \in {<<buf[1][1], Len(buf)>>, <<buf[1][1] + 1, 0>>}
    BY <1>6, <2>1 DEF BareGoesOn
  <2>4. buf[1][1] = n /\ Len(buf) = o BY <2>2, <2>3
  <2>5. buf' = buf \o Data(c, o) BY <2>1, <2>2 DEF Data
  <2>6. Joined(buf', buf, c, n, o, len) BY <1>1, <2>4, <2>5, DataJoins
  <2>7. /\ Len(buf') \in Nat /\ Len(buf') = o + Len(c) - Marks(o)
        /\ \A i \in 1 .. Len(buf) : buf'[i] = buf[i]
        /\ \A i \in 1 .. Len(buf') :
             i > Len(buf) => buf'[i] = <<n, IF i <= len THEN i ELSE 0>>
    BY <2>6 DEF Joined
  <2>8. ASSUME NEW i \in 1 .. Len(buf') PROVE buf'[i] \in {<<n, i>>, <<n, 0>>}
    <3>1. i > Len(buf) \/ i \in 1 .. Len(buf) BY <1>1, <2>7
    <3> QED BY <2>3, <2>4, <2>7, <3>1
  <2>9. buf'[1][1] = n
    <3>1. 1 \in 1 .. Len(buf) BY <1>1, <1>3, <2>2, <2>4
    <3> QED BY <2>4, <2>7, <3>1
  <2>10. o + Room(o) < len => Len(buf') = o + Room(o)
    <3>1. Len(buf') = o + Len(c) - Marks(o) BY <2>7
    <3> QED BY <1>1, <1>3, <3>1
  <2> QED BY <2>1, <2>8, <2>9, <2>10
<1> QED BY <1>5, <1>6 DEF Feed

----
\* As long as no receive was given up inside a message.

\* The next chunk, at offset o of the n-th message, is the one that the buffer lacks.
Lacks(n, o) ==
  /\ n = got + 1 /\ Len(buf) = o
  /\ buf = <<>> <=> o = 0
  /\ \A i \in 1 .. Len(buf) : buf[i] = <<n, i>>
  /\ buf = <<>> => expected = 0
  /\ buf # <<>> => /\ Len(buf) < W(n) /\ expected = W(n)
                   /\ pack_layer \/ cmd_byte = <<sent[n].cmd, FALSE>>

LEMMA TurnPlace ==
  ASSUME Inductive, InTurn, ~given_up, reading, NEW n, NEW o, Place(1) = <<n, o>>
  PROVE  Lacks(n, o)
<1>1. buf \in Seq(SentBytes) /\ Len(buf) \in Nat
  BY LenProperties DEF Inductive, OnlySent
<1>2. CASE buf = <<>>
  <2>1. Len(buf) = 0 BY <1>2
  <2>2. Place(1) = <<got + 1, 0>> /\ expected = 0 BY <1>2 DEF InTurn
  <2> QED BY <1>2, <2>1, <2>2 DEF Lacks
<1>3. CASE buf # <<>>
  <2>1. /\ Len(buf) < W(got + 1) /\ expected = W(got + 1)
        /\ \A i \in 1 .. Len(buf) : buf[i] = <<got + 1, i>>
        /\ Place(1) = <<got + 1, Len(buf)>>
        /\ pack_layer \/ cmd_byte = <<sent[got + 1].cmd, FALSE>>
    BY <1>3 DEF InTurn
  <2>2. n = got + 1 /\ o = Len(buf) BY <2>1
  <2>3. Len(buf) # 0 BY <1>1, <1>3, EmptySeq
  <2> QED BY <1>3, <2>1, <2>2, <2>3 DEF Lacks
<1> QED BY <1>2, <1>3

\* The length is that of the message when its header is there.
LEMMA HeaderOfMessage ==
  ASSUME Inductive, NEW n \in 1 .. Len(sent), NEW b,
         \A i \in 1 .. 3 : b[i] = <<n, i>>
  PROVE  HeaderLens(b) = {W(n)}
<1>1. b[1] = <<n, 1>> /\ b[1][1] = n OBVIOUS
<1>2. HeaderLens(b) = {FieldToLen(SizeField(sent[n].payload))} BY <1>1 DEF HeaderLens
<1>3. sent[n].payload \in Nat
  <2>1. \A payload \in Payloads : payload \in Nat BY FramingAssumption
  <2>2. sent[n] \in [payload : Payloads, cmd : Cmds] BY SentWireLen
  <2> QED BY <2>1, <2>2
<1>4. FieldToLen(SizeField(sent[n].payload)) = W(n)
  <2>1. CASE pack_layer
    BY <1>3, <2>1 DEF FieldToLen, SizeField, MessageLen, W, WireLen
  <2>2. CASE ~pack_layer
    BY <1>3, <2>2 DEF FieldToLen, SizeField, MessageLen, W, WireLen
  <2> QED BY <2>1, <2>2
<1> QED BY <1>2, <1>4

\* An accepted chunk extends the message by its data.
LEMMA TurnFeed ==
  ASSUME Inductive, InTurn, ~given_up, reading,
         NEW c \in Seq(SentBytes), Feed(c),
         NEW n \in 1 .. Len(sent), NEW o, Place(1) = <<n, o>>, Placed(c, n, o, W(n))
  PROVE  /\ Joined(buf', buf, c, n, o, W(n))
         /\ \A i \in 1 .. Len(buf') : buf'[i] = <<n, IF i <= W(n) THEN i ELSE 0>>
         /\ expected' = W(n)
         /\ pack_layer \/ cmd_byte' = <<sent[n].cmd, FALSE>>
<1> USE FramingAssumption
<1>1. W(n) \in Nat /\ W(n) >= 4 BY SentWireLen
<1>2. Len(c) \in Nat /\ buf \in Seq(SentBytes) /\ Len(buf) \in Nat
  BY LenProperties DEF Inductive, OnlySent
<1>3. /\ Len(buf) = o /\ (buf = <<>> <=> o = 0)
      /\ \A i \in 1 .. Len(buf) : buf[i] = <<n, i>>
      /\ buf = <<>> => expected = 0
      /\ buf # <<>> => /\ Len(buf) < W(n) /\ expected = W(n)
                       /\ pack_layer \/ cmd_byte = <<sent[n].cmd, FALSE>>
  <2>1. Lacks(n, o) BY TurnPlace
  <2> QED BY <2>1 DEF Lacks
<1>4. Sized(c, o, W(n)) /\ Marked(c, n, o) BY <1>1, <1>2, PlacedBytes
<1>5. Marks(o) \in {0, 1} /\ o \in Nat /\ o < W(n) /\ (o = 0 => Len(c) >= 4)
  BY <1>4 DEF Sized
<1>6. (Marks(o) = 0 <=> o = 0 \/ pack_layer) /\ (Marks(o) = 0 => c[1] = <<n, o + 1>>)
  BY <1>4 DEF Marked
<1>7. buf' = buf \o Data(c, o)
  <2>1. CASE pack_layer /\ FeedPack(c) BY <1>6, <2>1 DEF FeedPack, Data
  <2>2. CASE ~pack_layer /\ buf = <<>> /\ FeedFirst(c)
    <3>1. buf' = c /\ Data(c, o) = c BY <1>3, <1>6, <2>2 DEF FeedFirst, Data
    <3>2. <<>> \o c = c BY ConcatEmptySeq
    <3> QED BY <2>2, <3>1, <3>2
  <2>3. CASE ~pack_layer /\ buf # <<>> /\ FeedNext(c)
    BY <1>3, <1>6, <2>3 DEF FeedNext, Data
  <2> QED BY <2>1, <2>2, <2>3 DEF Feed
<1>8. Joined(buf', buf, c, n, o, W(n)) BY <1>1, <1>2, <1>3, <1>7, DataJoins
<1>9. /\ Len(buf') \in Nat /\ Len(buf') = o + Len(c) - Marks(o)
      /\ \A i \in 1 .. Len(buf) : buf'[i] = buf[i]
      /\ \A i \in 1 .. Len(buf') :
           i > Len(buf) => buf'[i] = <<n, IF i <= W(n) THEN i ELSE 0>>
  BY <1>8 DEF Joined
<1>10. ASSUME NEW i \in 1 .. Len(buf')
       PROVE  buf'[i] = <<n, IF i <= W(n) THEN i ELSE 0>>
  <2>1. CASE i > Len(buf) BY <1>9, <2>1
  <2>2. CASE ~(i > Len(buf))
    <3>1. i \in 1 .. Len(buf) /\ i <= W(n) BY <1>1, <1>2, <1>3, <1>5, <1>9, <2>2
    <3> QED BY <1>3, <1>9, <3>1
  <2> QED BY <2>1, <2>2
<1>11. ASSUME buf = <<>> PROVE HeaderLens(buf') = {W(n)} /\ Len(buf') >= 4
  <2>1. o = 0 /\ Marks(o) = 0 BY <1>3, <1>6, <1>11
  <2>2. Len(buf') = Len(c) /\ Len(c) >= 4 BY <1>2, <1>5, <1>9, <2>1
  <2>3. \A i \in 1 .. 3 : buf'[i] = <<n, i>>
    <3> SUFFICES ASSUME NEW i \in 1 .. 3 PROVE buf'[i] = <<n, i>> OBVIOUS
    <3>1. i \in 1 .. Len(buf') /\ i <= W(n) BY <1>1, <1>2, <2>2
    <3> QED BY <1>10, <3>1
  <2> QED BY <2>2, <2>3, HeaderOfMessage
<1>12. expected' = W(n)
  <2>1. CASE pack_layer /\ FeedPack(c)
    <3>1. expected' \in IF expected = 0 /\ Len(buf') >= 4 THEN HeaderLens(buf')
                        ELSE {expected}
      BY <2>1 DEF FeedPack
    <3>2. CASE buf = <<>> BY <1>3, <1>11, <3>1, <3>2
    <3>3. CASE buf # <<>> BY <1>1, <1>3, <3>1, <3>3
    <3> QED BY <3>2, <3>3
  <2>2. CASE ~pack_layer /\ buf = <<>> /\ FeedFirst(c)
    BY <1>11, <2>2 DEF FeedFirst
  <2>3. CASE ~pack_layer /\ buf # <<>> /\ FeedNext(c)
    BY <1>3, <2>3 DEF FeedNext
  <2> QED BY <2>1, <2>2, <2>3 DEF Feed
<1>13. ASSUME ~pack_layer PROVE cmd_byte' = <<sent[n].cmd, FALSE>>
  <2>1. CASE buf = <<>> /\ FeedFirst(c)
    <3>1. c[1] = <<n, 1>> BY <1>3, <1>6, <2>1
    <3>2. cmd_byte' = <<sent[n].cmd, 1 = MARK>> BY <2>1, <3>1 DEF FeedFirst, FirstByte
    <3>3. (1 = MARK) = FALSE OBVIOUS
    <3> QED BY <3>2, <3>3
  <2>2. CASE buf # <<>> /\ FeedNext(c) BY <1>3, <1>13, <2>2 DEF FeedNext
  <2> QED BY <1>13, <2>1, <2>2 DEF Feed
<1> QED BY <1>8, <1>10, <1>12, <1>13

\* The message is complete with its last chunk, and not before.
LEMMA TurnComplete ==
  ASSUME NEW c, NEW n, NEW o, NEW len \in Nat, len >= 4, Sized(c, o, len),
         Len(c) \in Nat, Joined(buf', buf, c, n, o, len), expected' = len
  PROVE  /\ Complete <=> o + Room(o) >= len
         /\ ~Complete => Len(buf') = o + Room(o) /\ Len(buf') < len
<1>1. Len(buf') = o + Len(c) - Marks(o) BY DEF Joined
<1>2. /\ o \in Nat /\ Marks(o) \in Nat /\ Room(o) \in Nat
      /\ Marks(o) + Room(o) = ChunkSize
      /\ o + Room(o) < len => Len(c) = ChunkSize
      /\ o + Room(o) >= len => o + Len(c) - Marks(o) >= len
  BY DEF Sized
<1>3. Complete <=> o + Len(c) - Marks(o) >= len BY <1>1 DEF Complete
<1>4. o + Room(o) < len => o + Len(c) - Marks(o) = o + Room(o) BY <1>2
<1>5. CASE o + Room(o) < len BY <1>1, <1>2, <1>3, <1>4, <1>5
<1>6. CASE o + Room(o) >= len BY <1>2, <1>3, <1>6
<1> QED BY <1>2, <1>5, <1>6

\* A complete message is parsed as the one it is.
LEMMA TurnParses ==
  ASSUME NEW n \in 1 .. Len(sent), W(n) \in Nat, W(n) >= 4, sent' = sent,
         pack_layer' = pack_layer, expected' = W(n), Complete, Parse,
         Len(buf') \in Nat,
         \A i \in 1 .. Len(buf') : buf'[i] = <<n, IF i <= W(n) THEN i ELSE 0>>
  PROVE  result' = "MESSAGE" /\ got' = n
<1>1. Len(buf') >= W(n) BY DEF Complete
<1> DEFINE S == {n} \X Nat
           whole == [i \in 1 .. W(n) |-> <<n, i>>]
<1>2. \A i \in 1 .. W(n) : buf'[i] = <<n, i>>
  <2> SUFFICES ASSUME NEW i \in 1 .. W(n) PROVE buf'[i] = <<n, i>> OBVIOUS
  <2>1. i \in 1 .. Len(buf') /\ i <= W(n) BY <1>1
  <2> QED BY <2>1
<1>3. /\ Extent \in Seq(S) /\ Len(Extent) = W(n)
      /\ \A i \in 1 .. W(n) : Extent[i] = buf'[i]
  <2>1. \A i \in 1 .. W(n) : buf'[i] \in S
    <3> SUFFICES ASSUME NEW i \in 1 .. W(n) PROVE buf'[i] \in S OBVIOUS
    <3>1. buf'[i] = <<n, i>> /\ i \in Nat BY <1>2
    <3> QED BY <3>1
  <2>2. /\ SubSeq(buf', 1, W(n)) \in Seq(S)
        /\ Len(SubSeq(buf', 1, W(n))) = IF 1 <= W(n) THEN W(n) - 1 + 1 ELSE 0
        /\ \A i \in 1 .. W(n) - 1 + 1 : SubSeq(buf', 1, W(n))[i] = buf'[1 + i - 1]
    BY <2>1, SubSeqProperties
  <2> QED BY <2>2 DEF Extent
<1>4. whole \in Seq(S) /\ DOMAIN whole = 1 .. W(n)
  <2>1. whole \in [1 .. W(n) -> S] OBVIOUS
  <2> QED BY <2>1, IntervalSeq
<1>5. Len(whole) = W(n) BY <1>4, IntervalLen
<1>6. \A i \in 1 .. W(n) : whole[i] = <<n, i>> OBVIOUS
<1> HIDE DEF whole, S
<1>7. \A i \in 1 .. Len(Extent) : Extent[i] = whole[i] BY <1>2, <1>3, <1>6
<1>8. Extent = whole BY <1>3, <1>4, <1>5, <1>7, SeqEqual
<1>9. buf'[1][1] = n
  <2>1. buf'[1] = <<n, 1>> BY <1>2
  <2> QED BY <2>1
<1>10. Whole(buf'[1][1]) BY <1>8, <1>9 DEF Whole, whole, W
<1> QED BY <1>9, <1>10 DEF Parse

\* A chunk that is refused would have exceeded the buffer.
LEMMA TurnRefuses ==
  ASSUME Inductive, InTurn, ~given_up, reading, NEW c \in Seq(SentBytes), Refuses(c),
         NEW n \in 1 .. Len(sent), NEW o, Place(1) = <<n, o>>, Placed(c, n, o, W(n))
  PROVE  Covered(ChunkCount(W(n))) > RxBufSize
<1> USE FramingAssumption
<1>1. W(n) \in Nat /\ W(n) >= 4 BY SentWireLen
<1>2. Len(c) \in Nat /\ Len(buf) \in Nat /\ buf \in Seq(SentBytes)
  BY LenProperties DEF Inductive, OnlySent
<1>3. /\ Len(buf) = o /\ (buf = <<>> <=> o = 0)
      /\ buf # <<>> => pack_layer \/ cmd_byte = <<sent[n].cmd, FALSE>>
  <2>1. Lacks(n, o) BY TurnPlace
  <2> QED BY <2>1 DEF Lacks
<1>4. Sized(c, o, W(n)) /\ Marked(c, n, o) BY <1>1, <1>2, PlacedBytes
<1>5. /\ Marks(o) \in {0, 1} /\ o \in Nat /\ Room(o) \in Nat
      /\ Marks(o) + Room(o) = ChunkSize /\ Len(c) <= ChunkSize
      /\ Len(c) - Marks(o) >= 1 /\ (o = 0 => Len(c) >= 4)
  BY <1>4 DEF Sized
<1>6. /\ Marks(o) = 0 <=> o = 0 \/ pack_layer
      /\ Marks(o) = 1 => c[1] = <<n, MARK>>
  BY <1>4 DEF Marked
<1>7. o + Room(o) > RxBufSize
  <2>1. CASE pack_layer
    <3>1. Len(buf) + Len(c) > RxBufSize BY <1>2, <2>1 DEF Refuses, Fits
    <3> QED BY <1>2, <1>3, <1>5, <1>6, <2>1, <3>1
  <2>2. CASE ~pack_layer /\ buf = <<>>
    <3>1. Len(c) < 3 \/ ~(Len(buf) + Len(c) <= RxBufSize) BY <2>2 DEF Refuses, Fits
    <3> QED BY <1>2, <1>3, <1>5, <2>2, <3>1
  <2>3. CASE ~pack_layer /\ buf # <<>>
    <3>1. Marks(o) = 1 /\ c[1] = <<n, MARK>> /\ Len(c) >= 1
      BY <1>2, <1>3, <1>5, <1>6, <2>3
    <3>2. cmd_byte = <<sent[n].cmd, FALSE>> BY <1>3, <2>3
    <3>3. c[1][1] = n /\ c[1][2] = MARK BY <3>1
    <3>4. Continues(c) BY <3>1, <3>2, <3>3 DEF Continues
    <3>5. ~(Len(buf) + (Len(c) - 1) <= RxBufSize) BY <2>3, <3>4 DEF Refuses, Fits
    <3> QED BY <1>2, <1>3, <1>5, <3>1, <3>5
  <2> QED BY <2>1, <2>2, <2>3
<1>8. PICK k \in 1 .. ChunkCount(W(n)) : o = Before(k) BY DEF Placed
<1>9. o + Room(o) = Covered(k) /\ Covered(k) \in Nat BY <1>1, <1>8, BeforeRange
<1>10. ChunkCount(W(n)) \in Nat \ {0} BY <1>1, ChunkCountCovers
<1>11. /\ Covered(k) <= Covered(ChunkCount(W(n)))
       /\ Covered(ChunkCount(W(n))) \in Nat
  BY <1>10, CoveredGrows
<1> QED BY <1>7, <1>9, <1>11

----
\* The pipe and the buffer stay joined.

\* The chunk at the head of the pipe, with its place; what a receive that takes it
\* leaves at the head.
LEMMA HeadPlaced ==
  ASSUME Inductive, Joining, ChunkArrives
  PROVE  \E n \in 1 .. Len(sent), o \in Nat :
           /\ Head(pipe) \in Seq(SentBytes)
           /\ Place(1) = <<n, o>> /\ Placed(Head(pipe), n, o, W(n))
           /\ W(n) \in Nat /\ W(n) >= 4
           /\ Sized(Head(pipe), o, W(n))
           /\ Consecutive'
           /\ Place(1)' = IF o + Room(o) < W(n) THEN <<n, o + Room(o)>> ELSE <<n + 1, 0>>
<1>1. pipe # <<>> /\ pipe' = Tail(pipe) /\ sent' = sent /\ pack_layer' = pack_layer
  BY DEF ChunkArrives
<1>2. PICK c, n, o : c = Head(pipe) /\ n = Num(c) /\ o = Off(c) OBVIOUS
<1>3. /\ Consecutive' /\ Place(1)' = After(c) /\ Place(1) = <<n, o>>
      /\ n \in 1 .. Len(sent) /\ Placed(c, n, o, W(n))
  BY <1>1, <1>2, TakeKeepsPlaces DEF Joining
<1>4. c \in Seq(SentBytes) /\ Len(c) \in Nat
  BY <1>1, <1>2, HeadTailProperties, LenProperties DEF Inductive, OnlySent
<1>5. W(n) \in Nat /\ W(n) >= 4 BY <1>3, SentWireLen
<1>6. Sized(c, o, W(n)) BY <1>3, <1>4, <1>5, PlacedBytes
<1>7. o \in Nat BY <1>6 DEF Sized
<1>8. Place(1)' = IF o + Room(o) < W(n) THEN <<n, o + Room(o)>> ELSE <<n + 1, 0>>
  BY <1>2, <1>3 DEF After
<1> QED BY <1>2, <1>3, <1>4, <1>5, <1>6, <1>7, <1>8

\* A receive in step either goes on, or has received the next message whole with its
\* last chunk, or was refused a chunk that exceeds the buffer.
LEMMA TurnArrives ==
  ASSUME Inductive, Joining, ChunkArrives, ~given_up
  PROVE  \/ /\ reading' /\ UNCHANGED <<given_up, got>>
            /\ InTurn'
         \/ /\ ~reading' /\ result' = "MESSAGE" /\ got' = got + 1
            /\ Place(1)' = <<got' + 1, 0>>
            /\ given_up' => Inside
         \/ /\ ~reading' /\ result' = "ERROR" /\ given_up'
            /\ Covered(ChunkCount(WireLen(sent[got + 1].payload))) > RxBufSize
<1>1. PICK n \in 1 .. Len(sent), o \in Nat :
        /\ Head(pipe) \in Seq(SentBytes)
        /\ Place(1) = <<n, o>> /\ Placed(Head(pipe), n, o, W(n))
        /\ W(n) \in Nat /\ W(n) >= 4
        /\ Sized(Head(pipe), o, W(n))
        /\ Place(1)' = IF o + Room(o) < W(n) THEN <<n, o + Room(o)>> ELSE <<n + 1, 0>>
  BY HeadPlaced
<1>2. PICK c : c = Head(pipe) OBVIOUS
<1>3. InTurn /\ reading /\ sent' = sent /\ pack_layer' = pack_layer
  BY DEF Joining, ChunkArrives
<1>4. n = got + 1
  <2>1. Lacks(n, o) BY <1>1, <1>3, TurnPlace
  <2> QED BY <2>1 DEF Lacks
<1>5. Len(c) \in Nat BY <1>1, <1>2, LenProperties
<1>6. CASE Feed(c) /\ reading' = ~Complete
             /\ IF Complete THEN /\ Parse
                                 /\ given_up' = (given_up \/ Inside)
                                 /\ UNCHANGED timeout
                ELSE timeout' = "FINITE" /\ UNCHANGED <<result, got, given_up>>
  <2>1. /\ Joined(buf', buf, c, n, o, W(n))
        /\ \A i \in 1 .. Len(buf') : buf'[i] = <<n, IF i <= W(n) THEN i ELSE 0>>
        /\ expected' = W(n)
        /\ pack_layer \/ cmd_byte' = <<sent[n].cmd, FALSE>>
    BY <1>1, <1>2, <1>3, <1>6, TurnFeed
  <2>2. Len(buf') \in Nat BY <2>1 DEF Joined
  <2>3. /\ Complete <=> o + Room(o) >= W(n)
        /\ ~Complete => Len(buf') = o + Room(o) /\ Len(buf') < W(n)
    BY <1>1, <1>2, <1>5, <2>1, TurnComplete
  <2>4. Room(o) \in Nat /\ Room(o) >= 3 BY <1>1 DEF Sized
  <2>5. CASE Complete
    <3>1. result' = "MESSAGE" /\ got' = n
      BY <1>1, <1>3, <1>6, <2>1, <2>2, <2>5, TurnParses
    <3>2. Place(1)' = <<n + 1, 0>> BY <1>1, <2>3, <2>4, <2>5
    <3>3. ~reading' /\ (given_up' = (given_up \/ Inside)) BY <1>6, <2>5
    <3>4. given_up' => Inside BY <3>3
    <3> QED BY <1>4, <3>1, <3>2, <3>3, <3>4
  <2>6. CASE ~Complete
    <3>1. reading' /\ UNCHANGED <<given_up, got>> BY <1>6, <2>6
    <3>2. Len(buf') = o + Room(o) /\ Len(buf') < W(n) BY <2>3, <2>6
    <3>3. Place(1)' = <<n, Len(buf')>> BY <1>1, <2>4, <3>2
    <3>4. ASSUME NEW i \in 1 .. Len(buf') PROVE buf'[i] = <<n, i>>
      <4>1. i <= W(n) BY <1>1, <2>2, <3>2
      <4> QED BY <2>1, <4>1
    <3>5. W(n)' = W(n) BY <1>3 DEF W, WireLen, MessageLen
    <3>6. n = got' + 1 /\ n <= Len(sent') /\ Len(buf') < W(n)' /\ expected' = W(n)'
      BY <1>3, <1>4, <2>1, <3>1, <3>2, <3>5
    <3>7. pack_layer' \/ cmd_byte' = <<sent'[n].cmd, FALSE>> BY <1>3, <2>1, Zenon
    <3>8. buf' # <<>> BY <1>1, <2>4, <3>2
    <3>9. W(got + 1)' = W(n)' BY <3>6 DEF W
    <3>10. InTurn' BY <3>1, <3>3, <3>4, <3>6, <3>7, <3>8, <3>9 DEF InTurn
    <3> QED BY <3>1, <3>10
  <2> QED BY <2>5, <2>6
<1>7. CASE Refuses(c) /\ reading' = FALSE /\ result' = "ERROR" /\ given_up' = TRUE
  <2>1. Covered(ChunkCount(W(n))) > RxBufSize BY <1>1, <1>2, <1>3, <1>7, TurnRefuses
  <2> QED BY <1>4, <1>7, <2>1 DEF W
<1> QED BY <1>2, <1>6, <1>7 DEF ChunkArrives

LEMMA ArrivesJoining ==
  ASSUME Inductive, Inductive', Joining, ChunkArrives
  PROVE  Joining'
<1>1. PICK n \in 1 .. Len(sent), o \in Nat :
        /\ Head(pipe) \in Seq(SentBytes)
        /\ Place(1) = <<n, o>> /\ Placed(Head(pipe), n, o, W(n))
        /\ W(n) \in Nat /\ W(n) >= 4
        /\ Consecutive'
        /\ Place(1)' = IF o + Room(o) < W(n) THEN <<n, o + Room(o)>> ELSE <<n + 1, 0>>
  BY HeadPlaced
<1>2. PICK c : c = Head(pipe) OBVIOUS
<1>3. BareGoesOn /\ MarkedIsAlone /\ BareNeverJoins /\ reading /\ pack_layer' = pack_layer
  BY DEF Joining, ChunkArrives
<1>4. BareGoesOn' /\ MarkedIsAlone' /\ BareNeverJoins'
  <2>1. CASE pack_layer
    BY <1>3, <2>1 DEF BareGoesOn, MarkedIsAlone, BareNeverJoins
  <2>2. CASE ~pack_layer /\ Feed(c)
    <3>1. cmd_byte'[2] => Len(buf') <= ChunkSize
      BY <1>1, <1>2, <1>3, <2>2, BareFeed
    <3>2. ASSUME ~cmd_byte'[2]
          PROVE  /\ buf'[1][1] = n
                 /\ \A i \in 1 .. Len(buf') : buf'[i] \in {<<n, i>>, <<n, 0>>}
                 /\ o + Room(o) < W(n) => Len(buf') = o + Room(o)
      BY <1>1, <1>2, <1>3, <2>2, <3>2, BareFeed
    <3>3. MarkedIsAlone' BY <3>1 DEF MarkedIsAlone
    <3>4. BareGoesOn'
      <4> SUFFICES ASSUME ~cmd_byte'[2]
                   PROVE  /\ \A i \in 1 .. Len(buf') :
                               buf'[i] \in {<<buf'[1][1], i>>, <<buf'[1][1], 0>>}
                          /\ Place(1)' \in {<<buf'[1][1], Len(buf')>>, <<buf'[1][1] + 1, 0>>}
        BY DEF BareGoesOn
      <4> QED BY <1>1, <3>2
    <3>5. BareNeverJoins'
      <4> SUFFICES ASSUME Len(buf') > ChunkSize
                   PROVE  \A i \in 1 .. Len(buf') :
                            buf'[i] \in {<<buf'[1][1], i>>, <<buf'[1][1], 0>>}
        BY DEF BareNeverJoins
      <4>1. Len(buf') \in Nat BY LenProperties DEF Inductive, TypeOK
      <4>2. ~cmd_byte'[2] BY <3>1, <4>1, FramingAssumption
      <4> QED BY <3>2, <4>2
    <3> QED BY <3>3, <3>4, <3>5
  <2>3. CASE ~reading' /\ UNCHANGED rxVars
    BY <1>3, <2>3 DEF rxVars, BareGoesOn, MarkedIsAlone, BareNeverJoins
  <2> QED BY <1>2, <2>1, <2>2, <2>3 DEF ChunkArrives
<1>5. InTurn'
  <2>1. CASE given_up
    <3>1. given_up' BY <2>1 DEF ChunkArrives
    <3> QED BY <3>1 DEF InTurn
  <2>2. CASE ~given_up
    <3>1. \/ InTurn'
          \/ ~reading' /\ Place(1)' = <<got' + 1, 0>>
          \/ given_up'
      BY <2>2, TurnArrives
    <3> QED BY <3>1 DEF InTurn
  <2> QED BY <2>1, <2>2
<1> QED BY <1>1, <1>4, <1>5 DEF Joining

LEMMA SendsJoining ==
  ASSUME Inductive, Inductive', Joining, SensorSends
  PROVE  Joining'
<1>1. /\ Consecutive' /\ Place(1)' = Place(1) /\ Len(sent') = Len(sent) + 1
      /\ \A n \in 1 .. Len(sent) : W(n)' = W(n) /\ sent'[n] = sent[n]
  BY SendKeepsPlaces DEF Joining
<1>2. UNCHANGED <<pack_layer, reading, buf, expected, cmd_byte, got, given_up>>
  BY DEF SensorSends, rxVars
<1>3. BareGoesOn' /\ MarkedIsAlone' /\ BareNeverJoins'
  BY <1>1, <1>2 DEF Joining, BareGoesOn, MarkedIsAlone, BareNeverJoins
<1>4. InTurn'
  <2>1. CASE ~given_up /\ reading /\ buf # <<>>
    <3>1. PICK n : n = got + 1 OBVIOUS
    <3>2. /\ n <= Len(sent) /\ Len(buf) < W(n) /\ expected = W(n)
          /\ \A i \in 1 .. Len(buf) : buf[i] = <<n, i>>
          /\ Place(1) = <<n, Len(buf)>>
          /\ pack_layer \/ cmd_byte = <<sent[n].cmd, FALSE>>
      BY <2>1, <3>1 DEF Joining, InTurn
    <3>3. n \in 1 .. Len(sent) /\ Len(sent) \in Nat
      BY <3>1, <3>2 DEF Inductive, TypeOK
    <3>4. W(got + 1)' = W(n)' /\ sent'[got' + 1] = sent'[n] BY <1>2, <3>1 DEF W
    <3>5. W(n)' = W(n) /\ sent'[n] = sent[n] /\ n <= Len(sent') BY <1>1, <3>3
    <3> QED BY <1>1, <1>2, <2>1, <3>1, <3>2, <3>4, <3>5 DEF InTurn
  <2>2. CASE given_up \/ ~reading \/ buf = <<>>
    BY <1>1, <1>2, <2>2 DEF Joining, InTurn
  <2> QED BY <2>1, <2>2
<1> QED BY <1>1, <1>3, <1>4 DEF Joining

\* Steps that leave the pipe alone.
LEMMA StillJoining ==
  ASSUME Inductive, Joining, RecvStart \/ EmptyRead \/ GiveUp \/ UNCHANGED vars
  PROVE  Joining'
<1>1. UNCHANGED <<pipe, sent, pack_layer, got>>
  BY DEF RecvStart, EmptyRead, GiveUp, vars
<1>2. Consecutive' /\ Place(1)' = Place(1) BY <1>1, StillKeepsPlaces DEF Joining
<1>3. CASE RecvStart
  <2>1. ~reading /\ reading' /\ buf' = <<>> /\ expected' = 0 /\ given_up' = given_up
        /\ cmd_byte' = <<"NONE", FALSE>>
    BY <1>3 DEF RecvStart
  <2>2. Len(buf') = 0 BY <2>1
  <2>3. BareGoesOn' /\ MarkedIsAlone' /\ BareNeverJoins'
    BY <2>1, <2>2, FramingAssumption DEF BareGoesOn, MarkedIsAlone, BareNeverJoins
  <2>4. InTurn' BY <1>1, <1>2, <2>1 DEF Joining, InTurn
  <2> QED BY <1>2, <2>3, <2>4 DEF Joining
<1>4. CASE EmptyRead \/ UNCHANGED vars
  <2>1. UNCHANGED <<reading, buf, expected, cmd_byte, given_up>>
    BY <1>4 DEF EmptyRead, vars, rxVars
  <2>2. BareGoesOn' /\ MarkedIsAlone' /\ BareNeverJoins'
    BY <1>1, <1>2, <2>1 DEF Joining, BareGoesOn, MarkedIsAlone, BareNeverJoins
  <2>3. \A n : W(n)' = W(n) BY <1>1 DEF W, WireLen, MessageLen
  <2>4. W(got + 1)' = W(got + 1) BY <1>1 DEF W, WireLen, MessageLen
  <2>5. InTurn' BY <1>1, <1>2, <2>1, <2>4 DEF Joining, InTurn
  <2> QED BY <1>2, <2>2, <2>5 DEF Joining
<1>5. CASE GiveUp
  <2>1. /\ reading /\ ~reading' /\ UNCHANGED <<buf, expected, cmd_byte>>
        /\ given_up' = (given_up \/ buf # <<>>)
    BY <1>5 DEF GiveUp, rxVars
  <2>2. BareGoesOn' /\ MarkedIsAlone' /\ BareNeverJoins'
    BY <1>1, <2>1 DEF Joining, BareGoesOn, MarkedIsAlone, BareNeverJoins
  <2>3. InTurn'
    <3>1. ~given_up' => ~given_up /\ buf = <<>> BY <2>1
    <3> QED BY <1>1, <1>2, <2>1, <3>1 DEF Joining, InTurn
  <2> QED BY <1>2, <2>2, <2>3 DEF Joining
<1> QED BY <1>3, <1>4, <1>5

LEMMA InitJoining == Init => Joining
<1> SUFFICES ASSUME Init PROVE Joining OBVIOUS
<1>1. /\ pipe = <<>> /\ buf = <<>> /\ sent = <<>> /\ got = 0 /\ ~reading
      /\ cmd_byte = <<"NONE", FALSE>>
  BY DEF Init
<1>2. Len(pipe) = 0 /\ Len(sent) = 0 /\ Len(buf) = 0 BY <1>1
<1>3. Place(1) = <<1, 0>> BY <1>2 DEF Place
<1>4. Consecutive BY <1>2 DEF Consecutive
<1> QED
  BY <1>1, <1>2, <1>3, <1>4, FramingAssumption
     DEF Joining, BareGoesOn, MarkedIsAlone, BareNeverJoins, InTurn

LEMMA NextJoining == Inductive /\ Inductive' /\ Joining /\ [Next]_vars => Joining'
BY SendsJoining, ArrivesJoining, StillJoining DEF Next

\* Pipe and buffer are joined in every state.
THEOREM FramingInvariant == Spec => [](Inductive /\ Joining)
<1>1. Init => Inductive /\ Joining BY InitInductive, InitJoining
<1>2. Inductive /\ Joining /\ [Next]_vars => (Inductive /\ Joining)'
  BY NextInductive, NextJoining
<1> QED BY <1>1, <1>2, PTL DEF Spec

\* What a bare receive joins from several chunks is a gap-free beginning of one
\* message, wherever earlier receives were given up.
THEOREM FramingNeverJoins == Spec => []BareNeverJoins
<1>1. Joining => BareNeverJoins BY DEF Joining
<1> QED BY <1>1, FramingInvariant, PTL

\* A chunk at offset 0 is the first of its message.
LEMMA FirstChunk ==
  Inductive /\ Consecutive /\ pipe # <<>> /\ Place(1)[2] = 0 => Head(pipe)[1][2] = 1
<1> SUFFICES ASSUME Inductive, Consecutive, pipe # <<>>, Place(1)[2] = 0
             PROVE  Head(pipe)[1][2] = 1
  OBVIOUS
<1> USE FramingAssumption
<1>1. pipe \in Seq(Seq(SentBytes)) BY DEF Inductive, OnlySent
<1>2. Len(pipe) \in Nat \ {0} /\ Head(pipe) = pipe[1] /\ pipe[1] \in Seq(SentBytes)
  BY <1>1, EmptySeq, ElementOfSeq
<1>3. PICK c, n : c = pipe[1] /\ n = Num(c) OBVIOUS
<1>4. 1 \in 1 .. Len(pipe) /\ ~(1 > Len(pipe)) BY <1>2
<1>5. Off(c) = 0 BY <1>3, <1>4 DEF Place
<1>6. n \in 1 .. Len(sent) /\ Placed(c, n, 0, W(n)) BY <1>3, <1>4, <1>5 DEF Consecutive
<1>7. W(n) \in Nat /\ W(n) >= 4 BY <1>6, SentWireLen
<1>8. Len(c) \in Nat BY <1>2, <1>3, LenProperties
<1>9. Sized(c, 0, W(n)) /\ Marked(c, n, 0) BY <1>2, <1>3, <1>6, <1>7, <1>8, PlacedBytes
<1>10. c[1] = <<n, 1>>
  <2>1. Marks(0) = 0 BY <1>9 DEF Marked
  <2>2. c[1] = <<n, 0 + 1>> BY <1>9, <2>1 DEF Marked
  <2> QED BY <2>2
<1> QED BY <1>2, <1>3, <1>10

\* What is next in the pipe after a message is the first chunk of another.
LEMMA FirstIsNotInside ==
  ASSUME Inductive', Consecutive', NEW n, Place(1)' = <<n, 0>>
  PROVE  ~Inside
<1>1. (Inductive /\ Consecutive /\ pipe # <<>> /\ Place(1)[2] = 0
         => Head(pipe)[1][2] = 1)'
  BY FirstChunk, PTL
<1>2. Place(1)'[2] = 0 OBVIOUS
<1> QED BY <1>1, <1>2 DEF Inside

\* What a step that takes a chunk and ends a receive has received.
LEMMA NextInTurn ==
  ASSUME Inductive, Inductive', Joining, Joining', [Next]_vars,
         ~given_up, reading, ~reading', pipe' # pipe
  PROVE  \/ result' = "MESSAGE" /\ got' = got + 1 /\ ~given_up'
         \/ /\ result' = "ERROR"
            /\ Covered(ChunkCount(WireLen(sent[got + 1].payload))) > RxBufSize
<1>1. ChunkArrives BY DEF Next, SensorSends, RecvStart, EmptyRead, GiveUp, vars
<1>2. ASSUME Place(1)' = <<got' + 1, 0>> PROVE ~Inside
  BY <1>2, FirstIsNotInside DEF Joining
<1> QED BY <1>1, <1>2, TurnArrives

\* Until a receive is given up inside a message, each one that ends with a chunk has
\* received the next message, whole and with its last chunk, or was refused.
THEOREM FramingInOrder == Spec => InOrder
<1>1. /\ Inductive /\ Joining /\ (Inductive /\ Joining)' /\ [Next]_vars
      => [~given_up /\ reading /\ ~reading' /\ pipe' # pipe
            => \/ result' = "MESSAGE" /\ got' = got + 1 /\ ~given_up'
               \/ result' = "ERROR"]_vars
  BY NextInTurn
<1> QED BY <1>1, FramingInvariant, PTL DEF Spec, InOrder

\* In step with the sensor, only a message that exceeds the buffer is refused.
THEOREM FramingRefusesOversize == Spec => OnlyOversizeRefused
<1>1. /\ Inductive /\ Joining /\ (Inductive /\ Joining)' /\ [Next]_vars
      => [~given_up /\ reading /\ ~reading' /\ pipe' # pipe /\ result' = "ERROR"
            => Covered(ChunkCount(WireLen(sent[got + 1].payload))) > RxBufSize]_vars
  BY NextInTurn
<1> QED BY <1>1, FramingInvariant, PTL DEF Spec, OnlyOversizeRefused
=============================================================================
