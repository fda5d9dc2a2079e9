------------------------------ MODULE Framing ------------------------------
(***************************************************************************)
(* Messages in USB chunks: how goodix_send_message and goodix_submit_padded *)
(* split them, how the reassembly buffer of goodix53x5-proto.c joins them   *)
(* again under the read callback of goodix53x5-transport.c, and what is     *)
(* left in the pipe when a receive is given up.                             *)
(*                                                                          *)
(* A byte of the wire is a pair <<n, i>>: the i-th byte of the n-th message *)
(* the sensor sent; i is 0 for padding and MARK for a continuation marker.  *)
(* The size fields are decoded where the buffer holds the header of a       *)
(* message, and are any value where it holds something else.  A checksum    *)
(* passes on a whole message; on anything else it may or may not.  The      *)
(* sensor is taken to frame as the driver does.                             *)
(***************************************************************************)
EXTENDS Integers, Sequences

CONSTANTS
  ChunkSize,   \* GOODIX_USB_CHUNK_SIZE
  RxBufSize,   \* GOODIX_RX_BUF_SIZE
  MaxField,    \* largest value of a size field
  Payloads,    \* payload lengths the sensor sends
  Cmds,        \* command bytes of its messages
  MaxSent,     \* bound on the messages sent
  MARK         \* the byte position that stands for a continuation marker

ASSUME FramingAssumption ==
  /\ ChunkSize \in Nat /\ ChunkSize >= 4
  /\ RxBufSize \in Nat /\ RxBufSize >= ChunkSize
  /\ MaxField \in Nat /\ MaxSent \in Nat
  /\ Payloads \subseteq 0 .. MaxField - 4
  /\ MARK \notin Nat

VARIABLES
  pack_layer,   \* the variant's framing: packs (550c) or bare messages
  sent,         \* the messages sent: [payload, cmd]
  pipe,         \* chunks in the IN endpoint
  reading,      \* a receive is outstanding
  buf,          \* rx.buf up to rx.len
  expected,     \* rx.expected
  cmd_byte,     \* rx.cmd_byte: <<command, is it a continuation marker>>
  rx_timeout,   \* "FINITE", or "NONE" for a wait for the finger
  timeout,      \* timeout of the outstanding transfer
  result,       \* of the last receive: "NONE", "MESSAGE", "GARBLED", "ERROR"
  got,          \* history: the message received last, by its number
  given_up      \* history: some receive ended inside a message

rxVars == <<buf, expected, cmd_byte>>
vars == <<pack_layer, sent, pipe, reading, rxVars, rx_timeout, timeout, result, got,
          given_up>>

----
\* Sending.

Smaller(a, b) == IF a <= b THEN a ELSE b

\* goodix_proto_build_message: header of 3, payload, checksum; and
\* goodix_proto_wrap_pack: 4 bytes before it.
MessageLen(payload) == payload + 4
WireLen(payload) == MessageLen(payload) + IF pack_layer THEN 4 ELSE 0

\* The size field, and the length the receiver computes from it; a bug to tell
\* apart is one that takes every header for a bare one.
SizeField(payload) == IF pack_layer THEN MessageLen(payload) ELSE payload + 1
MutantFieldToLen(field) == field + 3
FieldToLen(field) == field + IF pack_layer THEN 4 ELSE 3

\* A bug to tell apart: a chunk too few when the rest just does not fit.
MutantChunkCount(len) ==
  IF len <= ChunkSize THEN 1 ELSE 1 + (len - ChunkSize) \div (ChunkSize - 1)
\* Chunks of a bare message: continuations carry a marker.
BareChunkCount(len) ==
  IF len <= ChunkSize
    THEN 1 ELSE 1 + (len - ChunkSize + ChunkSize - 2) \div (ChunkSize - 1)

ChunkCount(len) ==
  IF pack_layer THEN (len + ChunkSize - 1) \div ChunkSize ELSE BareChunkCount(len)

\* Bytes of a message in chunks 1 .. k of it.
Covered(k) == IF pack_layer THEN k * ChunkSize ELSE k * (ChunkSize - 1) + 1

\* Chunk k of message n with len bytes, padded to the chunk size or not.
Chunk(n, len, k, padded) ==
  LET before == IF k = 1 THEN 0 ELSE Covered(k - 1)
      marks  == IF k = 1 \/ pack_layer THEN 0 ELSE 1
      data   == Smaller(ChunkSize - marks, len - before)
  IN [j \in 1 .. (IF padded THEN ChunkSize ELSE marks + data) |->
        <<n, IF j <= marks THEN MARK
             ELSE IF j <= marks + data THEN before + j - marks ELSE 0>>]

\* goodix_send_message, by the sensor.  Only the last chunk can be short.
Frame(n, len, padded) ==
  [k \in 1 .. ChunkCount(len) |-> Chunk(n, len, k, padded \/ k < ChunkCount(len))]

SensorSends ==
  /\ Len(sent) < MaxSent
  /\ \E payload \in Payloads, cmd \in Cmds, padded \in BOOLEAN :
       /\ sent' = Append(sent, [payload |-> payload, cmd |-> cmd])
       /\ pipe' = pipe \o Frame(Len(sent) + 1, WireLen(payload), padded)
  /\ UNCHANGED <<pack_layer, reading, rxVars, rx_timeout, timeout, result, got,
                 given_up>>

----
\* Receiving.

\* goodix_recv_start with goodix_proto_rx_reset.
RecvStart ==
  /\ ~reading
  /\ reading' = TRUE
  /\ buf' = <<>> /\ expected' = 0 /\ cmd_byte' = <<"NONE", FALSE>>
  /\ rx_timeout' \in {"FINITE", "NONE"} /\ timeout' = rx_timeout'
  /\ result' = "NONE"
  /\ UNCHANGED <<pack_layer, sent, pipe, got, given_up>>

\* Lengths the receiver may compute from the size field of the header in b.
HeaderLens(b) ==
  LET n == b[1][1]
  IN IF \A i \in 1 .. 3 : b[i] = <<n, i>>
       THEN {FieldToLen(SizeField(sent[n].payload))}
       ELSE {FieldToLen(f) : f \in 0 .. MaxField}

\* A bug to tell apart: the limit forgets the bytes already there.
MutantFits(extra) == extra <= RxBufSize
\* The buffer's limit for extra bytes.
Fits(extra) == Len(buf) + extra <= RxBufSize

\* A bug to tell apart: the marker bit of a first chunk is masked.
MutantFirstByte(c) == <<sent[c[1][1]].cmd, FALSE>>
\* The first byte, as it is kept for the continuations.
FirstByte(c) == <<sent[c[1][1]].cmd, c[1][2] = MARK>>

\* The marker of a continuation chunk of the message being received.
Continues(c) == Len(c) >= 1 /\ c[1][2] = MARK /\ <<sent[c[1][1]].cmd, FALSE>> = cmd_byte

\* goodix_proto_rx_feed_chunk, for a chunk it accepts.
FeedPack(c) ==
  /\ Fits(Len(c))
  /\ buf' = buf \o c
  /\ expected' \in IF expected = 0 /\ Len(buf') >= 4 THEN HeaderLens(buf') ELSE {expected}
  /\ UNCHANGED cmd_byte

FeedFirst(c) ==
  /\ Len(c) >= 3 /\ Fits(Len(c))
  /\ buf' = c
  /\ expected' \in HeaderLens(c)
  /\ cmd_byte' = FirstByte(c)

FeedNext(c) ==
  /\ Continues(c) /\ Fits(Len(c) - 1)
  /\ buf' = buf \o Tail(c)
  /\ UNCHANGED <<expected, cmd_byte>>

Feed(c) ==
  \/ pack_layer /\ FeedPack(c)
  \/ ~pack_layer /\ buf = <<>> /\ FeedFirst(c)
  \/ ~pack_layer /\ buf # <<>> /\ FeedNext(c)

Refuses(c) ==
  IF pack_layer THEN ~Fits(Len(c))
  ELSE IF buf = <<>> THEN Len(c) < 3 \/ ~Fits(Len(c))
  ELSE ~Continues(c) \/ ~Fits(Len(c) - 1)

\* goodix_proto_rx_complete, after the chunk was fed.
Complete == expected' # 0 /\ Len(buf') >= expected'

\* The frame of the message, in the pack or bare: what goodix_proto_rx_parse
\* goes by.
Extent == SubSeq(buf', 1, expected')
\* The checksum is sure to pass on the bytes of one message and on nothing else.
Whole(n) == Extent = [i \in 1 .. WireLen(sent[n].payload) |-> <<n, i>>]

\* goodix_proto_rx_parse and goodix_proto_rx_pack.
Parse ==
  IF Whole(buf'[1][1])
    THEN result' = "MESSAGE" /\ got' = buf'[1][1]
    ELSE result' \in {"GARBLED", "ERROR"} /\ UNCHANGED got

\* Is the next chunk in the pipe one from inside a message?
Inside == pipe' # <<>> /\ Head(pipe')[1][2] # 1

\* goodix_rx_cb with data.
ChunkArrives ==
  /\ reading /\ pipe # <<>>
  /\ pipe' = Tail(pipe)
  /\ \/ /\ Feed(Head(pipe))
        /\ reading' = ~Complete
        /\ IF Complete
             THEN /\ Parse
                  /\ given_up' = (given_up \/ Inside)
                  /\ UNCHANGED timeout
             ELSE timeout' = "FINITE" /\ UNCHANGED <<result, got, given_up>>
     \/ /\ Refuses(Head(pipe))
        /\ reading' = FALSE /\ result' = "ERROR" /\ given_up' = TRUE
        /\ UNCHANGED <<rxVars, timeout, got>>
  /\ UNCHANGED <<pack_layer, sent, rx_timeout>>

\* goodix_rx_cb with a zero-length read: resubmitted.
EmptyRead ==
  /\ reading
  /\ timeout' = rx_timeout
  /\ UNCHANGED <<pack_layer, sent, pipe, reading, rxVars, rx_timeout, result, got,
                 given_up>>

\* A timeout, a transfer error or a cancellation ends the receive; what the
\* sensor sent stays in the pipe.
GiveUp ==
  /\ reading
  /\ reading' = FALSE /\ result' = "ERROR"
  /\ given_up' = (given_up \/ buf # <<>>)
  /\ UNCHANGED <<pack_layer, sent, pipe, rxVars, rx_timeout, timeout, got>>

----
Init ==
  /\ pack_layer \in BOOLEAN
  /\ sent = <<>> /\ pipe = <<>> /\ reading = FALSE
  /\ buf = <<>> /\ expected = 0 /\ cmd_byte = <<"NONE", FALSE>>
  /\ rx_timeout = "FINITE" /\ timeout = "FINITE"
  /\ result = "NONE" /\ got = 0 /\ given_up = FALSE

Next == SensorSends \/ RecvStart \/ ChunkArrives \/ EmptyRead \/ GiveUp

Spec == Init /\ [][Next]_vars

----
\* Type invariant, with the size of the reassembly buffer: no sequence of chunks,
\* whatever they hold, writes beyond it.
Bytes == (1 .. MaxSent) \X (Nat \cup {MARK})
TypeOK ==
  /\ pack_layer \in BOOLEAN /\ reading \in BOOLEAN /\ given_up \in BOOLEAN
  /\ sent \in Seq([payload : Payloads, cmd : Cmds]) /\ Len(sent) <= MaxSent
  /\ pipe \in Seq(Seq(Bytes))
  /\ buf \in Seq(Bytes) /\ Len(buf) <= RxBufSize
  /\ expected \in 0 .. MaxField + 4
  /\ cmd_byte \in (Cmds \cup {"NONE"}) \X BOOLEAN
  /\ rx_timeout \in {"FINITE", "NONE"} /\ timeout \in {"FINITE", "NONE"}
  /\ result \in {"NONE", "MESSAGE", "GARBLED", "ERROR"}
  /\ got \in 0 .. MaxSent

\* Until a receive is given up inside a message the framing holds across any
\* number of messages: each receive ends with the last chunk of the next message,
\* and yields it whole, whatever its length, padded or not.
InOrder ==
  [][~given_up /\ reading /\ ~reading' /\ pipe' # pipe
       => \/ result' = "MESSAGE" /\ got' = got + 1 /\ ~given_up'
          \/ result' = "ERROR"]_vars

\* In step with the sensor, a chunk is refused only of a message whose padded
\* chunks exceed the buffer.
OnlyOversizeRefused ==
  [][~given_up /\ reading /\ ~reading' /\ pipe' # pipe /\ result' = "ERROR"
       => Covered(ChunkCount(WireLen(sent[got + 1].payload))) > RxBufSize]_vars

\* Out of step, the markers of bare framing protect a receive: what is joined
\* from several chunks is always a gap-free beginning of one message, so that the
\* remains of an abandoned message never become part of another.
BareNeverJoins ==
  ~pack_layer /\ Len(buf) > ChunkSize =>
    \A i \in 1 .. Len(buf) : buf[i] \in {<<buf[1][1], i>>, <<buf[1][1], 0>>}
=============================================================================
