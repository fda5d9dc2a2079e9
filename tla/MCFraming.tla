----------------------------- MODULE MCFraming -----------------------------
(***************************************************************************)
(* The instance of Framing that TLC checks, and what the read callback     *)
(* says of its timeouts and does not keep.                                 *)
(***************************************************************************)
EXTENDS Framing

\* Chunks of 4 bytes and a buffer of 12: lengths that fill a chunk, exceed it by
\* one, fill the buffer and overflow it, in both framings.
MCPayloads == {0, 3, 4, 8}

\* goodix_rx_cb: "For finger-wait (timeout=0/infinite), once we start getting
\* data the remaining chunks should arrive quickly, so use DATA_TIMEOUT."
ContinuationTimed == reading /\ buf # <<>> => timeout = "FINITE"
=============================================================================
