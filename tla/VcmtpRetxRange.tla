--------------------------- MODULE VcmtpRetxRange ---------------------------
(***************************************************************************)
(* The uint32_t arithmetic with which retransmit() (vcmtpSendv3.cpp)       *)
(* turns a RETX_REQ (seqnum, payloadlen) into the range of product bytes   *)
(* its loop sends: the end `out`, the start rounded down to a data block,  *)
(* and the byte count `nbytes = out - start` the loop runs down.  Every    *)
(* value is kept modulo 2^Width, Width being the 32 of a uint32_t or a     *)
(* scaled-down width.  VcmtpFraming builds the frames on top of it.        *)
(***************************************************************************)
EXTENDS Integers

CONSTANTS
    DataLen,     \* VCMTP_DATA_LEN, the payload of a full data frame
    Width        \* bits of a uint32_t, scaled down

ASSUME WordAssumption ==
    /\ Width \in Nat \ {0}
    /\ DataLen \in 1 .. 2^Width - 1

Word == 2^Width
U32 == 0 .. Word - 1

(* The MIN macro of vcmtpSendv3.cpp. *)
MIN(a, b) == IF a <= b THEN a ELSE b

(* `uint32_t out = MIN(retxMeta->prodLength, start + payloadlen)`, with    *)
(* start still the request's seqnum: the sum wraps at 2^32.                *)
RetxOut(seqnum, payloadlen, prodLength) ==
    MIN(prodLength, (seqnum + payloadlen) % Word)

(* `start = (start/VCMTP_DATA_LEN) * VCMTP_DATA_LEN`: the first byte of    *)
(* the data block holding seqnum.                                          *)
RetxStart(seqnum) == (seqnum \div DataLen) * DataLen

(* `uint32_t nbytes = out - start`: the bytes the loop sends, in uint32_t. *)
RetxBytes(seqnum, payloadlen, prodLength) ==
    (RetxOut(seqnum, payloadlen, prodLength) - RetxStart(seqnum)) % Word
=============================================================================
