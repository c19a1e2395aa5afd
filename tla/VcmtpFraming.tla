---------------------------- MODULE VcmtpFraming ----------------------------
(***************************************************************************)
(* How the sender cuts a product into data frames:                         *)
(*   - sendData() multicasts the whole product as MEM_DATA frames;         *)
(*   - retransmit() answers a RETX_REQ (seqnum, payloadlen) with RETX_DATA  *)
(*     frames.                                                             *)
(* A frame is its header's seqnum and payloadlen; the bytes it carries are *)
(* the product's bytes from the offset the code copies from.  The          *)
(* uint32_t arithmetic of retransmit() is kept modulo 2^Width, Width being *)
(* a scaled-down 32.  The state is one request, fixed by Init.             *)
(***************************************************************************)
EXTENDS Integers, Sequences, SequencesExt, VcmtpRetxRange

CONSTANT MaxPayload   \* largest payloadlen a request carries

ASSUME MaxPayloadAssumption == MaxPayload \in Nat

(* A frame that carries the `len` bytes at offset `off` of the product. *)
Frame(off, len) == [seqnum |-> off, payloadlen |-> len]

(* SendData with the bug retransmit() has: seqNum and the data pointer    *)
(* are not advanced.                                                       *)
SendDataNoAdvance(dataSize) ==
    LET F[n \in 0 .. dataSize] ==
            IF n = 0 THEN <<>>
            ELSE LET payloadlen == IF n < DataLen THEN n ELSE DataLen
                 IN <<Frame(0, payloadlen)>> \o F[n - payloadlen]
    IN  F[dataSize]

(* sendData(data, dataSize): frames of DataLen bytes, the last one         *)
(* shorter; seqNum and the data pointer advance by each payload.           *)
SendData(dataSize) ==
    LET F[n \in 0 .. dataSize] ==
            IF n = 0 THEN <<>>
            ELSE LET payloadlen == IF n < DataLen THEN n ELSE DataLen
                 IN <<Frame(dataSize - n, payloadlen)>> \o F[n - payloadlen]
    IN  F[dataSize]

(* retransmit(): the loop runs over nbytes = out - start (uint32_t, see    *)
(* VcmtpRetxRange) sending payLen bytes from start each time; only nbytes  *)
(* decreases.                                                              *)
Retransmit(seqnum, payloadlen, prodLength) ==
    IF payloadlen = 0 THEN <<>>
    ELSE
      LET start == RetxStart(seqnum)
          F[nbytes \in U32] ==
              IF nbytes = 0 THEN <<>>
              ELSE LET payLen == IF DataLen > nbytes THEN nbytes ELSE DataLen
                   IN <<Frame(start, payLen)>> \o F[nbytes - payLen]
      IN  F[RetxBytes(seqnum, payloadlen, prodLength)]

(* The product offsets whose bytes a sequence of frames carries, in order. *)
Offsets(off, len) == [i \in 1 .. len |-> off + i - 1]
Carried(frames) ==
    FlattenSeq([k \in DOMAIN frames |->
                    Offsets(frames[k].seqnum, frames[k].payloadlen)])

VARIABLE req

Requests == [seqnum : U32, payloadlen : 0 .. MaxPayload, prodLength : U32]

Init == req \in Requests
Next == UNCHANGED req
Spec == Init /\ [][Next]_req

-----------------------------------------------------------------------------
(* sendData() multicasts every byte of the product once and in order, in   *)
(* frames of DataLen bytes but for a shorter last one (spec section 4.9,   *)
(* step 4).                                                                *)
SendDataCoversProduct ==
    LET frames == SendData(req.prodLength)
    IN  /\ Carried(frames) = Offsets(0, req.prodLength)
        /\ \A k \in 1 .. Len(frames) - 1 : frames[k].payloadlen = DataLen

(* The RETX_DATA frames answering a request with seqnum + payloadlen <=    *)
(* prodsize carry exactly the product bytes from the frame boundary below  *)
(* seqnum to seqnum + payloadlen (spec section 8, property 6).             *)
RetransmitCoversRequest ==
    LET r == req
    IN  (0 < r.payloadlen /\ r.seqnum + r.payloadlen <= r.prodLength)
          => LET first == (r.seqnum \div DataLen) * DataLen
             IN  Carried(Retransmit(r.seqnum, r.payloadlen, r.prodLength))
                   = Offsets(first, r.seqnum + r.payloadlen - first)

(* Whatever the request, retransmit() copies no byte from beyond the       *)
(* product (its comment: the requested block "will be checked to make sure *)
(* the request is valid").                                                 *)
RetransmitWithinProduct ==
    \A k \in DOMAIN Retransmit(req.seqnum, req.payloadlen, req.prodLength) :
        LET f == Retransmit(req.seqnum, req.payloadlen, req.prodLength)[k]
        IN  f.seqnum + f.payloadlen <= req.prodLength
=============================================================================
