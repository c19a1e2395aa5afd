------------------------ MODULE VcmtpRetxRange_proofs ------------------------
(***************************************************************************)
(* Proofs about the byte range retransmit() sends, for every width of the  *)
(* word and every data-block length, the real 32 bits included.            *)
(***************************************************************************)
EXTENDS VcmtpRetxRange, TLAPS

USE WordAssumption

(* 2^Width is a whole number of at least 2 (it exceeds DataLen >= 1). *)
LEMMA WordFacts == Word \in Nat /\ Word >= 2
BY DEF Word

(* uint32_t subtraction: a difference within one word is itself, or one   *)
(* word more when it is negative.                                          *)
LEMMA ModWord ==
    ASSUME NEW x \in Int, x \in -Word + 1 .. Word - 1
    PROVE  x % Word = IF x < 0 THEN x + Word ELSE x
<1>1. Word \in Nat /\ Word >= 2
  BY WordFacts
<1>. HIDE DEF Word
<1>. QED
  BY <1>1

(* Rounding down to a data block moves back by less than one block. *)
LEMMA StartFacts ==
    ASSUME NEW seqnum \in U32
    PROVE  /\ RetxStart(seqnum) \in Nat
           /\ RetxStart(seqnum) <= seqnum
           /\ seqnum - RetxStart(seqnum) < DataLen
BY WordFacts DEF RetxStart, U32

(* A request inside the product: the uint32_t subtraction `out - start` in *)
(* retransmit() does not wrap, for any width.  The loop's byte count is    *)
(* the requested bytes plus the head of the first block, so it sends the   *)
(* bytes from the block boundary below seqnum up to seqnum + payloadlen,   *)
(* none beyond the product's end.                                          *)
THEOREM RetxBytesOfValidRequest ==
    ASSUME NEW seqnum \in U32, NEW payloadlen \in Nat, NEW prodLength \in U32,
           0 < payloadlen, seqnum + payloadlen <= prodLength
    PROVE  LET n == RetxBytes(seqnum, payloadlen, prodLength)
           IN  /\ RetxStart(seqnum) + n = seqnum + payloadlen
               /\ n \in payloadlen .. payloadlen + DataLen - 1
<1>0. /\ seqnum + payloadlen \in Int
      /\ seqnum + payloadlen \in -Word + 1 .. Word - 1
      /\ seqnum + payloadlen >= 0
  BY WordFacts DEF U32
<1>1. (seqnum + payloadlen) % Word = seqnum + payloadlen
  BY <1>0, ModWord
<1>2. RetxOut(seqnum, payloadlen, prodLength) = seqnum + payloadlen
  BY <1>1, WordFacts DEF RetxOut, MIN, U32
<1>3. RetxStart(seqnum) \in Nat /\ RetxStart(seqnum) <= seqnum
      /\ seqnum - RetxStart(seqnum) < DataLen
  BY StartFacts
<1>4. /\ seqnum + payloadlen - RetxStart(seqnum) \in Int
      /\ seqnum + payloadlen - RetxStart(seqnum) \in -Word + 1 .. Word - 1
      /\ seqnum + payloadlen - RetxStart(seqnum) >= 0
  BY <1>0, <1>3, WordFacts DEF U32
<1>5. RetxBytes(seqnum, payloadlen, prodLength)
        = seqnum + payloadlen - RetxStart(seqnum)
  <2>1. (seqnum + payloadlen - RetxStart(seqnum)) % Word
          = seqnum + payloadlen - RetxStart(seqnum)
    BY <1>4, ModWord
  <2>. QED
    BY <1>2, <1>3, <2>1, WordFacts DEF RetxBytes, U32
<1>. QED
  BY <1>3, <1>5, WordFacts DEF U32

(* A request whose block starts past the end of the product (a seqnum     *)
(* beyond prodLength, which retransmit() does not check): `out` is at most *)
(* prodLength, below the rounded start, and `out - start` wraps, so the    *)
(* loop's range runs from start to 2^Width or beyond, far past the         *)
(* product's end (the hazard at vcmtpSendv3.cpp:675).                      *)
THEOREM RetxBytesPastEnd ==
    ASSUME NEW seqnum \in U32, NEW payloadlen \in Nat, NEW prodLength \in U32,
           prodLength < RetxStart(seqnum)
    PROVE  RetxStart(seqnum) + RetxBytes(seqnum, payloadlen, prodLength) >= Word
<1>1. RetxOut(seqnum, payloadlen, prodLength) \in 0 .. prodLength
  BY WordFacts DEF RetxOut, MIN, U32
<1>2. RetxBytes(seqnum, payloadlen, prodLength)
        = Word + RetxOut(seqnum, payloadlen, prodLength) - RetxStart(seqnum)
  <2>1. /\ RetxOut(seqnum, payloadlen, prodLength) - RetxStart(seqnum) \in Int
        /\ RetxOut(seqnum, payloadlen, prodLength) - RetxStart(seqnum)
             \in -Word + 1 .. -1
    BY <1>1, StartFacts, WordFacts DEF U32
  <2>2. (RetxOut(seqnum, payloadlen, prodLength) - RetxStart(seqnum)) % Word
          = Word + RetxOut(seqnum, payloadlen, prodLength) - RetxStart(seqnum)
    BY <1>1, <2>1, StartFacts, WordFacts, ModWord DEF U32
  <2>. QED
    BY <2>2 DEF RetxBytes
<1>. QED
  BY <1>1, <1>2, StartFacts, WordFacts
=============================================================================
