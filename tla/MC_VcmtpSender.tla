--------------------------- MODULE MC_VcmtpSender ---------------------------
(* Small instances of VcmtpSender for TLC. *)
EXTENDS VcmtpSender, TLC

CONSTANTS s1, s2

(* Two receiver descriptors: enough for one receiver to finish a product   *)
(* while another has not, and for one to connect after a product was       *)
(* inserted.                                                               *)
MCSocks == {s1, s2}

(* One receiver descriptor: Stop() joins the timer and the coordinator,   *)
(* never a retransmission thread, so its return does not depend on a      *)
(* second receiver.                                                        *)
MCOneSock == {s1}

(* One request that reads the entry and the completion notice: the other  *)
(* two request handlers differ from handleRetxReq only in what they send.  *)
MCFlags == {"RETX_REQ", "RETX_END"}

(* The state without the history variables snap, popped and departed,     *)
(* which no action reads: for the runs whose properties do not read them   *)
(* either.                                                                 *)
MCView == <<app, prodIndex, added, table, unfin, notified, delayQ,
            qDisabled, timer, coord, coordFd, coordCancel, conns, tlist,
            worker, wreq, wcancel, errSet, stops, sent, openFds>>

(* The descriptors are interchangeable. *)
MCSymmetry == Permutations(MCSocks)
=============================================================================
