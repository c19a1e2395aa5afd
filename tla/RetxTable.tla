------------------------------ MODULE RetxTable ------------------------------
(***************************************************************************)
(* What the retransmission table (senderMetadata) and its callers promise  *)
(* the application, one product index at a time:                           *)
(*   - addRetxMetadata() inserts under an index that was never used;       *)
(*   - the entry leaves the table once, by rmRetxMetadata() (the timer) or *)
(*     by the clearUnfinishedSet() that empties its unfinished set (the    *)
(*     last RETX_END), and the caller whose call removed it notifies the   *)
(*     application of the end of the product, once;                        *)
(*   - nothing else is notified.                                           *)
(* senderMetadata.cpp is not part of the sources: this is the contract of  *)
(* its header and of spec.md section 4.4 and invariants 2 to 4.            *)
(***************************************************************************)
EXTENDS Naturals

CONSTANT Prods   \* the product indices

VARIABLES
    status,      \* "unused", "live" (in the table) or "gone" (removed)
    notified     \* notify_of_eop() calls per index

vars == <<status, notified>>

TypeOK ==
    /\ status \in [Prods -> {"unused", "live", "gone"}]
    /\ notified \in [Prods -> Nat]

Init ==
    /\ status = [p \in Prods |-> "unused"]
    /\ notified = [p \in Prods |-> 0]

(* addRetxMetadata(meta): the caller holds the unique key meta.prodindex. *)
Add(p) ==
    /\ status[p] = "unused"
    /\ status' = [status EXCEPT ![p] = "live"]
    /\ UNCHANGED notified

(* The removal that returns TRUE, and the notification its caller makes. *)
Remove(p) ==
    /\ status[p] = "live"
    /\ status' = [status EXCEPT ![p] = "gone"]
    /\ notified' = [notified EXCEPT ![p] = @ + 1]

Next == \E p \in Prods : Add(p) \/ Remove(p)

Spec == Init /\ [][Next]_vars
=============================================================================
