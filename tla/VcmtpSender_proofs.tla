------------------------- MODULE VcmtpSender_proofs -------------------------
(***************************************************************************)
(* Proofs about VcmtpSender for every value of its constants.              *)
(***************************************************************************)
EXTENDS VcmtpSender, TLAPS

(* TypeOK is not inductive on its own: SetTimerParameters increments       *)
(* prodIndex and sent, and TaskExit increments stops.  IndexInv says where *)
(* sendProduct() is: while the counter stays below 2^32 (NoWrap),         *)
(* prodIndex is initProdIndex plus the completed calls, the indices        *)
(* inserted so far lie between initProdIndex and it,                       *)
(* except the one of a call in progress (or abandoned by taskExit()), and  *)
(* the application has not called Stop() while it can still send.  Between *)
(* accept() and the push onto the thread list the coordinator holds a real *)
(* socket.                                                                 *)
IndexInv ==
    /\ prodIndex = InitProdIndex + sent
    /\ added \subseteq InitProdIndex .. prodIndex
    /\ added \subseteq InitProdIndex .. InitProdIndex + MaxProducts - 1
    /\ app \in {"init", "idle"} => prodIndex \notin added
    /\ app \in {"mcast", "timer"} => prodIndex \in added
    /\ app \in {"init", "idle", "mcast", "timer"} => stops = 0
    /\ table \subseteq added
    /\ coord \in {"spawn", "register"} => coordFd \in Socks

Inv == TypeOK /\ IndexInv

USE SocksAssumption, MaxProductsAssumption, MaxStopsAssumption,
    IndexWordAssumption, InitProdIndexAssumption

LEMMA InitInv == Init => Inv
<1> SUFFICES ASSUME Init PROVE Inv
  OBVIOUS
<1>1. TypeOK
  <2>1. app \in AppStates
    BY DEF Init, AppStates
  <2>2. wreq \in [Socks -> Req \cup {NoReq}]
    BY DEF Init
  <2>3. worker \in [Socks -> WorkerStates]
    BY DEF Init, WorkerStates
  <2>4. /\ unfin \in [Idx -> SUBSET Socks]
        /\ snap \in [Idx -> SUBSET Socks]
        /\ notified \in [Idx -> Nat]
        /\ departed \in [Idx -> SUBSET Socks]
    BY DEF Init
  <2>5. /\ prodIndex \in Idx
        /\ stops \in 0 .. MaxStops
        /\ sent \in 0 .. MaxProducts
    BY DEF Init, Idx
  <2>6. /\ added \subseteq Idx /\ table \subseteq Idx
        /\ delayQ \subseteq Idx /\ popped \subseteq Idx
        /\ conns \subseteq Socks /\ tlist \subseteq Socks
        /\ wcancel \subseteq Socks /\ openFds \subseteq Socks
        /\ coordFd \in Socks \cup {NoSock}
    BY DEF Init
  <2>7. /\ timer \in {"none", "run", "done"}
        /\ coord \in {"none", "accept", "spawn", "register", "done"}
        /\ qDisabled \in BOOLEAN /\ coordCancel \in BOOLEAN
        /\ errSet \in BOOLEAN
    BY DEF Init
  <2>8. joins \in [{"timer", "coord"} -> Nat]
    BY DEF Init
  <2>. QED
    BY <2>1, <2>2, <2>3, <2>4, <2>5, <2>6, <2>7, <2>8 DEF TypeOK
<1>2. IndexInv
  BY DEF Init, IndexInv
<1>. QED
  BY <1>1, <1>2 DEF Inv

(* The steps of the map: what RemoveAndNotify and ClearUnfinishedSet leave  *)
(* of the typing and of table \subseteq added.                             *)
LEMMA RemoveAndNotifyInv ==
    ASSUME Inv, NEW q \in Idx, RemoveAndNotify(q)
    PROVE  /\ table' \subseteq table
           /\ unfin' \in [Idx -> SUBSET Socks]
           /\ notified' \in [Idx -> Nat]
BY DEF Inv, TypeOK, RemoveAndNotify

LEMMA ClearUnfinishedSetInv ==
    ASSUME Inv, NEW p \in Idx, NEW s \in Socks, ClearUnfinishedSet(p, s)
    PROVE  /\ table' \subseteq table
           /\ unfin' \in [Idx -> SUBSET Socks]
           /\ notified' \in [Idx -> Nat]
BY DEF Inv, TypeOK, ClearUnfinishedSet

LEMMA NextInv ==
    ASSUME NoWrap, Inv, [Next]_vars
    PROVE  Inv'
<1> USE DEF Inv, TypeOK, IndexInv, AppStates, StopPhases, WorkerStates
<1>1. CASE Start
  BY <1>1 DEF Start
<1>2. CASE StartFail
  BY <1>2 DEF StartFail
<1>3. CASE SendInvalid
  BY <1>3 DEF SendInvalid, TaskExit
<1>4. CASE AddRetxMetadata
  <2>1. prodIndex \in Idx /\ conns \subseteq Socks /\ app = "idle"
    BY <1>4 DEF AddRetxMetadata
  <2>2. /\ table' \subseteq Idx /\ added' \subseteq Idx
        /\ unfin' \in [Idx -> SUBSET Socks]
        /\ snap' \in [Idx -> SUBSET Socks]
        /\ departed' \in [Idx -> SUBSET Socks]
    BY <1>4, <2>1 DEF AddRetxMetadata
  <2>3. app' \in AppStates
    BY <1>4 DEF AddRetxMetadata
  <2>4. TypeOK'
    BY <1>4, <2>2, <2>3 DEF AddRetxMetadata
  <2>5. /\ prodIndex' = InitProdIndex + sent'
        /\ prodIndex \in InitProdIndex .. InitProdIndex + MaxProducts - 1
    BY <1>4, <2>1 DEF AddRetxMetadata
  <2>6. /\ added' \subseteq InitProdIndex .. prodIndex'
        /\ added' \subseteq InitProdIndex .. InitProdIndex + MaxProducts - 1
    BY <1>4, <2>1, <2>5 DEF AddRetxMetadata
  <2>7. /\ app' \in {"mcast", "timer"} => prodIndex' \in added'
        /\ app' \in {"init", "idle"} => prodIndex' \notin added'
        /\ app' \in {"init", "idle", "mcast", "timer"} => stops' = 0
        /\ table' \subseteq added'
        /\ coord' \in {"spawn", "register"} => coordFd' \in Socks
    BY <1>4, <2>1 DEF AddRetxMetadata
  <2>. QED
    BY <2>4, <2>5, <2>6, <2>7
<1>5. CASE Multicast
  BY <1>5 DEF Multicast
<1>6. CASE MulticastFail
  BY <1>6 DEF MulticastFail, TaskExit
<1>7. CASE SetTimerParameters
  <2>1. prodIndex \in InitProdIndex .. InitProdIndex + MaxProducts - 1
    BY <1>7 DEF SetTimerParameters
  <2>2. prodIndex' = prodIndex + 1 /\ sent' = sent + 1
    <3>1. prodIndex + 1 \in 0 .. IndexWord - 1
      BY <2>1 DEF NoWrap
    <3>2. (prodIndex + 1) % IndexWord = prodIndex + 1
      BY <3>1
    <3>. QED
      BY <1>7, <3>2 DEF SetTimerParameters
  <2>3. /\ prodIndex' \in Idx /\ prodIndex' = InitProdIndex + sent'
        /\ sent' \in 0 .. MaxProducts
        /\ added \subseteq 0 .. prodIndex'
    BY <2>1, <2>2 DEF NoWrap, Idx
  <2>4. prodIndex' \notin added'
    BY <1>7, <2>1, <2>2 DEF SetTimerParameters
  <2>5. delayQ' \subseteq Idx
    BY <1>7, <2>1 DEF SetTimerParameters, Idx
  <2>. QED
    BY <1>7, <2>3, <2>4, <2>5 DEF SetTimerParameters
<1>8. CASE CallStop
  BY <1>8 DEF CallStop
<1>9. CASE StopDisable
  BY <1>9 DEF StopDisable
<1>10. CASE StopCancelCoordinator
  BY <1>10 DEF StopCancelCoordinator
<1>11. CASE StopShutdown
  BY <1>11 DEF StopShutdown
<1>12. CASE StopJoinTimer
  BY <1>12 DEF StopJoinTimer
<1>13. CASE StopJoinCoordinator
  BY <1>13 DEF StopJoinCoordinator
<1>14. CASE TimerExpire
  <2>1. PICK q \in Idx : RemoveAndNotify(q)
    BY <1>14 DEF TimerExpire
  <2>2. /\ table' \subseteq table
        /\ unfin' \in [Idx -> SUBSET Socks]
        /\ notified' \in [Idx -> Nat]
    BY <2>1, RemoveAndNotifyInv
  <2>3. delayQ' \subseteq Idx /\ popped' \subseteq Idx
    BY <1>14 DEF TimerExpire
  <2>. QED
    BY <1>14, <2>2, <2>3 DEF TimerExpire
<1>15. CASE TimerExit
  BY <1>15 DEF TimerExit
<1>16. CASE Accept
  BY <1>16 DEF Accept
<1>17. CASE AcceptFail
  BY <1>17 DEF AcceptFail
<1>18. CASE SpawnRetxThread
  BY <1>18 DEF SpawnRetxThread
<1>19. CASE SpawnRetxThreadFail
  BY <1>19 DEF SpawnRetxThreadFail, RecordClose
<1>20. CASE RegisterRetxThread
  BY <1>20 DEF RegisterRetxThread, RetxThreadsAdd
<1>21. CASE CoordinatorCancelled
  BY <1>21, SMTT(30) DEF CoordinatorCancelled
<1>22. ASSUME NEW s \in Socks, RetxStep(s) PROVE Inv'
  <2>1. CASE RecvRequest(s)
    BY <2>1 DEF RecvRequest, Req
  <2>2. CASE RecvFail(s)
    BY <2>2 DEF RecvFail, ExitRmSock, NoReq
  <2>3. CASE HandleRetx(s)
    BY <2>3 DEF HandleRetx, NoReq
  <2>4. CASE HandleRetxFail(s)
    BY <2>4 DEF HandleRetxFail, ExitRmSock, NoReq
  <2>5. CASE HandleRetxEnd(s)
    <3>1. /\ table' \subseteq table
          /\ unfin' \in [Idx -> SUBSET Socks]
          /\ notified' \in [Idx -> Nat]
      <4>1. CASE wreq[s].found
        <5>1. wreq[s] \in Req
          BY <2>5 DEF HandleRetxEnd, NoReq
        <5>2. wreq[s].prod \in Idx
          BY <5>1 DEF Req
        <5>. QED
          BY <2>5, <4>1, <5>2, ClearUnfinishedSetInv DEF HandleRetxEnd
      <4>2. CASE ~wreq[s].found
        BY <2>5, <4>2 DEF HandleRetxEnd
      <4>. QED
        BY <4>1, <4>2
    <3>. QED
      BY <2>5, <3>1 DEF HandleRetxEnd, NoReq
  <2>6. CASE RetxThreadCancelled(s)
    BY <2>6 DEF RetxThreadCancelled, NoReq
  <2>7. CASE ExitRetxThread(s)
    BY <2>7 DEF ExitRetxThread, RecordClose, RetxThreadsRemove
  <2>. QED
    BY <1>22, <2>1, <2>2, <2>3, <2>4, <2>5, <2>6, <2>7 DEF RetxStep
<1>23. CASE Finished
  BY <1>23 DEF Finished, vars
<1>24. CASE UNCHANGED vars
  BY <1>24 DEF vars
<1>. QED
  BY <1>1, <1>2, <1>3, <1>4, <1>5, <1>6, <1>7, <1>8, <1>9, <1>10, <1>11,
     <1>12, <1>13, <1>14, <1>15, <1>16, <1>17, <1>18, <1>19, <1>20, <1>21,
     <1>22, <1>23, <1>24
  DEF Next, AppStep, TimerStep, CoordinatorStep

LEMMA InvInvariant ==
    ASSUME NoWrap PROVE Spec => []Inv
<1>1. Inv /\ [Next]_vars => Inv'
  BY NextInv
<1>. QED
  BY InitInv, <1>1, PTL DEF Spec

(* Every reachable state of the sender's threads is well typed: the        *)
(* thread states, the map, the delay queue and the thread list hold only   *)
(* the values the code gives them.                                         *)
THEOREM TypeCorrect ==
    ASSUME NoWrap PROVE Spec => []TypeOK
BY InvInvariant, PTL DEF Inv

-----------------------------------------------------------------------------
(* notify_of_eop() exactly once per removed product.  Inv supplies the two *)
(* facts the argument rests on: an entry is only ever inserted under an    *)
(* index not inserted before (so its count is still 0), and the map holds  *)
(* only inserted indices (so a removal moves an index from "in the map" to *)
(* "added and gone", and its count from 0 to 1).                           *)
IInv == Inv /\ NotifyExactlyOnRemoval

(* Removing with the isRemoved check keeps the count right. *)
LEMMA RemoveAndNotifyNotify ==
    ASSUME Inv, NotifyExactlyOnRemoval, NEW q \in Idx, RemoveAndNotify(q),
           added' = added
    PROVE  NotifyExactlyOnRemoval'
<1> SUFFICES ASSUME NEW p \in Idx
             PROVE  notified'[p] = IF p \in added' \ table' THEN 1 ELSE 0
  BY DEF NotifyExactlyOnRemoval
<1>1. notified[p] = IF p \in added \ table THEN 1 ELSE 0
  BY DEF NotifyExactlyOnRemoval
<1>2. CASE q \in table /\ p = q
  BY <1>1, <1>2 DEF RemoveAndNotify, Inv, TypeOK, IndexInv
<1>3. CASE ~(q \in table /\ p = q)
  BY <1>1, <1>3 DEF RemoveAndNotify, Inv, TypeOK
<1>. QED
  BY <1>2, <1>3

(* So does a clearUnfinishedSet() that may or may not remove the entry. *)
LEMMA ClearUnfinishedSetNotify ==
    ASSUME Inv, NotifyExactlyOnRemoval, NEW q \in Idx, NEW s \in Socks,
           ClearUnfinishedSet(q, s), added' = added
    PROVE  NotifyExactlyOnRemoval'
<1> SUFFICES ASSUME NEW p \in Idx
             PROVE  notified'[p] = IF p \in added' \ table' THEN 1 ELSE 0
  BY DEF NotifyExactlyOnRemoval
<1>1. notified[p] = IF p \in added \ table THEN 1 ELSE 0
  BY DEF NotifyExactlyOnRemoval
<1>2. CASE q \in table /\ unfin'[q] = {}
  <2>1. table' = table \ {q} /\ notified' = [notified EXCEPT ![q] = @ + 1]
    BY <1>2 DEF ClearUnfinishedSet
  <2>. QED
    BY <1>1, <1>2, <2>1 DEF Inv, TypeOK, IndexInv
<1>3. CASE ~(q \in table /\ unfin'[q] = {})
  BY <1>1, <1>3 DEF ClearUnfinishedSet
<1>. QED
  BY <1>2, <1>3

(* A step that touches neither the map, the inserted indices nor the       *)
(* notifications keeps the count right.                                    *)
LEMMA NotifyFrame ==
    ASSUME NotifyExactlyOnRemoval,
           UNCHANGED <<added, table, notified>>
    PROVE  NotifyExactlyOnRemoval'
BY DEF NotifyExactlyOnRemoval

LEMMA NextNotify ==
    ASSUME Inv, NotifyExactlyOnRemoval, [Next]_vars
    PROVE  NotifyExactlyOnRemoval'
<1>1. CASE AddRetxMetadata
  <2> SUFFICES ASSUME NEW p \in Idx
               PROVE  notified'[p] = IF p \in added' \ table' THEN 1 ELSE 0
    BY DEF NotifyExactlyOnRemoval
  <2>1. notified[p] = IF p \in added \ table THEN 1 ELSE 0
    BY DEF NotifyExactlyOnRemoval
  <2>2. prodIndex \notin added
    BY <1>1 DEF AddRetxMetadata, Inv, IndexInv
  <2>. QED
    BY <1>1, <2>1, <2>2 DEF AddRetxMetadata, Inv, IndexInv
<1>2. CASE TimerExpire
  <2>1. PICK q \in Idx : RemoveAndNotify(q)
    BY <1>2 DEF TimerExpire
  <2>. QED
    BY <1>2, <2>1, RemoveAndNotifyNotify DEF TimerExpire
<1>3. ASSUME NEW s \in Socks, HandleRetxEnd(s)
      PROVE  NotifyExactlyOnRemoval'
  <2>1. CASE wreq[s].found
    <3>1. wreq[s] \in Req
      BY <1>3, <2>1 DEF HandleRetxEnd, NoReq, Inv, TypeOK
    <3>2. wreq[s].prod \in Idx
      BY <3>1 DEF Req
    <3>. QED
      BY <1>3, <2>1, <3>2, ClearUnfinishedSetNotify DEF HandleRetxEnd
  <2>2. CASE ~wreq[s].found
    BY <1>3, <2>2, NotifyFrame DEF HandleRetxEnd
  <2>. QED
    BY <2>1, <2>2
<1>4. CASE \E s \in Socks : HandleRetxEnd(s)
  BY <1>3, <1>4
<1>5. CASE ~AddRetxMetadata /\ ~TimerExpire
           /\ ~\E s \in Socks : HandleRetxEnd(s)
  <2>1. UNCHANGED <<added, table, notified>>
    BY <1>5 DEF Next, vars, AppStep, TimerStep, CoordinatorStep, RetxStep,
       Finished, Start, StartFail, SendInvalid, Multicast, MulticastFail,
       SetTimerParameters, CallStop, StopDisable, StopCancelCoordinator,
       StopShutdown, StopJoinTimer, StopJoinCoordinator, TimerExit, Accept,
       AcceptFail, SpawnRetxThread, SpawnRetxThreadFail, RegisterRetxThread,
       CoordinatorCancelled, RecvRequest, RecvFail, HandleRetx,
       HandleRetxFail, RetxThreadCancelled, ExitRetxThread, TaskExit
  <2>. QED
    BY <2>1, NotifyFrame, SMTT(30)
<1>. QED
  BY <1>1, <1>2, <1>4, <1>5

(* notify_of_eop(p) is called once for every product whose entry left the  *)
(* map and for no other, for every number of connections and products:    *)
(* the timer's and the last receiver's removals never both notify.         *)
THEOREM NotifyCorrect ==
    ASSUME NoWrap PROVE Spec => []NotifyExactlyOnRemoval
<1>1. Init => IInv
  BY InitInv DEF Init, IInv, NotifyExactlyOnRemoval
<1>2. IInv /\ [Next]_vars => IInv'
  BY NextInv, NextNotify DEF IInv
<1>. QED
  BY <1>1, <1>2, PTL DEF Spec, IInv
-----------------------------------------------------------------------------
(* A step puts into the map only an index never inserted before. *)
LEMMA NextFresh ==
    ASSUME Inv, [Next]_vars
    PROVE  \A p \in table' \ table : p \notin added
<1>1. CASE AddRetxMetadata
  BY <1>1 DEF AddRetxMetadata, Inv, IndexInv
<1>2. CASE TimerExpire
  <2>1. PICK q \in Idx : RemoveAndNotify(q)
    BY <1>2 DEF TimerExpire
  <2>. QED
    BY <2>1, RemoveAndNotifyInv
<1>3. ASSUME NEW s \in Socks, HandleRetxEnd(s)
      PROVE  \A p \in table' \ table : p \notin added
  <2>1. CASE wreq[s].found
    <3>1. wreq[s] \in Req
      BY <1>3, <2>1 DEF HandleRetxEnd, NoReq, Inv, TypeOK
    <3>2. wreq[s].prod \in Idx
      BY <3>1 DEF Req
    <3>. QED
      BY <1>3, <2>1, <3>2, ClearUnfinishedSetInv DEF HandleRetxEnd
  <2>2. CASE ~wreq[s].found
    BY <1>3, <2>2 DEF HandleRetxEnd
  <2>. QED
    BY <2>1, <2>2
<1>4. CASE \E s \in Socks : HandleRetxEnd(s)
  BY <1>3, <1>4
<1>5. CASE ~AddRetxMetadata /\ ~TimerExpire
           /\ ~\E s \in Socks : HandleRetxEnd(s)
  <2>1. table' = table
    BY <1>5 DEF Next, vars, AppStep, TimerStep, CoordinatorStep, RetxStep,
       Finished, Start, StartFail, SendInvalid, Multicast, MulticastFail,
       SetTimerParameters, CallStop, StopDisable, StopCancelCoordinator,
       StopShutdown, StopJoinTimer, StopJoinCoordinator, TimerExit, Accept,
       AcceptFail, SpawnRetxThread, SpawnRetxThreadFail, RegisterRetxThread,
       CoordinatorCancelled, RecvRequest, RecvFail, HandleRetx,
       HandleRetxFail, RetxThreadCancelled, ExitRetxThread
  <2>. QED
    BY <2>1, SMTT(30)
<1>. QED
  BY <1>1, <1>2, <1>4, <1>5

(* addRetxMetadata() never inserts an entry under an index already used,   *)
(* for any number of products: no receiver can be served an old product's *)
(* entry under a new product's index.                                      *)
THEOREM FreshCorrect ==
    ASSUME NoWrap PROVE Spec => FreshProdIndex
<1>1. Inv /\ [Next]_vars => [\A p \in table' \ table : p \notin added]_vars
  BY NextFresh
<1>. QED
  BY InvInvariant, <1>1, PTL DEF Spec, FreshProdIndex
-----------------------------------------------------------------------------
(* The refinement of the table's contract (RetxTable). *)

(* A step that leaves the map, the inserted indices and the notifications  *)
(* alone is a stutter of the contract.                                     *)
LEMMA TableStutter ==
    ASSUME UNCHANGED <<added, table, notified>>
    PROVE  UNCHANGED Table!vars
BY DEF Table!vars, Status

(* A removal of an entry in the map, with its notification, is the         *)
(* contract's Remove.                                                      *)
LEMMA TableRemove ==
    ASSUME Inv, NEW q \in Idx, q \in table,
           table' = table \ {q}, added' = added,
           notified' = [notified EXCEPT ![q] = @ + 1]
    PROVE  Table!Remove(q)
<1>1. Status[q] = "live"
  BY DEF Status
<1>2. Status' = [Status EXCEPT ![q] = "gone"]
  BY DEF Status, Inv, IndexInv
<1>. QED
  BY <1>1, <1>2 DEF Table!Remove

LEMMA NextRefines ==
    ASSUME Inv, [Next]_vars
    PROVE  [Table!Next]_Table!vars
<1>1. CASE AddRetxMetadata
  <2>1. prodIndex \in Idx /\ prodIndex \notin added /\ prodIndex \notin table
    BY <1>1 DEF AddRetxMetadata, Inv, TypeOK, IndexInv, Idx
  <2>2. Status[prodIndex] = "unused"
    BY <2>1 DEF Status
  <2>3. Status' = [Status EXCEPT ![prodIndex] = "live"]
    BY <1>1, <2>1 DEF AddRetxMetadata, Status
  <2>4. Table!Add(prodIndex)
    BY <1>1, <2>2, <2>3 DEF AddRetxMetadata, Table!Add
  <2>. QED
    BY <2>1, <2>4 DEF Table!Next
<1>2. CASE TimerExpire
  <2>1. PICK q \in Idx : RemoveAndNotify(q)
    BY <1>2 DEF TimerExpire
  <2>2. CASE q \in table
    <3>1. Table!Remove(q)
      BY <1>2, <2>1, <2>2, TableRemove DEF TimerExpire, RemoveAndNotify
    <3>. QED
      BY <3>1 DEF Table!Next
  <2>3. CASE q \notin table
    BY <1>2, <2>1, <2>3, TableStutter DEF TimerExpire, RemoveAndNotify
  <2>. QED
    BY <2>2, <2>3
<1>3. ASSUME NEW s \in Socks, HandleRetxEnd(s)
      PROVE  [Table!Next]_Table!vars
  <2>1. CASE wreq[s].found
    <3>1. wreq[s].prod \in Idx
      <4>1. wreq[s] \in Req
        BY <1>3, <2>1 DEF HandleRetxEnd, NoReq, Inv, TypeOK
      <4>. QED
        BY <4>1 DEF Req
    <3> DEFINE p == wreq[s].prod
    <3>2. CASE p \in table /\ unfin'[p] = {}
      <4>1. Table!Remove(p)
        BY <1>3, <2>1, <3>1, <3>2, TableRemove
        DEF HandleRetxEnd, ClearUnfinishedSet
      <4>. QED
        BY <3>1, <4>1 DEF Table!Next
    <3>3. CASE ~(p \in table /\ unfin'[p] = {})
      BY <1>3, <2>1, <3>3, TableStutter DEF HandleRetxEnd, ClearUnfinishedSet
    <3>. QED
      BY <3>2, <3>3
  <2>2. CASE ~wreq[s].found
    BY <1>3, <2>2, TableStutter DEF HandleRetxEnd
  <2>. QED
    BY <2>1, <2>2
<1>4. CASE \E s \in Socks : HandleRetxEnd(s)
  BY <1>3, <1>4
<1>5. CASE ~AddRetxMetadata /\ ~TimerExpire
           /\ ~\E s \in Socks : HandleRetxEnd(s)
  <2>1. UNCHANGED <<added, table, notified>>
    BY <1>5 DEF Next, vars, AppStep, TimerStep, CoordinatorStep, RetxStep,
       Finished, Start, StartFail, SendInvalid, Multicast, MulticastFail,
       SetTimerParameters, CallStop, StopDisable, StopCancelCoordinator,
       StopShutdown, StopJoinTimer, StopJoinCoordinator, TimerExit, Accept,
       AcceptFail, SpawnRetxThread, SpawnRetxThreadFail, RegisterRetxThread,
       CoordinatorCancelled, RecvRequest, RecvFail, HandleRetx,
       HandleRetxFail, RetxThreadCancelled, ExitRetxThread, TaskExit
  <2>. QED
    BY <2>1, TableStutter, SMTT(30)
<1>. QED
  BY <1>1, <1>2, <1>4, <1>5

(* The sender implements the retransmission table's contract for every    *)
(* set of sockets and every bound: each index is inserted at most once,    *)
(* removed at most once after its insertion, and notified exactly when it  *)
(* is removed; addRetxMetadata(), the timer and the RETX_END handler never *)
(* do anything else to the table.                                          *)
THEOREM Refinement ==
    ASSUME NoWrap PROVE Spec => RefinesRetxTable
<1>1. Init => Table!Init
  BY DEF Init, Table!Init, Status
<1>2. Inv /\ [Next]_vars => [Table!Next]_Table!vars
  BY NextRefines
<1>. QED
  BY InvInvariant, <1>1, <1>2, PTL DEF Spec, RefinesRetxTable, Table!Spec
-----------------------------------------------------------------------------
(* The connection list and the thread list against the retransmission     *)
(* threads.  These hold whatever the constants, prodIndex wrapping or not: *)
(* the argument uses only the typing of the thread and connection state,   *)
(* ThreadType, which is inductive on its own.  The strengthening SpawnFresh *)
(* says that the descriptor accept() has just returned is served by no     *)
(* thread: it was not open, and every thread's socket is until it exits.  *)
ThreadType ==
    /\ worker \in [Socks -> WorkerStates]
    /\ conns \subseteq Socks
    /\ openFds \subseteq Socks
    /\ tlist \subseteq Socks
    /\ coord \in {"none", "accept", "spawn", "register", "done"}
    /\ coord \in {"spawn", "register"} => coordFd \in Socks

SpawnFresh == coord = "spawn" => worker[coordFd] = "none"

(* Start() creates the coordinator: before it, there is none. *)
CoordinatorUnstarted == app = "init" => coord = "none"

ThreadInv ==
    /\ ThreadType /\ CoordinatorUnstarted /\ SpawnFresh
    /\ ConnectionsServed /\ RunningThreadsListed

LEMMA InitThreadInv == Init => ThreadInv
<1> SUFFICES ASSUME Init PROVE ThreadInv
  OBVIOUS
<1>1. ThreadType
  BY DEF Init, ThreadType, WorkerStates
<1>2. ConnectionsServed
  BY DEF Init, ConnectionsServed
<1>3. SpawnFresh /\ RunningThreadsListed /\ CoordinatorUnstarted
  BY DEF Init, SpawnFresh, RunningThreadsListed, Running, CoordinatorUnstarted
<1>. QED
  BY <1>1, <1>2, <1>3 DEF ThreadInv

(* A step that leaves the threads, the two lists and the coordinator alone *)
(* keeps ThreadInv.                                                        *)
LEMMA ThreadFrame ==
    ASSUME ThreadInv,
           UNCHANGED <<worker, conns, tlist, coord, coordFd, openFds>>,
           app' = "init" => app = "init"
    PROVE  ThreadInv'
BY DEF ThreadInv, ThreadType, CoordinatorUnstarted, SpawnFresh,
   ConnectionsServed, RunningThreadsListed

(* A step of a thread's request loop moves it between recv and handle and *)
(* touches neither list, the open descriptors nor the coordinator.         *)
LEMMA LoopStepFrame ==
    ASSUME NEW s \in Socks, RecvRequest(s) \/ HandleRetx(s) \/ HandleRetxEnd(s)
    PROVE  /\ worker[s] \in {"recv", "handle"}
           /\ \E x \in {"recv", "handle"} : worker' = [worker EXCEPT ![s] = x]
           /\ UNCHANGED <<app, conns, tlist, coord, coordFd, openFds>>
<1>1. CASE RecvRequest(s)
  BY <1>1 DEF RecvRequest
<1>2. CASE HandleRetx(s)
  BY <1>2 DEF HandleRetx
<1>3. CASE HandleRetxEnd(s)
  BY <1>3 DEF HandleRetxEnd
<1>. QED
  BY <1>1, <1>2, <1>3, Zenon

(* A cancel ends a thread in its loop (dead) or in close() (deadclose), and *)
(* touches nothing else the thread invariant reads.                        *)
LEMMA CancelFrame ==
    ASSUME NEW s \in Socks, RetxThreadCancelled(s)
    PROVE  /\ \/ /\ worker[s] \in {"recv", "handle"}
                 /\ worker' = [worker EXCEPT ![s] = "dead"]
              \/ /\ worker[s] = "exiting"
                 /\ worker' = [worker EXCEPT ![s] = "deadclose"]
           /\ UNCHANGED <<app, conns, tlist, coord, coordFd, openFds>>
BY DEF RetxThreadCancelled

(* A thread that moves within the threads whose socket is listed, or      *)
(* within those whose socket is unlisted but open, and does not start     *)
(* running, keeps ThreadInv.                                               *)
LEMMA WorkerMoveInv ==
    ASSUME ThreadInv, NEW s \in Socks, NEW x \in WorkerStates,
           worker[s] # "none", x # "none",
           worker[s] \in {"recv", "handle", "dead"}
             <=> x \in {"recv", "handle", "dead"},
           worker[s] \in {"exiting", "deadclose"}
             <=> x \in {"exiting", "deadclose"},
           x \in Running => worker[s] \in Running,
           worker' = [worker EXCEPT ![s] = x],
           UNCHANGED <<app, conns, tlist, coord, coordFd, openFds>>
    PROVE  ThreadInv'
<1> USE DEF ThreadInv, ThreadType
<1>1. ThreadType'
  OBVIOUS
<1>2. SpawnFresh'
  BY DEF SpawnFresh
<1>3. ConnectionsServed'
  <2>1. {t \in Socks : worker'[t] \in {"recv", "handle", "dead"}}
          = {t \in Socks : worker[t] \in {"recv", "handle", "dead"}}
    OBVIOUS
  <2>2. {t \in Socks : worker'[t] \in {"exiting", "deadclose"}}
          = {t \in Socks : worker[t] \in {"exiting", "deadclose"}}
    OBVIOUS
  <2>. QED
    BY <2>1, <2>2 DEF ConnectionsServed
<1>4. RunningThreadsListed'
  BY DEF RunningThreadsListed
<1>5. CoordinatorUnstarted'
  BY DEF CoordinatorUnstarted
<1>. QED
  BY <1>1, <1>2, <1>3, <1>4, <1>5

(* The start of a thread's exit path: its socket leaves the connection     *)
(* list but stays open, and the thread stays listed.                       *)
LEMMA ExitRmSockInv ==
    ASSUME ThreadInv, NEW s \in Socks, worker[s] \in {"recv", "handle"},
           ExitRmSock(s), UNCHANGED <<app, coord, coordFd, tlist, openFds>>
    PROVE  ThreadInv'
<1> USE DEF ThreadInv, ThreadType
<1>1. ThreadType'
  BY DEF ExitRmSock, WorkerStates
<1>2. ~(coord = "spawn" /\ coordFd = s)
  BY DEF SpawnFresh
<1>3. SpawnFresh'
  BY <1>2 DEF ExitRmSock, SpawnFresh
<1>4. ConnectionsServed'
  BY <1>2 DEF ExitRmSock, ConnectionsServed
<1>5. RunningThreadsListed'
  BY DEF ExitRmSock, RunningThreadsListed, Running
<1>6. CoordinatorUnstarted'
  BY DEF CoordinatorUnstarted
<1>. QED
  BY <1>1, <1>3, <1>4, <1>5, <1>6

(* The rest of the exit path: the socket is closed, the thread leaves the  *)
(* thread list and serves nothing any more.                                *)
LEMMA ExitThreadInv ==
    ASSUME ThreadInv, NEW s \in Socks, ExitRetxThread(s)
    PROVE  ThreadInv'
<1> USE DEF ThreadInv, ThreadType
<1>1. worker[s] = "exiting" /\ UNCHANGED <<app, coord, coordFd, conns>>
  BY DEF ExitRetxThread
<1>2. ~(coord = "spawn" /\ coordFd = s) /\ s \notin conns
  BY <1>1 DEF SpawnFresh, ConnectionsServed
<1>3. ThreadType'
  BY <1>1 DEF ExitRetxThread, RetxThreadsRemove, WorkerStates
<1>4. SpawnFresh'
  BY <1>1, SMTT(30) DEF ExitRetxThread, SpawnFresh
<1>5. ConnectionsServed'
  BY <1>1, <1>2 DEF ExitRetxThread, ConnectionsServed
<1>6. RunningThreadsListed'
  BY <1>1 DEF ExitRetxThread, RetxThreadsRemove, RunningThreadsListed, Running
<1>7. CoordinatorUnstarted'
  BY <1>1 DEF CoordinatorUnstarted
<1>. QED
  BY <1>3, <1>4, <1>5, <1>6, <1>7

LEMMA NextThreadInv ==
    ASSUME ThreadInv, [Next]_vars
    PROVE  ThreadInv'
<1>0. CASE Start
  BY <1>0 DEF Start, ThreadInv, ThreadType, CoordinatorUnstarted, SpawnFresh,
     ConnectionsServed, RunningThreadsListed
<1>1. CASE (AppStep /\ ~Start) \/ TimerStep \/ Finished \/ UNCHANGED vars
  <2>1. UNCHANGED <<worker, conns, tlist, coord, coordFd, openFds>>
        /\ (app' = "init" => app = "init")
    <3>1. CASE StartFail \/ SendInvalid \/ AddRetxMetadata
      BY <3>1, SMTT(30) DEF StartFail, SendInvalid, AddRetxMetadata, TaskExit
    <3>2. CASE Multicast \/ MulticastFail \/ SetTimerParameters \/ CallStop
      BY <3>2 DEF Multicast, MulticastFail, SetTimerParameters, CallStop,
         TaskExit
    <3>3. CASE StopDisable \/ StopCancelCoordinator \/ StopShutdown
      BY <3>3 DEF StopDisable, StopCancelCoordinator, StopShutdown
    <3>4. CASE StopJoinTimer \/ StopJoinCoordinator
      BY <3>4, SMTT(30) DEF StopJoinTimer, StopJoinCoordinator
    <3>5. CASE TimerStep \/ Finished \/ UNCHANGED vars
      BY <3>5, SMTT(30) DEF TimerStep, TimerExpire, TimerExit, Finished, vars
    <3>. QED
      BY <1>1, <3>1, <3>2, <3>3, <3>4, <3>5 DEF AppStep
  <2>. QED
    BY <2>1, ThreadFrame
<1>2. CASE Accept
  <2>1. PICK s \in Socks \ openFds :
              /\ conns' = conns \cup {s}
              /\ openFds' = openFds \cup {s}
              /\ coordFd' = s
    BY <1>2 DEF Accept
  <2>2. worker[s] = "none"
    BY <2>1, SMTT(30) DEF ThreadInv, ThreadType, ConnectionsServed,
       WorkerStates
  <2>. QED
    BY <1>2, <2>1, <2>2 DEF Accept, ThreadInv, ThreadType,
       CoordinatorUnstarted, SpawnFresh, ConnectionsServed,
       RunningThreadsListed
<1>3. CASE AcceptFail \/ CoordinatorCancelled
  BY <1>3 DEF AcceptFail, CoordinatorCancelled, ThreadInv, ThreadType,
     CoordinatorUnstarted, SpawnFresh, ConnectionsServed, RunningThreadsListed
<1>4. CASE SpawnRetxThread
  BY <1>4 DEF SpawnRetxThread, WorkerStates, Running, ThreadInv, ThreadType,
     CoordinatorUnstarted, SpawnFresh, ConnectionsServed, RunningThreadsListed
<1>5. CASE SpawnRetxThreadFail
  BY <1>5 DEF SpawnRetxThreadFail, ThreadInv, ThreadType, CoordinatorUnstarted,
     SpawnFresh, ConnectionsServed, RunningThreadsListed
<1>6. CASE RegisterRetxThread
  BY <1>6 DEF RegisterRetxThread, RetxThreadsAdd, ThreadInv, ThreadType,
     CoordinatorUnstarted, SpawnFresh, ConnectionsServed, RunningThreadsListed
<1>7. ASSUME NEW s \in Socks, RetxStep(s) PROVE ThreadInv'
  <2>1. CASE RecvFail(s) \/ HandleRetxFail(s)
    <3>1. /\ worker[s] \in {"recv", "handle"} /\ ExitRmSock(s)
          /\ UNCHANGED <<app, coord, coordFd, tlist, openFds>>
      BY <2>1 DEF RecvFail, HandleRetxFail
    <3>. QED
      BY <3>1, ExitRmSockInv
  <2>2. CASE ExitRetxThread(s)
    BY <2>2, ExitThreadInv
  <2>3. CASE RecvRequest(s) \/ HandleRetx(s) \/ HandleRetxEnd(s)
    <3>1. PICK x \in {"recv", "handle"} : worker' = [worker EXCEPT ![s] = x]
      BY <2>3, LoopStepFrame
    <3>2. /\ worker[s] \in {"recv", "handle"}
          /\ UNCHANGED <<app, conns, tlist, coord, coordFd, openFds>>
      BY <2>3, LoopStepFrame
    <3>. QED
      BY <3>1, <3>2, WorkerMoveInv DEF WorkerStates, Running
  <2>4. CASE RetxThreadCancelled(s)
    <3>1. UNCHANGED <<app, conns, tlist, coord, coordFd, openFds>>
      BY <2>4, CancelFrame
    <3>2. CASE worker[s] \in {"recv", "handle"}
               /\ worker' = [worker EXCEPT ![s] = "dead"]
      BY <3>1, <3>2, WorkerMoveInv DEF WorkerStates, Running
    <3>3. CASE worker[s] = "exiting"
               /\ worker' = [worker EXCEPT ![s] = "deadclose"]
      BY <3>1, <3>3, WorkerMoveInv DEF WorkerStates, Running
    <3>. QED
      BY <2>4, <3>2, <3>3, CancelFrame
  <2>. QED
    BY <1>7, <2>1, <2>2, <2>3, <2>4 DEF RetxStep
<1>. QED
  BY <1>0, <1>1, <1>2, <1>3, <1>4, <1>5, <1>6, <1>7, SMTT(30)
  DEF Next, CoordinatorStep

(* TcpSend's connection list and the retransmission threads stay in step   *)
(* for every set of sockets and every bound: the list holds exactly the    *)
(* sockets of live or cancelled threads and the one just accepted, so      *)
(* accept() never hands a second thread a socket that one already serves.  *)
THEOREM ConnectionsCorrect == Spec => []ConnectionsServed
<1>1. ThreadInv /\ [Next]_vars => ThreadInv'
  BY NextThreadInv
<1>. QED
  BY InitThreadInv, <1>1, PTL DEF Spec, ThreadInv

(* Every running retransmission thread but the one the coordinator is      *)
(* about to add is in retxThreadList, for every set of sockets and every   *)
(* bound: shutdown() can miss only that one thread.                        *)
THEOREM ListedCorrect == Spec => []RunningThreadsListed
<1>1. ThreadInv /\ [Next]_vars => ThreadInv'
  BY NextThreadInv
<1>. QED
  BY InitThreadInv, <1>1, PTL DEF Spec, ThreadInv

-----------------------------------------------------------------------------
(* The refinement of the acceptor's registry contract (ConnRegistry).  It  *)
(* rests on ThreadInv: accept() returns a socket outside the list, which   *)
(* no thread serves, and the socket the coordinator holds between accept() *)
(* and pthread_create() is the only listed one without a thread.           *)

(* A step that changes the list and the threads of socket c only changes   *)
(* the registry state of c.                                                *)
LEMMA RegistryMove ==
    ASSUME NEW c \in Socks,
           \A s \in Socks \ {c} : /\ s \in conns' <=> s \in conns
                                  /\ worker'[s] = "none" <=> worker[s] = "none"
    PROVE  ConnState' = [ConnState EXCEPT ![c] = ConnState'[c]]
BY DEF ConnState

(* A step that keeps the list and which sockets have a thread is a stutter *)
(* of the contract.                                                        *)
LEMMA RegistryStutter ==
    ASSUME conns' = conns,
           \A s \in Socks : worker'[s] = "none" <=> worker[s] = "none"
    PROVE  ConnState' = ConnState
BY DEF ConnState

(* rmSockInList() on a thread's exit path is the contract's Remove. *)
LEMMA ExitRegistry ==
    ASSUME ThreadInv, NEW s \in Socks, worker[s] \in {"recv", "handle"},
           ExitRmSock(s)
    PROVE  Registry!Remove(s)
<1>1. ConnState[s] = "served"
  BY DEF ThreadInv, ConnectionsServed, ConnState
<1>2. ConnState'[s] = "free"
  BY DEF ExitRmSock, ConnState
<1>3. \A t \in Socks \ {s} : /\ t \in conns' <=> t \in conns
                             /\ worker'[t] = "none" <=> worker[t] = "none"
  BY DEF ExitRmSock, ThreadInv, ThreadType
<1>. QED
  BY <1>1, <1>2, <1>3, RegistryMove DEF Registry!Remove

LEMMA NextRegistry ==
    ASSUME ThreadInv, [Next]_vars
    PROVE  [Registry!Next]_ConnState
<1>1. CASE Accept
  <2>1. PICK s \in Socks \ openFds : conns' = conns \cup {s} /\ coordFd' = s
    BY <1>1 DEF Accept
  <2>2. worker[s] = "none" /\ ConnState[s] = "free"
    BY <2>1 DEF ThreadInv, ThreadType, ConnectionsServed, ConnState,
       WorkerStates
  <2>3. \A d \in Socks : ConnState[d] # "accepted"
    BY <1>1 DEF Accept, ThreadInv, ConnectionsServed, ConnState
  <2>4. ConnState'[s] = "accepted"
    BY <1>1, <2>1, <2>2, SMTT(30) DEF Accept, ConnState
  <2>5. ConnState' = [ConnState EXCEPT ![s] = "accepted"]
    BY <1>1, <2>1, <2>4, RegistryMove DEF Accept
  <2>. QED
    BY <2>2, <2>3, <2>5 DEF Registry!Next, Registry!Accept
<1>2. CASE SpawnRetxThread \/ SpawnRetxThreadFail
  <2>1. coordFd \in Socks /\ coordFd \in conns /\ worker[coordFd] = "none"
    BY <1>2 DEF SpawnRetxThread, SpawnRetxThreadFail, ThreadInv, ThreadType,
       ConnectionsServed, SpawnFresh
  <2>2. ConnState[coordFd] = "accepted"
    BY <2>1 DEF ConnState
  <2>3. CASE SpawnRetxThread
    <3>1. ConnState'[coordFd] = "served"
      <4>1. worker'[coordFd] = "recv" /\ conns' = conns
        BY <2>1, <2>3 DEF SpawnRetxThread, ThreadInv, ThreadType
      <4>. QED
        BY <2>1, <4>1 DEF ConnState
    <3>2. ConnState' = [ConnState EXCEPT ![coordFd] = "served"]
      BY <2>1, <2>3, <3>1, RegistryMove DEF SpawnRetxThread
    <3>. QED
      BY <2>1, <2>2, <3>2 DEF Registry!Next, Registry!Spawn
  <2>4. CASE SpawnRetxThreadFail
    <3>1. ConnState'[coordFd] = "free"
      BY <2>1, <2>4 DEF SpawnRetxThreadFail, ConnState
    <3>2. ConnState' = [ConnState EXCEPT ![coordFd] = "free"]
      BY <2>1, <2>4, <3>1, RegistryMove DEF SpawnRetxThreadFail
    <3>. QED
      BY <2>1, <2>2, <3>2 DEF Registry!Next, Registry!SpawnFailed
  <2>. QED
    BY <1>2, <2>3, <2>4, SMTT(30)
<1>3. ASSUME NEW s \in Socks, RetxStep(s) PROVE [Registry!Next]_ConnState
  <2>1. CASE RecvFail(s) \/ HandleRetxFail(s)
    <3>1. Registry!Remove(s)
      BY <2>1, ExitRegistry DEF RecvFail, HandleRetxFail
    <3>. QED
      BY <3>1 DEF Registry!Next
  <2>2. CASE RecvRequest(s) \/ HandleRetx(s) \/ HandleRetxEnd(s)
             \/ RetxThreadCancelled(s)
    <3>1. PICK x \in WorkerStates \ {"none"} :
              /\ worker[s] # "none"
              /\ worker' = [worker EXCEPT ![s] = x]
              /\ conns' = conns
      <4>1. CASE RecvRequest(s) \/ HandleRetx(s) \/ HandleRetxEnd(s)
        BY <4>1, LoopStepFrame DEF WorkerStates
      <4>2. CASE RetxThreadCancelled(s)
        BY <4>2, CancelFrame DEF WorkerStates
      <4>. QED
        BY <2>2, <4>1, <4>2
    <3>2. \A t \in Socks : worker'[t] = "none" <=> worker[t] = "none"
      BY <3>1 DEF ThreadInv, ThreadType
    <3>. QED
      BY <3>1, <3>2, RegistryStutter
  <2>3. CASE ExitRetxThread(s)
    <3>1. /\ s \notin conns /\ conns' = conns
          /\ worker' = [worker EXCEPT ![s] = "none"]
      BY <2>3 DEF ExitRetxThread, ThreadInv, ConnectionsServed, SpawnFresh
    <3>2. ConnState' = ConnState
      BY <3>1 DEF ConnState, ThreadInv, ThreadType
    <3>. QED
      BY <3>2
  <2>. QED
    BY <1>3, <2>1, <2>2, <2>3 DEF RetxStep
<1>4. CASE AppStep \/ TimerStep \/ Finished \/ UNCHANGED vars
           \/ AcceptFail \/ RegisterRetxThread \/ CoordinatorCancelled
  <2>1. UNCHANGED <<conns, worker>>
    <3>1. CASE Start \/ StartFail \/ SendInvalid \/ AddRetxMetadata
      BY <3>1, SMTT(30) DEF Start, StartFail, SendInvalid, AddRetxMetadata,
         TaskExit
    <3>2. CASE Multicast \/ MulticastFail \/ SetTimerParameters \/ CallStop
      BY <3>2 DEF Multicast, MulticastFail, SetTimerParameters, CallStop,
         TaskExit
    <3>3. CASE StopDisable \/ StopCancelCoordinator \/ StopShutdown
      BY <3>3 DEF StopDisable, StopCancelCoordinator, StopShutdown
    <3>4. CASE StopJoinTimer \/ StopJoinCoordinator
      BY <3>4, SMTT(30) DEF StopJoinTimer, StopJoinCoordinator
    <3>5. CASE TimerStep \/ Finished \/ UNCHANGED vars
      BY <3>5 DEF TimerStep, TimerExpire, TimerExit, Finished, vars
    <3>6. CASE AcceptFail \/ RegisterRetxThread \/ CoordinatorCancelled
      BY <3>6 DEF AcceptFail, RegisterRetxThread, CoordinatorCancelled
    <3>. QED
      BY <1>4, <3>1, <3>2, <3>3, <3>4, <3>5, <3>6, SMTT(30) DEF AppStep
  <2>. QED
    BY <2>1, RegistryStutter
<1>. QED
  BY <1>1, <1>2, <1>3, <1>4 DEF Next, CoordinatorStep

(* The coordinator and the retransmission threads implement the registry's *)
(* contract for every set of sockets and every bound: every step is an     *)
(* accept() of a socket no one holds while the coordinator holds no other, *)
(* the spawn of its thread or its release when pthread_create() fails, the *)
(* release of a served socket by its own thread's exit path, or a step the *)
(* registry does not see.                                                  *)
THEOREM RegistryRefinement == Spec => RefinesConnRegistry
<1>1. Init => Registry!Init
  BY DEF Init, Registry!Init, ConnState
<1>2. ThreadInv /\ [Next]_vars => [Registry!Next]_ConnState
  BY NextRegistry
<1>3. ThreadInv /\ [Next]_vars => ThreadInv'
  BY NextThreadInv
<1>. QED
  BY InitThreadInv, <1>1, <1>2, <1>3, PTL
  DEF Spec, RefinesConnRegistry, Registry!Spec

-----------------------------------------------------------------------------
(* What Stop() leaks.  StoppedNoSocketLeak fails (run socket_leak); the    *)
(* theorem below says how far: once Stop() has returned and no thread runs *)
(* any more, the connection list holds exactly the sockets of the threads  *)
(* cancelled in their request loop, and the open descriptors exactly those *)
(* and the sockets of the threads cancelled in their exit path's close().  *)
LeakedAreCancelled ==
    (app = "stopped" /\ \A s \in Socks : worker[s] \notin Running)
        => /\ conns = {s \in Socks : worker[s] = "dead"}
           /\ openFds = {s \in Socks : worker[s] \in {"dead", "deadclose"}}

(* pthread_join(coor_t) returns only once the coordinator has ended, and   *)
(* it never runs again.                                                    *)
StoppedCoordinatorDone == app = "stopped" => coord = "done"

LEMMA StoppedCoordinatorDoneInvariant == Spec => []StoppedCoordinatorDone
<1>1. Init => StoppedCoordinatorDone
  BY DEF Init, StoppedCoordinatorDone
<1>2. StoppedCoordinatorDone /\ [Next]_vars => StoppedCoordinatorDone'
  <2> SUFFICES ASSUME StoppedCoordinatorDone, [Next]_vars
               PROVE  StoppedCoordinatorDone'
    OBVIOUS
  <2> USE DEF StoppedCoordinatorDone
  <2>1. CASE Start \/ StartFail \/ SendInvalid \/ AddRetxMetadata
    BY <2>1, SMTT(30) DEF Start, StartFail, SendInvalid, AddRetxMetadata,
       TaskExit
  <2>2. CASE Multicast \/ MulticastFail \/ SetTimerParameters \/ CallStop
    BY <2>2 DEF Multicast, MulticastFail, SetTimerParameters, CallStop,
       TaskExit
  <2>3. CASE StopDisable \/ StopCancelCoordinator \/ StopShutdown
    BY <2>3 DEF StopDisable, StopCancelCoordinator, StopShutdown
  <2>4. CASE StopJoinTimer \/ StopJoinCoordinator
    BY <2>4, SMTT(30) DEF StopJoinTimer, StopJoinCoordinator
  <2>5. CASE TimerStep \/ Finished \/ UNCHANGED vars
    BY <2>5 DEF TimerStep, TimerExpire, TimerExit, Finished, vars
  <2>6. CASE Accept \/ AcceptFail \/ SpawnRetxThread
    BY <2>6 DEF Accept, AcceptFail, SpawnRetxThread
  <2>7. CASE SpawnRetxThreadFail \/ RegisterRetxThread \/ CoordinatorCancelled
    BY <2>7, SMTT(30) DEF SpawnRetxThreadFail, RegisterRetxThread,
       CoordinatorCancelled
  <2>8. ASSUME NEW s \in Socks, RetxStep(s) PROVE StoppedCoordinatorDone'
    <3>1. CASE RecvRequest(s) \/ HandleRetx(s) \/ HandleRetxEnd(s)
      BY <3>1, LoopStepFrame
    <3>2. CASE RetxThreadCancelled(s)
      BY <3>2, CancelFrame
    <3>3. CASE RecvFail(s) \/ HandleRetxFail(s)
      BY <3>3 DEF RecvFail, HandleRetxFail
    <3>4. CASE ExitRetxThread(s)
      BY <3>4 DEF ExitRetxThread
    <3>. QED
      BY <2>8, <3>1, <3>2, <3>3, <3>4 DEF RetxStep
  <2>. QED
    BY <2>1, <2>2, <2>3, <2>4, <2>5, <2>6, <2>7, <2>8
    DEF Next, AppStep, CoordinatorStep
<1>. QED
  BY <1>1, <1>2, PTL DEF Spec

(* Stop() leaks the sockets of the retransmission threads it cancelled and *)
(* no other, for every set of sockets and every bound: the forced unwind   *)
(* of a thread cancelled in its loop skips rmSockInList() and close(), one *)
(* cancelled in close() leaves its socket open though unregistered, and    *)
(* every other way out of a thread, and the coordinator's failure path,    *)
(* de-register and close the socket.                                       *)
THEOREM StopLeaksOnlyCancelled == Spec => []LeakedAreCancelled
<1>1. ThreadInv /\ StoppedCoordinatorDone => LeakedAreCancelled
  <2> SUFFICES ASSUME ThreadInv, StoppedCoordinatorDone, app = "stopped",
                      \A s \in Socks : worker[s] \notin Running
               PROVE  /\ conns = {s \in Socks : worker[s] = "dead"}
                      /\ openFds = {s \in Socks :
                                      worker[s] \in {"dead", "deadclose"}}
    BY DEF LeakedAreCancelled
  <2>1. coord # "spawn"
    BY DEF StoppedCoordinatorDone
  <2>. QED
    BY <2>1 DEF ThreadInv, ThreadType, ConnectionsServed, WorkerStates,
       Running
<1>2. ThreadInv /\ [Next]_vars => ThreadInv'
  BY NextThreadInv
<1>. QED
  BY InitThreadInv, <1>1, <1>2, StoppedCoordinatorDoneInvariant, PTL DEF Spec

(* What Stop() misses.  StoppedNoUncancelledThread fails (run              *)
(* register_race): shutdown() can run while the coordinator is between    *)
(* pthread_create() and retxThreadList.add().  Once Stop() has returned,   *)
(* though, every thread still running is in retxThreadList, which          *)
(* shutdown() never empties: a second Stop() cancels it.                   *)
StoppedRunningListed ==
    app = "stopped" => \A s \in Socks : worker[s] \in Running => s \in tlist

(* For every set of sockets and every bound, a retransmission thread that  *)
(* Stop() left running is listed when Stop() returns, because the          *)
(* coordinator, which alone adds threads, has ended by then.               *)
THEOREM StopMissesOnlyListed == Spec => []StoppedRunningListed
<1>1. ThreadInv /\ StoppedCoordinatorDone => StoppedRunningListed
  BY DEF ThreadInv, RunningThreadsListed, StoppedCoordinatorDone,
     StoppedRunningListed
<1>2. ThreadInv /\ [Next]_vars => ThreadInv'
  BY NextThreadInv
<1>. QED
  BY InitThreadInv, <1>1, <1>2, StoppedCoordinatorDoneInvariant, PTL DEF Spec

=============================================================================
