---------------------------- MODULE VcmtpSender ----------------------------
(***************************************************************************)
(* The sender of VCMTPv3 (src/VCMTPv3/sender/vcmtpSendv3.cpp) as the       *)
(* threads that share its state:                                           *)
(*   - the application thread: Start(), sendProduct(), Stop(), and the     *)
(*     taskExit() that an exception in sendProduct() runs;                 *)
(*   - the timer thread (timerThread): pops the product-index delay queue  *)
(*     and removes the product from the retransmission map;                *)
(*   - the coordinator thread (coordinator, StartNewRetxThread): accepts   *)
(*     receiver connections and starts one retransmission thread each;     *)
(*   - one retransmission thread per connection (RunRetxThread,            *)
(*     StartRetxThread): reads requests and answers them from the map.     *)
(* Shared state: the map prodindex -> RetxMetadata (senderMetadata), the   *)
(* delay queue, the connection list of TcpSend, the thread list of         *)
(* RetxThreads and the exception slot.  A connection, and the thread that  *)
(* serves it, are named by the socket descriptor.  Byte contents, headers  *)
(* and times are abstracted away: a request is its flag and product index. *)
(***************************************************************************)
EXTENDS Naturals, FiniteSets

CONSTANTS
    Socks,        \* descriptors acceptConn() may return for receivers
    NoSock,       \* "no descriptor"
    MaxProducts,  \* bound on the products sendProduct() inserts
    IndexWord,    \* 2^32: prodIndex is a uint32_t, kept modulo IndexWord
    InitProdIndex, \* the constructor's initProdIndex
    MaxStops      \* bound on the calls of Stop() made by the application

ASSUME SocksAssumption == NoSock \notin Socks
ASSUME MaxProductsAssumption == MaxProducts \in Nat \ {0}
ASSUME MaxStopsAssumption == MaxStops \in Nat \ {0}
ASSUME IndexWordAssumption == IndexWord \in Nat \ {0}
ASSUME InitProdIndexAssumption == InitProdIndex \in 0 .. IndexWord - 1

(* Product indices: the values of a uint32_t, scaled down to IndexWord.   *)
(* With NoWrap, the index InitProdIndex + MaxProducts is never assigned:   *)
(* it stands for every index that is not in the map (a request may name    *)
(* any index).                                                             *)
Idx == 0 .. IndexWord - 1

(* prodIndex counts up from initProdIndex without passing 2^32 - 1. *)
NoWrap == InitProdIndex + MaxProducts < IndexWord

(* The request flags RunRetxThread dispatches on. *)
Flags == {"RETX_REQ", "BOP_REQ", "EOP_REQ", "RETX_END"}
RetxFlags == Flags \ {"RETX_END"}

(* A request being handled: its flag, its product, and whether             *)
(* getMetadata() returned an entry (retxMeta != NULL).                     *)
Req == [flag : Flags, prod : Idx, found : BOOLEAN]
NoReq == [flag |-> "NONE", prod |-> 0, found |-> FALSE]

StopPhases == {"disable", "cancel", "shutdown", "jointimer", "joincoor"}
AppStates == {"init", "idle", "mcast", "timer", "stopped", "failed"} \cup StopPhases
(* A retransmission thread: none; in its request loop (recv, handle);     *)
(* on its exit path after rmSockInList() and before close() (exiting);     *)
(* ended by a cancel acting in the loop (dead) or in close() (deadclose).  *)
WorkerStates == {"none", "recv", "handle", "exiting", "dead", "deadclose"}
Running == {"recv", "handle", "exiting"}

VARIABLES
    app,          \* program point of the application thread
    prodIndex,    \* vcmtpSendv3::prodIndex
    added,        \* indices sendProduct() has inserted in the map (history)
    table,        \* the indices present in senderMetadata::indexMetaMap
    unfin,        \* unfin[p]: RetxMetadata::unfinReceivers of entry p
    snap,         \* snap[p]: the connection list copied into entry p (history)
    notified,     \* notified[p]: calls of notify_of_eop(p)
    delayQ,       \* indices pushed on timerDelayQ and not yet popped
    qDisabled,    \* timerDelayQ.disable() has been called
    popped,       \* indices the timer thread has popped (history)
    timer,        \* the timer thread: "none", "run" or "done"
    coord,        \* program point of the coordinator thread
    coordFd,      \* the descriptor the coordinator has just accepted
    coordCancel,  \* a pthread_cancel() of the coordinator is pending
    conns,        \* TcpSend's list of connected sockets
    tlist,        \* retxThreadList: the threads it holds, by their socket
    worker,       \* worker[s]: the retransmission thread serving socket s
    wreq,         \* wreq[s]: the request that thread is handling
    wcancel,      \* sockets whose thread has a pending pthread_cancel()
    errSet,       \* exceptIsSet
    stops,        \* calls of Stop() made by the application thread
    departed,     \* departed[p]: members of unfin[p] whose connection was
                  \* closed (history)
    sent,         \* products sendProduct() has completed (bound)
    joins,        \* joins[t]: pthread_join() calls on thread t (history)
    openFds       \* the receiver descriptors the process holds open

vars == <<app, prodIndex, added, table, unfin, snap, notified, delayQ,
          qDisabled, popped, timer, coord, coordFd, coordCancel, conns,
          tlist, worker, wreq, wcancel, errSet, stops, departed, sent,
          joins, openFds>>

TypeOK ==
    /\ app \in AppStates
    /\ prodIndex \in Idx
    /\ added \subseteq Idx
    /\ table \subseteq Idx
    /\ unfin \in [Idx -> SUBSET Socks]
    /\ snap \in [Idx -> SUBSET Socks]
    /\ notified \in [Idx -> Nat]
    /\ delayQ \subseteq Idx
    /\ qDisabled \in BOOLEAN
    /\ popped \subseteq Idx
    /\ timer \in {"none", "run", "done"}
    /\ coord \in {"none", "accept", "spawn", "register", "done"}
    /\ coordFd \in Socks \cup {NoSock}
    /\ coordCancel \in BOOLEAN
    /\ conns \subseteq Socks
    /\ tlist \subseteq Socks
    /\ worker \in [Socks -> WorkerStates]
    /\ wreq \in [Socks -> Req \cup {NoReq}]
    /\ wcancel \subseteq Socks
    /\ errSet \in BOOLEAN
    /\ stops \in 0 .. MaxStops
    /\ departed \in [Idx -> SUBSET Socks]
    /\ sent \in 0 .. MaxProducts
    /\ joins \in [{"timer", "coord"} -> Nat]
    /\ openFds \subseteq Socks

Init ==
    /\ app = "init"
    /\ prodIndex = InitProdIndex
    /\ added = {}
    /\ table = {}
    /\ unfin = [p \in Idx |-> {}]
    /\ snap = [p \in Idx |-> {}]
    /\ notified = [p \in Idx |-> 0]
    /\ delayQ = {}
    /\ qDisabled = FALSE
    /\ popped = {}
    /\ timer = "none"
    /\ coord = "none"
    /\ coordFd = NoSock
    /\ coordCancel = FALSE
    /\ conns = {}
    /\ tlist = {}
    /\ worker = [s \in Socks |-> "none"]
    /\ wreq = [s \in Socks |-> NoReq]
    /\ wcancel = {}
    /\ errSet = FALSE
    /\ stops = 0
    /\ departed = [p \in Idx |-> {}]
    /\ sent = 0
    /\ joins = [t \in {"timer", "coord"} |-> 0]
    /\ openFds = {}

-----------------------------------------------------------------------------
(* The retransmission map (senderMetadata).  Both writers run under its    *)
(* write lock, so each is one step; the notification that follows a TRUE   *)
(* return in the caller is part of the same step.                          *)

(* RemoveAndNotify with the bug `if (notifier) notify_of_eop(q)`: the     *)
(* timer notifies whether or not its call removed the entry.               *)
RemoveAndNotifyUnchecked(q) ==
    /\ table' = table \ {q}
    /\ unfin' = [unfin EXCEPT ![q] = {}]
    /\ notified' = [notified EXCEPT ![q] = @ + 1]

(* rmRetxMetadata(q) followed by `if (notifier && isRemoved)               *)
(* notify_of_eop(q)` in timerThread.                                       *)
RemoveAndNotify(q) ==
    /\ table' = table \ {q}
    /\ unfin' = [unfin EXCEPT ![q] = {}]
    /\ notified' = IF q \in table
                   THEN [notified EXCEPT ![q] = @ + 1]
                   ELSE notified

(* clearUnfinishedSet(p, s) followed by notify_of_eop(p) when it returns   *)
(* TRUE in handleRetxEnd: s leaves the unfinished set of entry p, and the  *)
(* entry is removed when that set is left empty.                           *)
ClearUnfinishedSet(p, s) ==
    /\ unfin' = [unfin EXCEPT ![p] = @ \ {s}]
    /\ IF p \in table /\ unfin'[p] = {}
       THEN /\ table' = table \ {p}
            /\ notified' = [notified EXCEPT ![p] = @ + 1]
       ELSE UNCHANGED <<table, notified>>

(* History: close() of socket s ends the connection that is a member of   *)
(* the unfinished sets containing s; the descriptor may be reused by a     *)
(* later accept().                                                         *)
RecordClose(s) ==
    departed' = [p \in Idx |-> departed[p] \cup ({s} \cap unfin[p])]

(* RetxThreads::add(thread) and RetxThreads::remove(thread), each under   *)
(* the list's mutex.  A thread is named by the socket it serves.           *)
RetxThreadsAdd(t) == tlist' = tlist \cup {t}

(* RetxThreads::remove with the bug of a predicate that negates            *)
(* pthread_equal(): remove_if() drops every other thread instead.          *)
RetxThreadsRemoveNegated(t) == tlist' = tlist \cap {t}

RetxThreadsRemove(t) == tlist' = tlist \ {t}

-----------------------------------------------------------------------------
(* The application thread. *)

(* Start(): both sockets are initialised, then the timer and the          *)
(* coordinator threads are created.                                        *)
Start ==
    /\ app = "init"
    /\ app' = "idle"
    /\ timer' = "run"
    /\ coord' = "accept"
    /\ UNCHANGED <<prodIndex, added, table, unfin, snap, notified, delayQ,
                   qDisabled, popped, coordFd, coordCancel, conns, tlist,
                   worker, wreq, wcancel, errSet, stops,
                   departed, sent, joins, openFds>>

(* Start() throws: a socket Init() or a pthread_create() failed; a timer   *)
(* thread already created is cancelled in its blocking pop().  The caller  *)
(* must not call Stop() then.                                              *)
StartFail ==
    /\ app = "init"
    /\ app' = "failed"
    /\ UNCHANGED <<prodIndex, added, table, unfin, snap, notified, delayQ,
                   qDisabled, popped, timer, coord, coordFd, coordCancel,
                   conns, tlist, worker, wreq, wcancel, errSet, stops,
                   departed, sent, joins, openFds>>

(* taskExit(e) on the application thread: the exception is recorded if    *)
(* none is, then Stop() runs.                                              *)
TaskExit ==
    /\ errSet' = TRUE
    /\ app' = "disable"
    /\ stops' = stops + 1

(* sendProduct() rejects its arguments (data == NULL, dataSize or          *)
(* metaSize out of range): the invalid_argument goes through taskExit().   *)
SendInvalid ==
    /\ app = "idle"
    /\ TaskExit
    /\ UNCHANGED <<prodIndex, added, table, unfin, snap, notified, delayQ,
                   qDisabled, popped, timer, coord, coordFd, coordCancel,
                   conns, tlist, worker, wreq, wcancel,
                   departed, sent, joins, openFds>>

(* addRetxMetadata(): a new entry for prodIndex whose unfinished set is    *)
(* the current TcpSend connection list, inserted in the map.               *)
AddRetxMetadata ==
    /\ app = "idle"
    /\ sent < MaxProducts
    /\ table' = table \cup {prodIndex}
    /\ unfin' = [unfin EXCEPT ![prodIndex] = conns]
    /\ snap' = [snap EXCEPT ![prodIndex] = conns]
    /\ departed' = [departed EXCEPT ![prodIndex] = {}]
    /\ added' = added \cup {prodIndex}
    /\ app' = "mcast"
    /\ UNCHANGED <<prodIndex, notified, delayQ, qDisabled, popped, timer,
                   coord, coordFd, coordCancel, conns, tlist, worker, wreq,
                   wcancel, errSet, stops, sent, joins, openFds>>

(* SendBOPMessage(), sendData() and sendEOPMessage() multicast the        *)
(* product; they touch no shared state.                                    *)
Multicast ==
    /\ app = "mcast"
    /\ app' = "timer"
    /\ UNCHANGED <<prodIndex, added, table, unfin, snap, notified, delayQ,
                   qDisabled, popped, timer, coord, coordFd, coordCancel,
                   conns, tlist, worker, wreq, wcancel, errSet, stops,
                   departed, sent, joins, openFds>>

(* MulticastFail with the bug of a handler that only rethrows, without    *)
(* taskExit(): the application thread goes on sending.                     *)
MulticastFailRethrowOnly ==
    /\ app = "mcast"
    /\ app' = "idle"
    /\ UNCHANGED <<prodIndex, added, table, unfin, snap, notified, delayQ,
                   qDisabled, popped, timer, coord, coordFd, coordCancel,
                   conns, tlist, worker, wreq, wcancel, errSet, stops,
                   departed, sent, joins, openFds>>

(* A UDP send fails: sendProduct()'s handler calls taskExit().  The entry  *)
(* stays in the map and is never pushed on the delay queue.                *)
MulticastFail ==
    /\ app = "mcast"
    /\ TaskExit
    /\ UNCHANGED <<prodIndex, added, table, unfin, snap, notified, delayQ,
                   qDisabled, popped, timer, coord, coordFd, coordCancel,
                   conns, tlist, worker, wreq, wcancel,
                   departed, sent, joins, openFds>>

(* SetTimerParameters with the bug of a `return prodIndex` that forgets    *)
(* the increment: the next product reuses the index.                       *)
SetTimerParametersNoIncrement ==
    /\ app = "timer"
    /\ delayQ' = delayQ \cup {prodIndex}
    /\ sent' = sent + 1
    /\ app' = "idle"
    /\ UNCHANGED <<prodIndex, added, table, unfin, snap, notified, qDisabled,
                   popped, timer, coord, coordFd, coordCancel, conns, tlist,
                   worker, wreq, wcancel, errSet, stops, departed, joins,
                   openFds>>

(* setTimerParameters(senderProdMeta) through the pointer addRetxMetadata  *)
(* returned, timerDelayQ.push(prodIndex, ...), and `return prodIndex++`,   *)
(* which wraps at 2^32.                                                    *)
SetTimerParameters ==
    /\ app = "timer"
    /\ delayQ' = delayQ \cup {prodIndex}
    /\ prodIndex' = (prodIndex + 1) % IndexWord
    /\ sent' = sent + 1
    /\ app' = "idle"
    /\ UNCHANGED <<added, table, unfin, snap, notified, qDisabled, popped,
                   timer, coord, coordFd, coordCancel, conns, tlist, worker,
                   wreq, wcancel, errSet, stops, departed, joins, openFds>>

(* The application calls Stop(): after Start() succeeded, and again after  *)
(* a Stop() returned (the documentation asks for a Stop() after a          *)
(* successful Start(), including when sendProduct() already ran one).      *)
CallStop ==
    /\ \/ app = "idle"
       \/ app = "stopped" /\ stops < MaxStops
    /\ app' = "disable"
    /\ stops' = stops + 1
    /\ UNCHANGED <<prodIndex, added, table, unfin, snap, notified, delayQ,
                   qDisabled, popped, timer, coord, coordFd, coordCancel,
                   conns, tlist, worker, wreq, wcancel, errSet,
                   departed, sent, joins, openFds>>

(* StopDisable with the bug of a Stop() that forgets timerDelayQ.disable(). *)
StopDisableForgotten ==
    /\ app = "disable"
    /\ app' = "cancel"
    /\ UNCHANGED <<prodIndex, added, table, unfin, snap, notified, delayQ,
                   qDisabled, popped, timer, coord, coordFd, coordCancel,
                   conns, tlist, worker, wreq, wcancel, errSet, stops,
                   departed, sent, joins, openFds>>

(* Stop(), step 1: timerDelayQ.disable(). *)
StopDisable ==
    /\ app = "disable"
    /\ qDisabled' = TRUE
    /\ app' = "cancel"
    /\ UNCHANGED <<prodIndex, added, table, unfin, snap, notified, delayQ,
                   popped, timer, coord, coordFd, coordCancel, conns, tlist,
                   worker, wreq, wcancel, errSet, stops,
                   departed, sent, joins, openFds>>

(* Stop(), step 2: pthread_cancel(coor_t). *)
StopCancelCoordinator ==
    /\ app = "cancel"
    /\ coordCancel' = TRUE
    /\ app' = "shutdown"
    /\ UNCHANGED <<prodIndex, added, table, unfin, snap, notified, delayQ,
                   qDisabled, popped, timer, coord, coordFd, conns, tlist,
                   worker, wreq, wcancel, errSet, stops,
                   departed, sent, joins, openFds>>

(* Stop(), step 3: retxThreadList.shutdown() cancels every listed thread;  *)
(* its `(void)threads.empty()` only tests the list, which keeps them all.  *)
StopShutdown ==
    /\ app = "shutdown"
    /\ wcancel' = wcancel \cup tlist
    /\ app' = "jointimer"
    /\ UNCHANGED <<prodIndex, added, table, unfin, snap, notified, delayQ,
                   qDisabled, popped, timer, coord, coordFd, coordCancel,
                   conns, tlist, worker, wreq, errSet, stops,
                   departed, sent, joins, openFds>>

(* Stop(), step 4: pthread_join(timer_t) waits for the timer thread.  A   *)
(* second Stop() joins it again, which POSIX leaves undefined; the model   *)
(* takes the outcome in which the call returns, and counts the joins.      *)
StopJoinTimer ==
    /\ app = "jointimer"
    /\ timer = "done"
    /\ joins' = [joins EXCEPT !["timer"] = @ + 1]
    /\ app' = "joincoor"
    /\ UNCHANGED <<prodIndex, added, table, unfin, snap, notified, delayQ,
                   qDisabled, popped, timer, coord, coordFd, coordCancel,
                   conns, tlist, worker, wreq, wcancel, errSet, stops,
                   departed, sent, openFds>>

(* Stop(), step 5: pthread_join(coor_t), then `throw except` if it is set; *)
(* either way Stop() is over for the application.                          *)
StopJoinCoordinator ==
    /\ app = "joincoor"
    /\ coord = "done"
    /\ joins' = [joins EXCEPT !["coord"] = @ + 1]
    /\ app' = "stopped"
    /\ UNCHANGED <<prodIndex, added, table, unfin, snap, notified, delayQ,
                   qDisabled, popped, timer, coord, coordFd, coordCancel,
                   conns, tlist, worker, wreq, wcancel, errSet, stops,
                   departed, sent, openFds>>

-----------------------------------------------------------------------------
(* The timer thread (timerThread). *)

(* pop() returns a product whose delay has expired, in any order since the *)
(* delays differ.  The `uint32_t prodindex` declared inside the try block  *)
(* shadows the one rmRetxMetadata() and notify_of_eop() read, which is     *)
(* never initialised: the index removed is any value q.                    *)
TimerExpire ==
    /\ timer = "run"
    /\ ~qDisabled
    /\ \E p \in delayQ :
          /\ delayQ' = delayQ \ {p}
          /\ popped' = popped \cup {p}
    /\ \E q \in Idx : RemoveAndNotify(q)
    /\ UNCHANGED <<app, prodIndex, added, snap, qDisabled, timer, coord,
                   coordFd, coordCancel, conns, tlist, worker, wreq, wcancel,
                   errSet, stops,
                   departed, sent, joins, openFds>>

(* pop() throws once the queue is disabled: timerThread returns. *)
TimerExit ==
    /\ timer = "run"
    /\ qDisabled
    /\ timer' = "done"
    /\ UNCHANGED <<app, prodIndex, added, table, unfin, snap, notified,
                   delayQ, qDisabled, popped, coord, coordFd, coordCancel,
                   conns, tlist, worker, wreq, wcancel, errSet, stops,
                   departed, sent, joins, openFds>>

-----------------------------------------------------------------------------
(* The coordinator thread (coordinator, StartNewRetxThread). *)

(* acceptConn() returns a new connection, registered in the connection     *)
(* list; cancellation is then disabled.  acceptConn() is a cancellation    *)
(* point, so it returns only while no cancel is pending.                   *)
Accept ==
    /\ coord = "accept"
    /\ ~coordCancel
    /\ \E s \in Socks \ openFds :
          /\ conns' = conns \cup {s}
          /\ openFds' = openFds \cup {s}
          /\ coordFd' = s
    /\ coord' = "spawn"
    /\ UNCHANGED <<app, prodIndex, added, table, unfin, snap, notified,
                   delayQ, qDisabled, popped, timer, coordCancel, tlist,
                   worker, wreq, wcancel, errSet, stops,
                   departed, sent, joins>>

(* acceptConn() throws: taskExit(e) on the coordinator sets the exception  *)
(* and runs Stop(), which disables the queue, cancels the coordinator      *)
(* itself and the listed threads, and is cancelled at its first            *)
(* cancellation point, pthread_join(timer_t).                              *)
AcceptFail ==
    /\ coord = "accept"
    /\ ~coordCancel
    /\ errSet' = TRUE
    /\ qDisabled' = TRUE
    /\ wcancel' = wcancel \cup tlist
    /\ coord' = "done"
    /\ UNCHANGED <<app, prodIndex, added, table, unfin, snap, notified,
                   delayQ, popped, timer, coordFd, coordCancel, conns, tlist,
                   worker, wreq, stops,
                   departed, sent, joins, openFds>>

(* StartNewRetxThread(): pthread_create() of the thread serving coordFd. *)
SpawnRetxThread ==
    /\ coord = "spawn"
    /\ worker' = [worker EXCEPT ![coordFd] = "recv"]
    /\ coord' = "register"
    /\ UNCHANGED <<app, prodIndex, added, table, unfin, snap, notified,
                   delayQ, qDisabled, popped, timer, coordFd, coordCancel,
                   conns, tlist, wreq, wcancel, errSet, stops,
                   departed, sent, joins, openFds>>

(* SpawnRetxThreadFail with the bug of a handler that de-registers the    *)
(* socket but forgets close(newtcpsockfd).                                 *)
SpawnRetxThreadFailNoClose ==
    /\ coord = "spawn"
    /\ conns' = conns \ {coordFd}
    /\ coord' = "accept"
    /\ UNCHANGED <<app, prodIndex, added, table, unfin, snap, notified,
                   delayQ, qDisabled, popped, timer, coordFd, coordCancel,
                   tlist, worker, wreq, wcancel, errSet, stops, departed,
                   sent, joins, openFds>>

(* pthread_create() fails: rmSockInList() and close() of the socket. *)
SpawnRetxThreadFail ==
    /\ coord = "spawn"
    /\ conns' = conns \ {coordFd}
    /\ openFds' = openFds \ {coordFd}
    /\ RecordClose(coordFd)
    /\ coord' = "accept"
    /\ UNCHANGED <<app, prodIndex, added, table, unfin, snap, notified,
                   delayQ, qDisabled, popped, timer, coordFd, coordCancel,
                   tlist, worker, wreq, wcancel, errSet, stops, sent, joins>>

(* retxThreadList.add(t), then cancellation is enabled again (not a        *)
(* cancellation point: a pending cancel waits for acceptConn()).           *)
RegisterRetxThread ==
    /\ coord = "register"
    /\ RetxThreadsAdd(coordFd)
    /\ coord' = "accept"
    /\ UNCHANGED <<app, prodIndex, added, table, unfin, snap, notified,
                   delayQ, qDisabled, popped, timer, coordFd, coordCancel,
                   conns, worker, wreq, wcancel, errSet, stops,
                   departed, sent, joins, openFds>>

(* A pending cancel acts in acceptConn(): the coordinator ends. *)
CoordinatorCancelled ==
    /\ coord = "accept"
    /\ coordCancel
    /\ coord' = "done"
    /\ UNCHANGED <<app, prodIndex, added, table, unfin, snap, notified,
                   delayQ, qDisabled, popped, timer, coordFd, coordCancel,
                   conns, tlist, worker, wreq, wcancel, errSet, stops,
                   departed, sent, joins, openFds>>

-----------------------------------------------------------------------------
(* The retransmission threads (RunRetxThread, StartRetxThread). *)

(* ExitRmSock with the bug of a handler that forgets                      *)
(* tcpsend->rmSockInList() and goes on to close().                         *)
ExitRmSockForgotten(s) ==
    /\ UNCHANGED conns
    /\ worker' = [worker EXCEPT ![s] = "exiting"]
    /\ wreq' = [wreq EXCEPT ![s] = NoReq]

(* StartRetxThread's handler catches the exception and starts its exit     *)
(* path: rmSockInList() (under TcpSend's mutex, not a cancellation point). *)
ExitRmSock(s) ==
    /\ conns' = conns \ {s}
    /\ worker' = [worker EXCEPT ![s] = "exiting"]
    /\ wreq' = [wreq EXCEPT ![s] = NoReq]

(* parseHeader() reads a request for any flag and product, then            *)
(* getMetadata(prodindex) returns the entry or NULL; the map's read lock   *)
(* is released on return.  The blocking read is a cancellation point.     *)
RecvRequest(s) ==
    /\ worker[s] = "recv"
    /\ s \notin wcancel
    /\ \E f \in Flags, p \in Idx :
          wreq' = [wreq EXCEPT ![s] = [flag |-> f, prod |-> p,
                                       found |-> p \in table]]
    /\ worker' = [worker EXCEPT ![s] = "handle"]
    /\ UNCHANGED <<app, prodIndex, added, table, unfin, snap, notified,
                   delayQ, qDisabled, popped, timer, coord, coordFd,
                   coordCancel, conns, tlist, wcancel, errSet, stops,
                   departed, sent, joins, openFds>>

(* parseHeader() fails (the receiver closed the connection): the thread   *)
(* throws, and its handler starts the exit path.                           *)
RecvFail(s) ==
    /\ worker[s] = "recv"
    /\ s \notin wcancel
    /\ ExitRmSock(s)
    /\ UNCHANGED <<app, prodIndex, added, table, unfin, snap, notified,
                   delayQ, qDisabled, popped, timer, coord, coordFd,
                   coordCancel, tlist, wcancel, errSet, stops, departed,
                   sent, joins, openFds>>

(* handleRetxReq, handleBopReq, handleEopReq: retransmit(), retransBOP()   *)
(* or retransEOP() through retxMeta when it was found, rejRetxReq()        *)
(* otherwise.  tcpsend->send() is a cancellation point.                   *)
HandleRetx(s) ==
    /\ worker[s] = "handle"
    /\ wreq[s].flag \in RetxFlags
    /\ s \notin wcancel
    /\ worker' = [worker EXCEPT ![s] = "recv"]
    /\ wreq' = [wreq EXCEPT ![s] = NoReq]
    /\ UNCHANGED <<app, prodIndex, added, table, unfin, snap, notified,
                   delayQ, qDisabled, popped, timer, coord, coordFd,
                   coordCancel, conns, tlist, wcancel, errSet, stops,
                   departed, sent, joins, openFds>>

(* The send of a retransmission fails and throws: the thread starts its   *)
(* exit path.                                                              *)
(* (rejRetxReq() ignores the result of its send.)                          *)
HandleRetxFail(s) ==
    /\ worker[s] = "handle"
    /\ wreq[s].flag \in RetxFlags
    /\ wreq[s].found
    /\ s \notin wcancel
    /\ ExitRmSock(s)
    /\ UNCHANGED <<app, prodIndex, added, table, unfin, snap, notified,
                   delayQ, qDisabled, popped, timer, coord, coordFd,
                   coordCancel, tlist, wcancel, errSet, stops, departed,
                   sent, joins, openFds>>

(* handleRetxEnd: when the entry was found, clearUnfinishedSet() and the   *)
(* notification if it removed the entry.  No cancellation point.          *)
HandleRetxEnd(s) ==
    /\ worker[s] = "handle"
    /\ wreq[s].flag = "RETX_END"
    /\ IF wreq[s].found
       THEN ClearUnfinishedSet(wreq[s].prod, s)
       ELSE UNCHANGED <<table, unfin, notified>>
    /\ worker' = [worker EXCEPT ![s] = "recv"]
    /\ wreq' = [wreq EXCEPT ![s] = NoReq]
    /\ UNCHANGED <<app, prodIndex, added, snap, delayQ, qDisabled, popped,
                   timer, coord, coordFd, coordCancel, conns, tlist, wcancel,
                   errSet, stops,
                   departed, sent, joins, openFds>>

(* The rest of the exit path: close() of the socket,                      *)
(* retxThreadList.remove(self) and pthread_exit().  close() is a           *)
(* cancellation point, so it runs only while no cancel is pending.         *)
ExitRetxThread(s) ==
    /\ worker[s] = "exiting"
    /\ s \notin wcancel
    /\ openFds' = openFds \ {s}
    /\ RecordClose(s)
    /\ RetxThreadsRemove(s)
    /\ worker' = [worker EXCEPT ![s] = "none"]
    /\ UNCHANGED <<app, prodIndex, added, table, unfin, snap, notified,
                   delayQ, qDisabled, popped, timer, coord, coordFd,
                   coordCancel, conns, wreq, wcancel, errSet, stops, sent,
                   joins>>

(* A pending cancel acts in the blocking read, in a send, or on entry to   *)
(* the exit path's close().  The handler catches std::exception only, so   *)
(* the forced unwind skips the rest of the thread: cancelled in its loop,  *)
(* the socket stays open and registered; cancelled in close(), it stays    *)
(* open, off the list.  Either way the thread stays listed.                *)
RetxThreadCancelled(s) ==
    /\ s \in wcancel
    /\ \/ /\ \/ worker[s] = "recv"
             \/ worker[s] = "handle" /\ wreq[s].flag \in RetxFlags
          /\ worker' = [worker EXCEPT ![s] = "dead"]
       \/ /\ worker[s] = "exiting"
          /\ worker' = [worker EXCEPT ![s] = "deadclose"]
    /\ wreq' = [wreq EXCEPT ![s] = NoReq]
    /\ UNCHANGED <<app, prodIndex, added, table, unfin, snap, notified,
                   delayQ, qDisabled, popped, timer, coord, coordFd,
                   coordCancel, conns, tlist, wcancel, errSet, stops,
                   departed, sent, joins, openFds>>

-----------------------------------------------------------------------------
(* Once the application is done with the sender nothing is required to     *)
(* happen; this stutter keeps a finished run from counting as a deadlock.  *)
Finished ==
    /\ app \in {"stopped", "failed"}
    /\ UNCHANGED vars

AppStep ==
    \/ Start \/ StartFail \/ SendInvalid \/ AddRetxMetadata \/ Multicast
    \/ MulticastFail \/ SetTimerParameters \/ CallStop \/ StopDisable
    \/ StopCancelCoordinator \/ StopShutdown \/ StopJoinTimer
    \/ StopJoinCoordinator

TimerStep == TimerExpire \/ TimerExit

CoordinatorStep ==
    \/ Accept \/ AcceptFail \/ SpawnRetxThread \/ SpawnRetxThreadFail
    \/ RegisterRetxThread \/ CoordinatorCancelled

RetxStep(s) ==
    \/ RecvRequest(s) \/ RecvFail(s) \/ HandleRetx(s) \/ HandleRetxFail(s)
    \/ HandleRetxEnd(s) \/ ExitRetxThread(s) \/ RetxThreadCancelled(s)

Next ==
    \/ AppStep
    \/ TimerStep
    \/ CoordinatorStep
    \/ \E s \in Socks : RetxStep(s)
    \/ Finished

(* The threads are scheduled by the kernel: a thread that can go on        *)
(* eventually does.  What the user and the receivers do (calling           *)
(* sendProduct() or Stop(), connecting, sending requests, closing) is not  *)
(* forced.                                                                 *)
Fairness ==
    /\ WF_vars(Multicast \/ MulticastFail)
    /\ WF_vars(SetTimerParameters)
    /\ WF_vars(StopDisable)
    /\ WF_vars(StopCancelCoordinator)
    /\ WF_vars(StopShutdown)
    /\ WF_vars(StopJoinTimer)
    /\ WF_vars(StopJoinCoordinator)
    /\ WF_vars(TimerStep)
    /\ WF_vars(SpawnRetxThread \/ SpawnRetxThreadFail)
    /\ WF_vars(RegisterRetxThread)
    /\ WF_vars(CoordinatorCancelled)
    /\ \A s \in Socks :
          WF_vars(HandleRetx(s) \/ HandleRetxFail(s) \/ HandleRetxEnd(s)
                  \/ ExitRetxThread(s) \/ RetxThreadCancelled(s))

Spec == Init /\ [][Next]_vars /\ Fairness

-----------------------------------------------------------------------------
(* Properties. *)

(* notify_of_eop(p) is called exactly once for every product that has left *)
(* the map and never for any other: the timer's rmRetxMetadata() and the   *)
(* last receiver's clearUnfinishedSet() race to remove the entry, and only *)
(* the caller whose call removed it may notify (spec section 3, inv. 3).   *)
NotifyExactlyOnRemoval ==
    \A p \in Idx :
        notified[p] = IF p \in added \ table THEN 1 ELSE 0

(* addRetxMetadata() only ever inserts an entry under an index that has    *)
(* never been in the map: product indices are not reused, so no live or    *)
(* retired entry is overwritten (spec section 3, inv. 4).                  *)
FreshProdIndex ==
    [][\A p \in table' \ table : p \notin added]_vars

(* The refinement mapping to the table's contract: an index is live while *)
(* it is in the map, gone once it was inserted and has left it.            *)
Status ==
    [p \in Idx |-> IF p \in table THEN "live"
                   ELSE IF p \in added THEN "gone" ELSE "unused"]

Table == INSTANCE RetxTable WITH Prods <- Idx, status <- Status,
                                 notified <- notified

(* The sender's threads together implement the table's contract: every    *)
(* step of addRetxMetadata(), of the timer's rmRetxMetadata() and of the   *)
(* last RETX_END's clearUnfinishedSet(), with the notification its caller  *)
(* makes, is an insertion under an unused index, a removal of a live entry *)
(* with its one notification, or changes nothing the contract sees.        *)
RefinesRetxTable == Table!Spec

(* Once Stop() has begun it returns: disabling the queue ends the timer    *)
(* thread and the cancel ends the coordinator in acceptConn(), so neither  *)
(* pthread_join() waits forever.                                           *)
StopTerminates ==
    (app \in StopPhases) ~> (app = "stopped")

(* The timer removes the product it popped: a product whose retransmission *)
(* period has expired is no longer in the map (spec section 4.7).          *)
TimerRemovesPopped ==
    \A p \in popped : p \notin table

(* No thread uses a RetxMetadata after it has been removed (and deleted):  *)
(* sendProduct() calls setTimerParameters() through the pointer            *)
(* addRetxMetadata() returned, and a retransmission thread calls           *)
(* retransmit() or retransBOP() through the pointer getMetadata()          *)
(* returned; the spec requires the entry to be used under the map's lock.  *)
NoUseAfterFree ==
    /\ app = "timer" => prodIndex \in table
    /\ \A s \in Socks :
          (/\ worker[s] = "handle"
           /\ wreq[s].found
           /\ wreq[s].flag \in {"RETX_REQ", "BOP_REQ"})
             => wreq[s].prod \in table

(* retxThreadList holds only threads that are still running: shutdown()    *)
(* "cancels all the threads in list and empties the list", and a thread    *)
(* removes itself when it exits, so no later shutdown() cancels a thread   *)
(* that no longer exists.                                                  *)
ListedThreadsRunning ==
    \A s \in tlist : worker[s] \in Running

(* When Stop() returns, every retransmission thread still running has been *)
(* cancelled (spec section 4.9: stop cancels every worker).                *)
StoppedNoUncancelledThread ==
    app = "stopped" => \A s \in Socks : worker[s] \in Running => s \in wcancel

(* When Stop() has returned and no retransmission thread runs any more, no *)
(* receiver socket is left registered or open (spec section 5: every       *)
(* worker on cancellation removes itself from the connection list; S6: no  *)
(* socket leaks).                                                          *)
StoppedNoSocketLeak ==
    (app = "stopped" /\ \A s \in Socks : worker[s] \notin Running)
        => conns = {} /\ openFds = {}

(* Only a receiver in a product's unfinished set at multicast time is      *)
(* served a retransmission of it; one that connected later gets RETX_REJ   *)
(* (spec section 9, receiver-set snapshot).                                *)
LateJoinerRejected ==
    \A s \in Socks :
        (worker[s] = "handle" /\ wreq[s].found /\ wreq[s].flag \in RetxFlags)
            => s \in snap[wreq[s].prod]

(* A RETX_END clears a product's unfinished-set membership only when it   *)
(* comes from the connection that was in the snapshot.  The set holds      *)
(* descriptors: once that receiver's connection is closed, accept() may    *)
(* return the same number to a new receiver, whose RETX_END then counts as *)
(* the old receiver's completion (spec glossary: a receiver-id identifies   *)
(* one connection).                                                        *)
EndFromSnapshotConnection ==
    \A s \in Socks :
        (/\ worker[s] = "handle"
         /\ wreq[s].flag = "RETX_END"
         /\ wreq[s].found
         /\ s \in unfin[wreq[s].prod])
            => s \notin departed[wreq[s].prod]

(* pthread_join() is called at most once on each of the timer and the      *)
(* coordinator threads: POSIX leaves a join of a thread that was already    *)
(* joined undefined.  Stop() joins both; the application calls Stop() after *)
(* a successful Start() even when a failing sendProduct() has run one.     *)
JoinedAtMostOnce == \A t \in DOMAIN joins : joins[t] <= 1

(* TcpSend's connection list holds exactly the sockets whose thread is in *)
(* its request loop or was cancelled there, and the one the coordinator   *)
(* has accepted and not yet handed to a thread; the process holds open    *)
(* exactly those and the sockets of threads that have left the list and   *)
(* not yet closed (still exiting, or cancelled in close()).  So the       *)
(* accept path, the pthread_create() failure path and every exit path     *)
(* both de-register and close, no descriptor is closed under a thread that *)
(* still serves it, and no two threads serve one socket.                   *)
ConnectionsServed ==
    /\ conns = {s \in Socks : worker[s] \in {"recv", "handle", "dead"}}
                 \cup (IF coord = "spawn" THEN {coordFd} ELSE {})
    /\ openFds = conns \cup {s \in Socks : worker[s] \in {"exiting", "deadclose"}}

(* Every running retransmission thread is in retxThreadList, but for the   *)
(* one the coordinator has created and not yet added: add() runs after     *)
(* pthread_create(), and a thread removes itself only on its way out.      *)
(* Stop()'s shutdown() therefore cancels every running thread but that     *)
(* one.                                                                    *)
RunningThreadsListed ==
    \A s \in Socks :
        worker[s] \in Running => s \in tlist \/ (coord = "register" /\ coordFd = s)


(* The refinement mapping to the acceptor's registry contract: a socket is *)
(* free while it is not in the connection list (a thread's close() after  *)
(* its rmSockInList() is a stutter), accepted while it is and no          *)
(* retransmission thread serves it, served once one does (running or      *)
(* cancelled).                                                             *)
ConnState ==
    [s \in Socks |-> IF s \notin conns THEN "free"
                     ELSE IF worker[s] = "none" THEN "accepted" ELSE "served"]

Registry == INSTANCE ConnRegistry WITH Conns <- Socks, state <- ConnState

(* The coordinator, the pthread_create() failure path and the threads'     *)
(* exit paths together implement the registry's contract: accept() takes a *)
(* descriptor no one holds while the coordinator holds no other, the       *)
(* coordinator then spawns its thread or de-registers and closes it, and a *)
(* served socket leaves the list only by the exit path of its own thread   *)
(* (spec sections 4.3, 4.6 and 4.8).                                        *)
RefinesConnRegistry == Registry!Spec

=============================================================================
