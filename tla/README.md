# TLA+ models of the VCMTPv3 sender

This directory holds TLA+ models of the sender side of VCMTPv3
(`src/VCMTPv3/sender/`), the TLC configurations that model-check them, and
TLAPS proofs about them.  Every definition is translated from the C++ source;
`PROJECT.json` maps each one to the lines it models.

## The system

The sender (`vcmtpSendv3`) multicasts each product over UDP and serves
retransmissions over one TCP connection per receiver.  It runs these threads:

* **The application thread** calls `Start()`, `sendProduct()` and `Stop()`.
  * `sendProduct()` validates its arguments and inserts a retransmission
    entry (`addRetxMetadata`).
  * The entry's unfinished set is a snapshot of the connection list.
  * It then multicasts BOP, the data and EOP, sets the entry's timeout,
    pushes the index on the delay queue and returns `prodIndex++`.
  * Any exception goes through `taskExit()`: it records the exception and
    runs `Stop()`.
* **The timer thread** pops expired indices from the delay queue.  It calls
  `rmRetxMetadata()` on each, and notifies the application if that call
  removed the entry.  It exits when the queue is disabled.
* **The coordinator (acceptor)** loops on `acceptConn()`.  With
  cancellation disabled, it creates a detached worker thread for the new
  socket and adds the worker to `retxThreadList`.
* **One worker per connection** loops over `parseHeader()` and
  `getMetadata()`, then one of four handlers:
  * RETX_REQ, BOP_REQ and EOP_REQ retransmit if the entry exists, and reject
    otherwise.
  * RETX_END calls `clearUnfinishedSet()` and notifies the application when
    that call removed the entry.
  * On an exception the worker removes its socket from the connection list,
    closes it, removes itself from the thread list and exits.

`Stop()` runs these steps in order:

1. disables the delay queue;
2. cancels the coordinator;
3. cancels every listed worker (`RetxThreads::shutdown`);
4. joins the timer;
5. joins the coordinator;
6. rethrows a recorded exception.

The shared state is:

* the retransmission map (`senderMetadata`, under a readers-writer lock);
* the delay queue;
* the connection list (`TcpSend`);
* the thread list (`RetxThreads`);
* the exception slot.

## Inventory

| Part (spec.md) | Source | Module | Status |
|---|---|---|---|
| C1 wire framing | `sendData`, `retransmit` | `VcmtpFraming`, `VcmtpRetxRange` | partly: how products become frames. Header byte order is in `vcmtpBase.h`, which is not in `src/`. |
| C2 datagram sink | `UdpSend.h` | none | I/O only. Its failure is the action `MulticastFail`. |
| C3 stream acceptor | `TcpSend.cpp` | `VcmtpSender`, `ConnRegistry` | partly: the connection list `conns`, with its contract in `ConnRegistry`. The `TcpSend.cpp` in `src/` is an older version of the class than the one `vcmtpSendv3.cpp` calls, so the model follows the calls. |
| C4 retransmission table | `senderMetadata.h` and its callers | `VcmtpSender`, `RetxTable` | `table`, `unfin`, `RemoveAndNotify`, `ClearUnfinishedSet`; the contract in `RetxTable` |
| C5 delay queue | the callers of `timerDelayQ` | `VcmtpSender` | `delayQ`, `qDisabled` |
| C6 worker | `RunRetxThread`, `StartRetxThread`, the handlers | `VcmtpSender` | modelled |
| worker list | `RetxThreads.cpp` | `VcmtpSender` | `tlist`, `RetxThreadsAdd`, `RetxThreadsRemove`, `StopShutdown` |
| C7 timer | `timerThread` | `VcmtpSender` | modelled |
| C8 acceptor | `coordinator`, `StartNewRetxThread` | `VcmtpSender`, `ConnRegistry` | modelled |
| C9 façade | `Start`, `sendProduct`, `Stop`, `taskExit` | `VcmtpSender` | partly: `SetLinkSpeed`, `SetDefaultIF`, `getTcpPortNum` and logging are not modelled. Nothing modelled reads them. |

### VcmtpSender: state and actions

The constants are:

* `Socks`, the descriptors `accept()` may return, and `NoSock`;
* `IndexWord`, the 2^32 values of the uint32_t `prodIndex`, scaled down;
  `SetTimerParameters` increments `prodIndex` modulo `IndexWord`;
* `InitProdIndex`, the `initProdIndex` the constructors take;
* `MaxProducts` and `MaxStops`, bounds on the products sent and on the
  calls of `Stop()`.

Each thread is a program counter plus the shared data it touches:

* The application is `app`:
  * `init` and `idle`: before and between calls;
  * `mcast`: multicasting;
  * `timer`: `setTimerParameters` and the push;
  * the five phases of `Stop()`;
  * `stopped` and `failed`: the application is done with the sender.
* The timer is `timer`, and the coordinator is `coord` (with `coordFd`, the
  socket it holds, and `coordCancel`, a pending cancel).
* Each socket's worker is `worker[s]`: `none`; `recv` or `handle` in its
  request loop; `exiting` on its exit path, after `rmSockInList()` and
  before `close()`; `dead` when a cancel ended it in its loop, and
  `deadclose` when a cancel ended it in that `close()`.  `wreq[s]` is the
  request it read and whether `getMetadata()` found the entry.
* `conns` is TcpSend's connection list, and `openFds` the receiver
  descriptors the process holds open: `accept()` opens one, `close()`
  releases it, and `accept()` returns only a descriptor that is not open.
* Cancels sent to workers are `wcancel`.  `errSet` is the exception slot.
* History variables that only properties read:
  * `added`: every index ever inserted;
  * `snap`: the unfinished set each product started with;
  * `notified`: how many times each index was notified;
  * `popped`: what the timer popped;
  * `departed`: for each product, the members of its unfinished set whose
    connection was closed (its descriptor may then be accepted again);
  * `joins`: the `pthread_join()` calls on the timer and the coordinator.
* `stops` counts calls of `Stop()`, and `sent` the products whose
  `sendProduct()` completed; both are bounded.

One action is one atomic region of the code:

* A map operation under the write lock, with the notification that follows
  it in the caller, is one step.
* An action ends at each cancellation point (`accept`, `read`, `send`,
  `close`, `pthread_join`).  The worker's exit path is therefore two steps:
  `rmSockInList()` (in `RecvFail` and `HandleRetxFail`, through
  `ExitRmSock`), then `ExitRetxThread`: `close()`,
  `retxThreadList.remove()` and `pthread_exit()`.
* Cancellation is modelled as POSIX deferred cancellation:
  * a pending cancel acts at the next cancellation point;
  * it is held off while the coordinator has cancellation disabled;
  * the forced unwind is not caught by `catch (std::exception&)`, so a
    cancelled worker skips its cleanup.

`taskExit()` and `Stop()` on the coordinator (`AcceptFail`) are one step.
That thread cancels itself and is cancelled at its first cancellation point,
`pthread_join(timer_t)`.

`timerThread` reads an uninitialised `prodindex`, because the one the try
block declares shadows it.  `TimerExpire` therefore removes any index `q`.

Data is abstracted:

* a product is its index;
* a socket is a model value of `Socks`;
* timeouts and wall-clock time are dropped;
* the delay queue pops any pending index, since the delays are arbitrary.

### RetxTable: the table's contract

`RetxTable` says what the retransmission table promises, one index at a
time.  An index is `unused`, `live` (in the table) or `gone`:

* `Add(p)` makes an unused index live (`addRetxMetadata`);
* `Remove(p)` makes a live index gone and counts one notification (the
  removal that returns TRUE, in the timer or in the last RETX_END, with its
  `notify_of_eop`).

`senderMetadata.cpp` is not in the repository, so this contract comes from
its header and from spec.md section 4.4.

`VcmtpSender` implements it under the refinement mapping

    Status[p] = IF p \in table THEN "live"
                ELSE IF p \in added THEN "gone" ELSE "unused"

with `notified` mapped to itself.  The property `RefinesRetxTable` is
`Table!Spec`, where `Table == INSTANCE RetxTable WITH ...`.

### ConnRegistry: the acceptor's contract

`ConnRegistry` says what the live-connection registry and the acceptor
promise, one descriptor at a time.  A descriptor is `free`, `accepted`
(registered, with no worker yet) or `served`:

* `Accept(c)` registers a free descriptor.  It is allowed only while no
  other descriptor is `accepted`, since there is one acceptor.
* `Spawn(c)` gives an accepted descriptor its worker (`pthread_create()`).
* `SpawnFailed(c)` frees an accepted descriptor (`rmSockInList()` and
  `close()` when `pthread_create()` fails).
* `Remove(c)` frees a served descriptor (a worker's exit path).

A served descriptor may stay served for ever: a worker cancelled in its
loop keeps its socket, which is the leak `socket_leak` shows.  A worker's
`close()` after its `rmSockInList()` frees nothing more: the descriptor was
already free, so that step, and a cancel that ends the worker inside it,
are stutters of the contract.  `VcmtpSender` implements
the contract under the mapping

    ConnState[s] = IF s \notin conns THEN "free"
                   ELSE IF worker[s] = "none" THEN "accepted" ELSE "served"

The property is `RefinesConnRegistry == Registry!Spec`.

### VcmtpFraming

`SendData(n)` and `Retransmit(seqnum, payloadlen, prodLength)` return the
frames the code sends, as records `[seqnum, payloadlen]`.  Both are recursive
functions over the loop counter.  The uint32_t arithmetic of `retransmit()`
is kept modulo `2^Width`.  `Carried(frames)` is the sequence of product
offsets the frames copy.

### VcmtpRetxRange

The arithmetic `retransmit()` does before its loop, in a module with no
recursion so that TLAPS can reason about it:

* `RetxOut`: `out = MIN(prodLength, seqnum + payloadlen)`, the sum taken
  modulo `2^Width`;
* `RetxStart`: `seqnum` rounded down to a data block;
* `RetxBytes`: the loop's `nbytes = out - start`, modulo `2^Width`.

It declares `DataLen` and `Width`.  `VcmtpFraming` extends it and builds the
frames of `Retransmit` from `RetxStart` and `RetxBytes`.

## Runs

All `VcmtpSender` runs use `MC_VcmtpSender` with two sockets (one in the
stop run) and two request flags, RETX_REQ and RETX_END.  BOP_REQ and EOP_REQ
follow the same code path as RETX_REQ: entry found, send, fail or reject.

| Run | Property | Expect | Bounds | Shows |
|---|---|---|---|---|
| table | `NotifyExactlyOnRemoval`, `ConnectionsServed`, `RunningThreadsListed`, `FreshProdIndex`, `RefinesRetxTable`, `RefinesConnRegistry` | pass | 2 sockets, 2 products, 1 Stop | The timer and the last END never both notify, and a removal is never missed. The connection list holds exactly the sockets of workers in their loop (running or cancelled there) and the one just accepted, and the open descriptors are those plus the sockets of workers between `rmSockInList()` and `close()` or cancelled in `close()`. Every running worker is listed, except the one the coordinator has not yet added. No index is reused after a failed `sendProduct`. The map's steps are the contract's: each index inserted once, removed once, notified at its removal. The coordinator and the workers implement `ConnRegistry`. |
| stop | `StopTerminates` | pass | 1 socket, 1 product, 2 Stops | Every `Stop()` returns under fair scheduling. |
| timer_shadow | `TimerRemovesPopped` | violation | 2, 2 | The timer does not remove what it popped. |
| use_after_free | `NoUseAfterFree` | violation | 2, 2 | An entry is freed while a worker or `sendProduct` still uses its pointer. |
| register_race | `StoppedNoUncancelledThread` | violation | 2, 2 | A worker registered after the shutdown outlives `Stop()`. |
| socket_leak | `StoppedNoSocketLeak` | violation | 2, 2 | Cancelled workers leak their sockets: registered and open when cancelled in their loop, open when cancelled in `close()`. |
| late_joiner | `LateJoinerRejected` | violation | 2, 2 | A receiver outside the snapshot is served retransmissions. |
| wrap | `FreshProdIndex` | violation | 3 products, a word of 2 | `prodIndex++` wraps, and the third product reuses an index. |
| fd_reuse | `EndFromSnapshotConnection` | violation | 1, 1 | A closed descriptor is accepted again, and the new receiver's RETX_END clears the old one's membership. |
| double_join | `JoinedAtMostOnce` | violation | 1, 2 | The second `Stop()` joins the timer and the coordinator again. |
| senddata | `SendDataCoversProduct` | pass | DataLen 4, Width 5 | `sendData` covers each product length 0..31. |
| retx_cover | `RetransmitCoversRequest` | violation | same | `retransmit` never advances `start`. |

Two more properties are stated and fail under TLC, but no run checks them:

* `ListedThreadsRunning`, under the register_race constants: a worker that
  exits before its registration stays listed.
* `RetransmitWithinProduct`, under the senddata constants: the uint32_t
  `out - start` wraps and reads past the product.

They are listed as hazards in `PROJECT.json`.

Except in `wrap`, `IndexWord` is `MaxProducts + 1` and `InitProdIndex` is 0.
The index is then never wrapped, and one index is never assigned, which
stands for any index a request may name that is not in the map.

Why these bounds are enough:

* Two sockets give two receivers racing on the same entry, and a late
  joiner.
* Two products give a product that outlives the next one's insertion.
* Two Stops reach the second `Stop()` the documentation requires after a
  failing `sendProduct`.
* The stop run has one socket: `Stop()` joins the timer and the
  coordinator, never a worker, so a second receiver changes nothing that
  decides whether it returns (the coordinator still accepts, spawns,
  registers and is cancelled at each of those points).
* Three products in a word of two values is the smallest case in which an
  index is reused.
* Width 5 with DataLen 4 gives products of several full frames plus a
  partial one, and a 32-value word in which the wrap happens.

Settings that keep the runs small:

* The safety runs use symmetry over the sockets, and a VIEW that leaves out
  the history variables no property of that run reads.
* The stop run checks liveness, so it uses neither symmetry nor the VIEW.

Deadlock:

* The table run checks deadlock.
* `Finished` is the only stutter, and it is allowed only once the
  application is done with the sender.
* The stop run turns deadlock checking off, so that a `Stop()` that hangs
  shows up as a `StopTerminates` violation.

**Fairness.** Each thread step that the code takes by itself is weakly fair:

* the multicast;
* the timer;
* each phase of `Stop()`;
* the coordinator's spawn, register and cancel;
* a worker's handling of a request it has read, the rest of its exit path
  (`close()`, `remove()`, `pthread_exit()`), or a pending cancel.

What the environment does is not fair:

* the application calling `sendProduct()` or `Stop()`;
* receivers connecting, sending or closing;
* failures.

The kernel schedules every runnable thread, and nothing in the code waits
for a user or a peer without good reason.

Every property has a mutant, a plausible bug in the mapped code, under which
its run fails:

* `RemoveAndNotify` notifies without checking `isRemoved`;
* the `sendProduct` handler rethrows without calling `taskExit`;
* `Stop()` forgets `disable()`;
* `sendProduct` returns `prodIndex` without incrementing it, which breaks
  the refinement (an index is added twice);
* `sendData` does not advance the offset;
* the `pthread_create()` failure path de-registers the socket but forgets
  `close()` (breaks `ConnectionsServed`: a descriptor stays open that no
  one holds);
* `RetxThreads::remove` negates its `pthread_equal()` predicate and drops
  every other thread (breaks `RunningThreadsListed`);
* a worker's exit path forgets `rmSockInList()` and goes on to `close()`
  (breaks `RefinesConnRegistry`: a served socket becomes accepted).

## Proofs

`VcmtpSender_proofs` proves these theorems for every set of sockets and all
bounds.  The first four assume `NoSock \notin Socks`, positive bounds, and `NoWrap`:
`InitProdIndex + MaxProducts < IndexWord`, that is, `prodIndex` never
passes 2^32 - 1.  The `wrap` run shows that `FreshProdIndex` fails without
it.

* `TypeCorrect`: `Spec => []TypeOK`.
* `NotifyCorrect`: `Spec => []NotifyExactlyOnRemoval`.
* `FreshCorrect`: `Spec => FreshProdIndex`, an action property.
* `Refinement`: `Spec => RefinesRetxTable`.

Five more hold without `NoWrap`, whether `prodIndex` wraps or not:

* `ConnectionsCorrect`: `Spec => []ConnectionsServed`.
* `ListedCorrect`: `Spec => []RunningThreadsListed`.
* `StopLeaksOnlyCancelled`: once `Stop()` has returned and no worker runs,
  the connection list holds exactly the sockets of the workers cancelled in
  their loop, and the open descriptors exactly those and the sockets of
  the workers cancelled in `close()`.  `socket_leak` shows that sockets
  leak; this bounds the leak.
* `StopMissesOnlyListed`: once `Stop()` has returned, every worker still
  running is in `retxThreadList`.  `register_race` shows that `Stop()` can
  miss a worker; this one is then listed, and a second `Stop()` cancels it.
* `RegistryRefinement`: `Spec => RefinesConnRegistry`.

`VcmtpRetxRange_proofs` proves two theorems about `retransmit()`'s range
for every `Width` (32 included) and every `DataLen` below `2^Width`:

* `RetxBytesOfValidRequest`: for a request with `0 < payloadlen` and
  `seqnum + payloadlen <= prodLength`, `out - start` does not wrap.  The
  loop's range is then exactly the bytes from the block boundary below
  `seqnum` up to `seqnum + payloadlen`.
* `RetxBytesPastEnd`: when the block of `seqnum` starts past
  `prodLength`, `out - start` wraps, and `start + nbytes >= 2^Width`.
  This is the hazard at `vcmtpSendv3.cpp:675`.  TLC shows the same case
  only at `Width = 5`, through `RetransmitWithinProduct`.

Both rest on `StartFacts`: the rounded-down start is at most `seqnum`, and
less than one block below it.

`TypeOK` is not inductive on its own, so the proofs use the strengthening
`IndexInv`:

* `prodIndex` is `InitProdIndex + sent`, so under `NoWrap` the modulo in
  `SetTimerParameters` never acts;
* inserted indices lie between `InitProdIndex` and `prodIndex`, and below
  `InitProdIndex + MaxProducts`;
* between calls, `prodIndex` is fresh;
* during the multicast, it is already inserted;
* nobody has called `Stop()` while the application can still send;
* the map holds only inserted indices;
* between accept and register, the coordinator holds a real socket.

`NotifyCorrect` uses `IInv == TypeOK /\ IndexInv /\ NotifyExactlyOnRemoval`:

* An insertion takes a fresh index, whose count is 0.
* A removal under the `isRemoved` check moves an index out of the map and
  raises its count from 0 to 1.
* The lemmas `RemoveAndNotifyNotify` and `ClearUnfinishedSetNotify` carry
  the two writers of the map.

The thread theorems use their own inductive invariant `ThreadInv`, which
needs no `IndexInv`:

* `ThreadType`: the typing of the workers, the two lists, the open
  descriptors and the coordinator.  Between accept and register, `coordFd` is a real socket.
* `CoordinatorUnstarted`: before `Start()` there is no coordinator.
  `Start()` moves it to `accept`, and without this fact a stale
  `coord = "spawn"` could put `coordFd` into the connection list.
* `SpawnFresh`: the socket the coordinator has just accepted is served by
  no worker.  It was not open, and `ConnectionsServed` keeps every
  worker's socket open until its `close()`.  This is what lets the
  `pthread_create()` failure path remove the socket without removing a
  worker's.
* `ConnectionsServed` and `RunningThreadsListed` themselves.

A worker's exit path takes its socket out of the connection list
(`ExitRmSockInv`), then closes it and leaves the thread list
(`ExitThreadInv`).  By `SpawnFresh`, that socket is not the one the
coordinator is spawning.  A step of the request loop and a cancel move a
worker within the listed sockets or within the unlisted open ones
(`WorkerMoveInv`, with the frames `LoopStepFrame` and `CancelFrame`).
`StopLeaksOnlyCancelled` adds `StoppedCoordinatorDone`: `Stop()` returns
only after the coordinator has ended.

`RegistryRefinement` uses `ThreadInv` (`NextRegistry`):

* `Accept` picks a socket that is not open.  By `ConnectionsServed` it is
  not listed and has no worker, so it is free.  With the coordinator in `accept`, every
  listed socket has a worker, so no socket is `accepted`.
* The spawn and its failure act on `coordFd`.  It is listed
  (`ConnectionsServed`) and has no worker (`SpawnFresh`), so it is
  `accepted`.
* A worker's `rmSockInList()` frees its own socket, which is listed
  because its worker is in its loop (`ExitRegistry`).  Its later `close()`
  is a stutter: the socket is already unlisted.
* Every other worker step keeps the socket served, and no other step
  touches `conns` or `worker` (`RegistryStutter`).
* `RegistryMove` says that a step changing only socket `c` changes only
  `ConnState[c]`.

`StopMissesOnlyListed` follows from `RunningThreadsListed` and
`StoppedCoordinatorDone`.  Once the coordinator is `done`, it is not
between create and add.

`Refinement` follows the usual two steps:

* `Init` maps to `Table!Init`: nothing is added, so every index is unused.
* Every step of `Next` is a `Table!Next` step or a stutter of the mapped
  variables (`NextRefines`).  `AddRetxMetadata` is `Add(prodIndex)`,
  because `prodIndex` is not yet added (from `IndexInv`).  A removal in
  `TimerExpire` or `HandleRetxEnd` of an index in the map is `Remove`: the
  index is added, since the map holds only added indices.  Any other step
  leaves `added`, `table` and `notified` alone (`TableStutter`).

Some results are left to TLC:

* `StopTerminates` is liveness, which TLAPS does not handle here.
* `SendDataCoversProduct`, `RetransmitCoversRequest` and
  `RetransmitWithinProduct` are about the frame sequences that recursive
  functions compute.  Proving them needs induction over the loop counter.
  The library's induction theorems take an operator parameter, which the
  installed provers cannot instantiate.  `VcmtpFraming` also reaches
  RECURSIVE operators through `SequencesExt` (`FlattenSeq`).  Only the
  loop-free arithmetic of `retransmit()` is proved, in `VcmtpRetxRange`.
* The properties that are violated have nothing to prove.

## Not modelled, and plan for later work

* The kind of each reply.  Every handler builds its reply from the branch
  it is in (RETX_REJ echoing the requested index when the entry was not
  found), so a property about the reply kind would hold by the shape of the
  code.  What can go wrong there, the entry freed under the worker, is
  `NoUseAfterFree`.
* `SetLinkSpeed`, `SetDefaultIF`, `getTcpPortNum`, logging and the
  destructor: no modelled step reads what they write.
* Later work: a liveness property about products being aged out, once the
  timer's shadowed index is fixed (today `TimerRemovesPopped` fails first).
