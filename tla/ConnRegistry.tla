----------------------------- MODULE ConnRegistry -----------------------------
(***************************************************************************)
(* What the stream acceptor's live-connection registry (TcpSend's          *)
(* connection list) and the acceptor task promise the sender, one          *)
(* connection id (socket descriptor) at a time:                            *)
(*   - accept() registers a descriptor that is not registered, and the one *)
(*     acceptor holds at most one accepted connection that has no worker;  *)
(*   - the acceptor then gives it a worker, or closes and de-registers it  *)
(*     when the worker cannot be spawned ("accepts responsibility for      *)
(*     closing the socket in all circumstances");                          *)
(*   - a connection with a worker is de-registered and closed only by its  *)
(*     worker's exit path, so no descriptor is closed under a worker that  *)
(*     still serves it, nor served by two workers.                         *)
(* A connection may stay served for ever: this is a safety contract.       *)
(***************************************************************************)

CONSTANT Conns   \* the descriptors accept() can return

VARIABLE state   \* "free", "accepted" (registered, no worker) or "served"

TypeOK == state \in [Conns -> {"free", "accepted", "served"}]

Init == state = [c \in Conns |-> "free"]

(* acceptConn(): registers the new descriptor; the acceptor is not holding *)
(* another one.                                                            *)
Accept(c) ==
    /\ state[c] = "free"
    /\ \A d \in Conns : state[d] # "accepted"
    /\ state' = [state EXCEPT ![c] = "accepted"]

(* StartNewRetxThread(): pthread_create() of the connection's worker. *)
Spawn(c) ==
    /\ state[c] = "accepted"
    /\ state' = [state EXCEPT ![c] = "served"]

(* pthread_create() fails: rmSockInList() and close(). *)
SpawnFailed(c) ==
    /\ state[c] = "accepted"
    /\ state' = [state EXCEPT ![c] = "free"]

(* The worker's exit path: rmSockInList() of its own socket.            *)
Remove(c) ==
    /\ state[c] = "served"
    /\ state' = [state EXCEPT ![c] = "free"]

Next == \E c \in Conns : Accept(c) \/ Spawn(c) \/ SpawnFailed(c) \/ Remove(c)

Spec == Init /\ [][Next]_state
=============================================================================
