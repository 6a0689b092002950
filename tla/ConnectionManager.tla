-------------------------- MODULE ConnectionManager --------------------------
(***************************************************************************)
(* ConnectionManager used through its whole interface: sockets come and go *)
(* while any number of coroutines call send_to_connection, send_to_user    *)
(* and broadcast.  A fan-out is a loop of sends over a snapshot.  The      *)
(* model lets other coroutines run between two sends of a loop even where  *)
(* the code does not suspend, which only adds interleavings.               *)
(***************************************************************************)
EXTENDS ConnectionRegistry

VARIABLES
  todoUsers,   \* todoUsers[c]: users broadcast has still to visit
  todoSockets  \* todoSockets[c]: sockets send_to_user has still to send to

todo == <<todoUsers, todoSockets>>
vars == <<registryVars, todo>>

TypeOK ==
  /\ RegistryTypeOK
  /\ todoUsers \in [Callers -> SUBSET Users]
  /\ todoSockets \in [Callers -> SUBSET Sockets]

Init ==
  /\ RegistryInit
  /\ todoUsers = [c \in Callers |-> {}]
  /\ todoSockets = [c \in Callers |-> {}]

Sending(c) == \E w \in Sockets : InSend(c, w)

Idle(c) == ~Sending(c) /\ todoUsers[c] = {} /\ todoSockets[c] = {}

-----------------------------------------------------------------------------
ConnectSocket(w) == Connect(w) /\ UNCHANGED <<holder, waiters, todo>>

(* Sessions disconnect a socket they connected, often twice. *)
DisconnectSocket(w) ==
  /\ wire[w] # "connecting"
  /\ Disconnect(w)
  /\ UNCHANGED <<holder, waiters, wire, todo>>

(* A session closes a socket before accepting it (failed authentication),  *)
(* before disconnecting it (an error) or after (heartbeat timeout).        *)
CloseSocket(w) ==
  /\ wire[w] # "closed"
  /\ CloseWire(w)
  /\ UNCHANGED <<activeConnections, sendLocks, holder, waiters, todo>>

-----------------------------------------------------------------------------
SendToConnection(c, w) ==
  /\ Idle(c)
  /\ SendBegins(c, w)
  /\ UNCHANGED <<activeConnections, sendLocks, wire, todo>>

SendToUser(c, u) ==
  /\ Idle(c)
  /\ todoSockets' = [todoSockets EXCEPT ![c] = activeConnections[u]]
  /\ UNCHANGED <<registryVars, todoUsers>>

(* Faulty: iterates over the sets of sockets instead of the user ids. *)
BroadcastOverValues(c) ==
  /\ Idle(c)
  /\ todoUsers' = [todoUsers EXCEPT ![c] = {activeConnections[u] : u \in Users}]
  /\ UNCHANGED <<registryVars, todoSockets>>

Broadcast(c) ==
  /\ Idle(c)
  /\ todoUsers' = [todoUsers EXCEPT ![c] = {u \in Users : activeConnections[u] # {}}]
  /\ UNCHANGED <<registryVars, todoSockets>>

(* The loop bodies: the next user's sockets are read when its turn comes. *)
NextUser(c) ==
  /\ ~Sending(c)
  /\ todoSockets[c] = {}
  /\ \E u \in todoUsers[c] :
       /\ todoUsers' = [todoUsers EXCEPT ![c] = @ \ {u}]
       /\ todoSockets' = [todoSockets EXCEPT ![c] = activeConnections[u]]
  /\ UNCHANGED registryVars

NextSocket(c) ==
  /\ ~Sending(c)
  /\ \E w \in todoSockets[c] :
       /\ todoSockets' = [todoSockets EXCEPT ![c] = @ \ {w}]
       /\ \/ SendBegins(c, w)
          \/ SendRefused(w) /\ UNCHANGED <<holder, waiters>>
  /\ UNCHANGED <<activeConnections, sendLocks, wire, todoUsers>>

-----------------------------------------------------------------------------
(* What happens to a send after it began.  Only the last of the four needs *)
(* an exception from the socket.                                           *)
Resume(c, w) ==
  /\ SendGranted(c, w) \/ SendTooLate(c, w)
  /\ UNCHANGED <<activeConnections, sendLocks, wire, todo>>

Complete(c, w) ==
  /\ SendCompletes(c, w)
  /\ UNCHANGED <<activeConnections, sendLocks, wire, todo>>

Fail(c, w) ==
  /\ SendFails(c, w)
  /\ UNCHANGED todo

(* The task that called is cancelled, and its loop with it. *)
Cancel(c, w) ==
  /\ SendCancelled(c, w)
  /\ todoUsers' = [todoUsers EXCEPT ![c] = {}]
  /\ todoSockets' = [todoSockets EXCEPT ![c] = {}]
  /\ UNCHANGED <<activeConnections, sendLocks, wire>>

SocketStep(w) == ConnectSocket(w) \/ DisconnectSocket(w) \/ CloseSocket(w)

CallStep(c) ==
  \/ Broadcast(c) \/ NextUser(c) \/ NextSocket(c)
  \/ \E u \in Users : SendToUser(c, u)

SendStep(c, w) ==
  \/ SendToConnection(c, w) \/ Resume(c, w)
  \/ Complete(c, w) \/ Fail(c, w) \/ Cancel(c, w)

Next ==
  \/ \E w \in Sockets : SocketStep(w)
  \/ \E c \in Callers : CallStep(c)
  \/ \E c \in Callers, w \in Sockets : SendStep(c, w)

Spec == Init /\ [][Next]_vars

(* The event loop runs every coroutine that can run, and send_json returns *)
(* or raises: the server gives up on a peer that stops reading.            *)
Fairness ==
  \A c \in Callers :
    /\ WF_vars(NextUser(c))
    /\ WF_vars(NextSocket(c))
    /\ \A w \in Sockets :
         /\ WF_vars(Resume(c, w))
         /\ WF_vars(Complete(c, w) \/ Fail(c, w))

FairSpec == Spec /\ Fairness

-----------------------------------------------------------------------------
(* The two dictionaries of ConnectionManager agree: a socket has a send    *)
(* lock exactly while it is in its user's set, so disconnect's early       *)
(* return leaks no lock and a registered socket can always be sent to.     *)
LocksMatchRegistry == sendLocks = {w \in Sockets : Registered(w)}

(* The manager implements the abstract registry: no socket is registered   *)
(* twice or comes back, frames of two callers never interleave, and, thanks *)
(* to the second check in send_to_connection, a caller that waited for the *)
(* send lock does not write to a socket dropped meanwhile.                 *)
status ==
  [w \in Sockets |->
     IF Registered(w) THEN "registered"
     ELSE IF wire[w] = "connecting" THEN "new" ELSE "dropped"]

Registry == INSTANCE SocketRegistry WITH writer <- holder

ImplementsRegistry == Registry!Spec

(* Every send and every fan-out ends, however many other callers compete   *)
(* for the same send locks: asyncio locks are first come, first served.    *)
CallsEnd == \A c \in Callers : ~Idle(c) ~> Idle(c)

(* Once a socket is dropped, its send lock is eventually free for good and *)
(* nobody is left waiting on it, although the lock is no longer reachable  *)
(* through the dictionary.                                                 *)
DroppedSocketsDrain ==
  \A w \in Sockets :
    status[w] = "dropped" ~> [](holder[w] = Nobody /\ waiters[w] = <<>>)
=============================================================================
