------------------------- MODULE ConnectionRegistry -------------------------
(***************************************************************************)
(* The state of ConnectionManager (app/core/connection_manager.py) and the *)
(* effect of each of its methods between two suspension points.            *)
(*                                                                         *)
(* The application runs on one asyncio event loop, so only an await that   *)
(* suspends lets another task run.  Every `async with self._lock` block of *)
(* the class contains no await, so `_lock` is always free when it is asked *)
(* for and taking it never suspends: a method runs atomically up to its    *)
(* next await on a per-socket send lock or on the socket itself.  The send *)
(* locks are held across `await websocket.send_json`, and an asyncio.Lock  *)
(* serves its waiters first come, first served.                            *)
(*                                                                         *)
(* The operators here constrain only the variables they name; the modules  *)
(* that use them say what else changes.                                    *)
(***************************************************************************)
EXTENDS Naturals, Sequences

CONSTANTS
  Users,    \* user ids
  Sockets,  \* WebSocket objects; each is accepted at most once
  Callers,  \* coroutines that may call send_to_connection
  Owner,    \* Owner[w] is the user_id socket w is registered under
  Nobody    \* the holder of a free send lock

ASSUME RegistryAssumption ==
  /\ Owner \in [Sockets -> Users]
  /\ Nobody \notin Callers

VARIABLES
  activeConnections, \* _active_connections; a missing key reads as {}
  sendLocks,         \* the keys of _send_locks
  holder,            \* the caller that is inside send_json on the socket
  waiters,           \* callers suspended on the socket's send lock, in order
  wire               \* Starlette's application_state of the socket

registryVars == <<activeConnections, sendLocks, holder, waiters, wire>>

RegistryTypeOK ==
  /\ activeConnections \in [Users -> SUBSET Sockets]
  /\ sendLocks \in SUBSET Sockets
  /\ holder \in [Sockets -> Callers \cup {Nobody}]
  /\ waiters \in [Sockets -> Seq(Callers)]
  /\ wire \in [Sockets -> {"connecting", "connected", "closed"}]

RegistryInit ==
  /\ activeConnections = [u \in Users |-> {}]
  /\ sendLocks = {}
  /\ holder = [w \in Sockets |-> Nobody]
  /\ waiters = [w \in Sockets |-> <<>>]
  /\ wire = [w \in Sockets |-> "connecting"]

Registered(w) == w \in activeConnections[Owner[w]]

-----------------------------------------------------------------------------
(* Faulty: the send lock is filed under the user. *)
ConnectLocksUser(w) ==
  /\ wire[w] = "connecting"
  /\ wire' = [wire EXCEPT ![w] = "connected"]
  /\ activeConnections' = [activeConnections EXCEPT ![Owner[w]] = @ \cup {w}]
  /\ sendLocks' = sendLocks \cup {Owner[w]}

(* connect() from the moment accept() has returned.  accept() raises unless *)
(* the socket is still in its connecting state.                             *)
Connect(w) ==
  /\ wire[w] = "connecting"
  /\ wire' = [wire EXCEPT ![w] = "connected"]
  /\ activeConnections' = [activeConnections EXCEPT ![Owner[w]] = @ \cup {w}]
  /\ sendLocks' = sendLocks \cup {w}

(* Faulty: the send lock is forgotten. *)
DisconnectKeepsLock(w) ==
  /\ activeConnections' = [activeConnections EXCEPT ![Owner[w]] = @ \ {w}]
  /\ UNCHANGED sendLocks

(* disconnect(): with no entry for the user it returns before the lock pop. *)
Disconnect(w) ==
  IF activeConnections[Owner[w]] = {}
  THEN UNCHANGED <<activeConnections, sendLocks>>
  ELSE /\ activeConnections' = [activeConnections EXCEPT ![Owner[w]] = @ \ {w}]
       /\ sendLocks' = sendLocks \ {w}

(* websocket.close(): the state is CLOSED before the frame is awaited. *)
CloseWire(w) == wire' = [wire EXCEPT ![w] = "closed"]

-----------------------------------------------------------------------------
(* send_to_connection().  A call is refused, waits for the send lock, or    *)
(* goes straight into send_json: a free lock nobody waits for is taken      *)
(* without suspending, and then the second check sees what the first saw.   *)
CanSend(w) == Registered(w) /\ w \in sendLocks

SendRefused(w) == ~CanSend(w)

(* Faulty: a new caller overtakes those that wait. *)
SendBarges(c, w) ==
  /\ CanSend(w)
  /\ IF holder[w] = Nobody
     THEN holder' = [holder EXCEPT ![w] = c] /\ UNCHANGED waiters
     ELSE waiters' = [waiters EXCEPT ![w] = Append(@, c)] /\ UNCHANGED holder

SendBegins(c, w) ==
  /\ CanSend(w)
  /\ IF holder[w] = Nobody /\ waiters[w] = <<>>
     THEN holder' = [holder EXCEPT ![w] = c] /\ UNCHANGED waiters
     ELSE waiters' = [waiters EXCEPT ![w] = Append(@, c)] /\ UNCHANGED holder

(* The lock is free and c is first in line: c resumes, checks again and     *)
(* either sends or gives the lock back at once.                             *)
IsNext(c, w) ==
  /\ holder[w] = Nobody
  /\ waiters[w] # <<>>
  /\ Head(waiters[w]) = c

(* Faulty: no second check once the lock is held. *)
SendGrantedUnchecked(c, w) ==
  /\ IsNext(c, w)
  /\ holder' = [holder EXCEPT ![w] = c]
  /\ waiters' = [waiters EXCEPT ![w] = Tail(@)]

SendGranted(c, w) ==
  /\ IsNext(c, w)
  /\ Registered(w)
  /\ holder' = [holder EXCEPT ![w] = c]
  /\ waiters' = [waiters EXCEPT ![w] = Tail(@)]

(* Faulty: a caller whose socket is gone queues again until it is back. *)
SendTooLateQueues(c, w) ==
  /\ IsNext(c, w)
  /\ ~Registered(w)
  /\ waiters' = [waiters EXCEPT ![w] = Append(Tail(@), c)]
  /\ UNCHANGED holder

SendTooLate(c, w) ==
  /\ IsNext(c, w)
  /\ ~Registered(w)
  /\ waiters' = [waiters EXCEPT ![w] = Tail(@)]
  /\ UNCHANGED holder

(* send_json returned; the call returns True. *)
SendCompletes(c, w) ==
  /\ holder[w] = c
  /\ holder' = [holder EXCEPT ![w] = Nobody]
  /\ UNCHANGED waiters

(* send_json raised: the lock is released on the way out of its block, then *)
(* the socket is disconnected, and the call returns False.  When the peer   *)
(* is gone (an OSError below it) Starlette also marks the socket closed.    *)
SendFails(c, w) ==
  /\ holder[w] = c
  /\ holder' = [holder EXCEPT ![w] = Nobody]
  /\ UNCHANGED waiters
  /\ Disconnect(w)
  /\ CloseWire(w) \/ UNCHANGED wire

(* The caller's task is cancelled inside the call.  CancelledError is not   *)
(* an Exception: the lock or the place in the queue is given up, and the    *)
(* socket stays registered.                                                 *)
IsWaiting(c, w) == \E i \in DOMAIN waiters[w] : waiters[w][i] = c

InSend(c, w) == holder[w] = c \/ IsWaiting(c, w)

RemoveAt(s, i) == SubSeq(s, 1, i - 1) \o SubSeq(s, i + 1, Len(s))

(* Faulty: a cancelled sender keeps the send lock. *)
SendCancelledLocked(c, w) == UNCHANGED <<holder, waiters>>

SendCancelled(c, w) ==
  \/ /\ holder[w] = c
     /\ holder' = [holder EXCEPT ![w] = Nobody]
     /\ UNCHANGED waiters
  \/ /\ \E i \in DOMAIN waiters[w] :
          /\ waiters[w][i] = c
          /\ waiters' = [waiters EXCEPT ![w] = RemoveAt(@, i)]
     /\ UNCHANGED holder
=============================================================================
