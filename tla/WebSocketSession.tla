-------------------------- MODULE WebSocketSession --------------------------
(***************************************************************************)
(* The /ws endpoint (app/api/websocket.py): per socket, the handler        *)
(* coroutine and the three tasks it starts, all sending through            *)
(* ConnectionManager.  An action runs one coroutine from one suspension to *)
(* the next.  Peers, Redis and the database are the environment: a peer    *)
(* may leave, stay silent or send anything, and Redis may fail any call.   *)
(* Not modelled: cancellation of the handler itself (forced shutdown).     *)
(***************************************************************************)
EXTENDS ConnectionRegistry

Tasks == {"forward", "client", "heartbeat"}
Roles == Tasks \cup {"handler"}

ASSUME SessionAssumption == Callers = Sockets \X Roles

VARIABLES
  handler,     \* where the endpoint coroutine of the socket is
  task,        \* task[w][t]: where task t of the session is, or how it ended
  done,        \* what asyncio.wait returned as done
  pending,     \* the tasks the handler has still to reap
  victim,      \* the task that was cancelled and is awaited, or "none"
  pong,        \* pong_received
  subscribed,  \* the pub/sub connection is subscribed to the user's channel
  peer         \* whether the client is still there

sessionVars == <<handler, task, done, pending, victim, pong, subscribed, peer>>
vars == <<registryVars, sessionVars>>
reapVars == <<done, pending, victim>>

Serving == {"greeting", "subscribing", "waiting", "reaping"}
Leaving == {"closing", "unsubscribing", "closingPubsub", "ended"}
Running == {"idle", "sending", "awaitingPong", "closing"}
Outcomes == {"returned", "cancelled", "disconnect", "unavailable", "error"}

TypeOK ==
  /\ RegistryTypeOK
  /\ handler \in [Sockets -> {"authenticating", "rejecting", "accepting"} \cup Serving \cup Leaving]
  /\ task \in [Sockets -> [Tasks -> {"none"} \cup Running \cup Outcomes]]
  /\ done \in [Sockets -> SUBSET Tasks]
  /\ pending \in [Sockets -> SUBSET Tasks]
  /\ victim \in [Sockets -> Tasks \cup {"none"}]
  /\ pong \in [Sockets -> BOOLEAN]
  /\ subscribed \in [Sockets -> BOOLEAN]
  /\ peer \in [Sockets -> {"open", "gone"}]

Init ==
  /\ RegistryInit
  /\ handler = [w \in Sockets |-> "authenticating"]
  /\ task = [w \in Sockets |-> [t \in Tasks |-> "none"]]
  /\ done = [w \in Sockets |-> {}]
  /\ pending = [w \in Sockets |-> {}]
  /\ victim = [w \in Sockets |-> "none"]
  /\ pong = [w \in Sockets |-> FALSE]
  /\ subscribed = [w \in Sockets |-> FALSE]
  /\ peer = [w \in Sockets |-> "open"]

HandlerGoes(w, from, to) == handler[w] = from /\ handler' = [handler EXCEPT ![w] = to]

TaskGoes(w, t, to) == task' = [task EXCEPT ![w][t] = to]

(* Task t can take its next step: it is there, and was not just cancelled. *)
At(w, t, at) == task[w][t] = at /\ victim[w] # t

Finished(w) == {t \in Tasks : task[w][t] \in Outcomes}

-----------------------------------------------------------------------------
(* The handler up to the three tasks.  Authentication may find no user     *)
(* (close 1008), raise, or find one; accept() may fail on a peer that left.*)
Authenticate(w) ==
  /\ \/ HandlerGoes(w, "authenticating", "accepting") /\ UNCHANGED wire
     \/ HandlerGoes(w, "authenticating", "ended") /\ UNCHANGED wire
     \/ HandlerGoes(w, "authenticating", "rejecting") /\ CloseWire(w)
  /\ UNCHANGED <<activeConnections, sendLocks, holder, waiters>>
  /\ UNCHANGED <<task, reapVars, pong, subscribed, peer>>

Rejected(w) ==
  /\ HandlerGoes(w, "rejecting", "ended")
  /\ UNCHANGED <<registryVars, task, reapVars, pong, subscribed, peer>>

AcceptFails(w) ==
  /\ HandlerGoes(w, "accepting", "ended")
  /\ UNCHANGED <<registryVars, task, reapVars, pong, subscribed, peer>>

(* connect(), and on into the greeting: the new send lock is free. *)
Accept(w) ==
  /\ HandlerGoes(w, "accepting", "greeting")
  /\ Connect(w)
  /\ holder' = [holder EXCEPT ![w] = <<w, "handler">>]
  /\ UNCHANGED <<waiters, task, reapVars, pong, subscribed, peer>>

(* The greeting's result is not looked at. *)
Greeted(w) ==
  /\ HandlerGoes(w, "greeting", "subscribing")
  /\ \/ SendCompletes(<<w, "handler">>, w) /\ UNCHANGED <<activeConnections, sendLocks, wire>>
     \/ SendFails(<<w, "handler">>, w)
  /\ UNCHANGED <<task, reapVars, pong, subscribed, peer>>

Subscribe(w) ==
  /\ HandlerGoes(w, "subscribing", "waiting")
  /\ subscribed' = [subscribed EXCEPT ![w] = TRUE]
  /\ task' = [task EXCEPT ![w] = [t \in Tasks |-> "idle"]]
  /\ UNCHANGED <<registryVars, reapVars, pong, peer>>

-----------------------------------------------------------------------------
(* Faulty: the heartbeat does not look at the result of its ping. *)
ContinueIgnoresResult(w, t, sent) ==
  TaskGoes(w, t,
    CASE t = "forward"   -> IF sent THEN "idle" ELSE "disconnect"
      [] t = "client"    -> IF wire'[w] = "connected" THEN "idle" ELSE "error"
      [] t = "heartbeat" -> IF pong[w] THEN "idle" ELSE "awaitingPong")

(* Sends of the tasks.  Continue says where a task goes once a send of its *)
(* own returned; receive_text raises at once when the socket is closed.    *)
Continue(w, t, sent) ==
  TaskGoes(w, t,
    CASE t = "forward"   -> IF sent THEN "idle" ELSE "disconnect"
      [] t = "client"    -> IF wire'[w] = "connected" THEN "idle" ELSE "error"
      [] t = "heartbeat" -> IF ~sent THEN "returned"
                            ELSE IF pong[w] THEN "idle" ELSE "awaitingPong")

StartSend(w, t) ==
  /\ UNCHANGED <<activeConnections, sendLocks, wire>>
  /\ \/ SendBegins(<<w, t>>, w) /\ TaskGoes(w, t, "sending")
     \/ SendRefused(w) /\ UNCHANGED <<holder, waiters>> /\ Continue(w, t, FALSE)

SendResumes(w, t) ==
  /\ At(w, t, "sending")
  /\ \/ SendGranted(<<w, t>>, w) /\ UNCHANGED <<wire, task>>
     \/ SendTooLate(<<w, t>>, w) /\ UNCHANGED wire /\ Continue(w, t, FALSE)
  /\ UNCHANGED <<activeConnections, sendLocks>>
  /\ UNCHANGED <<handler, reapVars, pong, subscribed, peer>>

SendReturns(w, t) ==
  /\ At(w, t, "sending")
  /\ \/ /\ SendCompletes(<<w, t>>, w)
        /\ UNCHANGED <<activeConnections, sendLocks, wire>>
        /\ Continue(w, t, TRUE)
     \/ SendFails(<<w, t>>, w) /\ Continue(w, t, FALSE)
  /\ UNCHANGED <<handler, reapVars, pong, subscribed, peer>>

-----------------------------------------------------------------------------
(* _forward_events: an event of the user's channel, or Redis fails. *)
ForwardEvent(w) ==
  /\ At(w, "forward", "idle")
  /\ StartSend(w, "forward")
  /\ UNCHANGED <<handler, reapVars, pong, subscribed, peer>>

ForwardFails(w) ==
  /\ At(w, "forward", "idle")
  /\ TaskGoes(w, "forward", "unavailable")
  /\ UNCHANGED <<registryVars, handler, reapVars, pong, subscribed, peer>>

(* _handle_client_messages: a pong, a ping, anything that is not a JSON    *)
(* object (AttributeError), or the disconnect message.                     *)
ClientPong(w) ==
  /\ At(w, "client", "idle") /\ peer[w] = "open"
  /\ pong' = [pong EXCEPT ![w] = TRUE]
  /\ UNCHANGED <<registryVars, handler, reapVars, subscribed, peer>>
  /\ Continue(w, "client", TRUE)

ClientPing(w) ==
  /\ At(w, "client", "idle") /\ peer[w] = "open"
  /\ StartSend(w, "client")
  /\ UNCHANGED <<handler, reapVars, pong, subscribed, peer>>

ClientBadMessage(w) ==
  /\ At(w, "client", "idle") /\ peer[w] = "open"
  /\ TaskGoes(w, "client", "error")
  /\ UNCHANGED <<registryVars, handler, reapVars, pong, subscribed, peer>>

ClientDisconnect(w) ==
  /\ At(w, "client", "idle")
  /\ peer[w] = "gone" \/ wire[w] = "closed"
  /\ TaskGoes(w, "client", "disconnect")
  /\ UNCHANGED <<registryVars, handler, reapVars, pong, subscribed, peer>>

-----------------------------------------------------------------------------
(* Faulty: pong_received is never cleared. *)
HeartbeatKeepsPong(w) ==
  /\ At(w, "heartbeat", "idle")
  /\ StartSend(w, "heartbeat")
  /\ UNCHANGED <<handler, reapVars, pong, subscribed, peer>>

(* _send_heartbeat.  The ping is due after PING_INTERVAL_SECONDS; pong is  *)
(* cleared before it is sent.                                              *)
HeartbeatPing(w) ==
  /\ At(w, "heartbeat", "idle")
  /\ pong' = [pong EXCEPT ![w] = FALSE]
  /\ StartSend(w, "heartbeat")
  /\ UNCHANGED <<handler, reapVars, subscribed, peer>>

HeartbeatAnswered(w) ==
  /\ At(w, "heartbeat", "awaitingPong")
  /\ pong[w]
  /\ TaskGoes(w, "heartbeat", "idle")
  /\ UNCHANGED <<registryVars, handler, reapVars, pong, subscribed, peer>>

(* Faulty: the socket is closed but stays registered. *)
HeartbeatTimeoutRegistered(w) ==
  /\ At(w, "heartbeat", "awaitingPong")
  /\ CloseWire(w)
  /\ TaskGoes(w, "heartbeat", "closing")
  /\ UNCHANGED <<activeConnections, sendLocks, holder, waiters, handler, reapVars>>
  /\ UNCHANGED <<pong, subscribed, peer>>

(* The timeout may win against a pong of the same event loop tick. *)
HeartbeatTimeout(w) ==
  /\ At(w, "heartbeat", "awaitingPong")
  /\ Disconnect(w)
  /\ IF wire[w] = "connected"
     THEN CloseWire(w) /\ TaskGoes(w, "heartbeat", "closing")
     ELSE UNCHANGED wire /\ TaskGoes(w, "heartbeat", "returned")
  /\ UNCHANGED <<holder, waiters, handler, reapVars, pong, subscribed, peer>>

HeartbeatClosed(w) ==
  /\ At(w, "heartbeat", "closing")
  /\ \/ TaskGoes(w, "heartbeat", "returned")
     \/ TaskGoes(w, "heartbeat", "disconnect")
  /\ UNCHANGED <<registryVars, handler, reapVars, pong, subscribed, peer>>

-----------------------------------------------------------------------------
(* The handler's way out: close with 1011 after an error, unless the       *)
(* socket is closed already, then the finally block up to its first await. *)
Depart(w, withClose) ==
  IF withClose /\ wire[w] = "connected"
  THEN /\ CloseWire(w)
       /\ handler' = [handler EXCEPT ![w] = "closing"]
       /\ UNCHANGED <<activeConnections, sendLocks>>
  ELSE /\ Disconnect(w)
       /\ handler' = [handler EXCEPT ![w] = "unsubscribing"]
       /\ UNCHANGED wire

(* The done loop lets WebSocketDisconnect pass and raises any other error. *)
DoneLoop(w) == Depart(w, \E t \in done'[w] : task[w][t] \in {"unavailable", "error"})

SubscribeFails(w) ==
  /\ handler[w] = "subscribing"
  /\ Depart(w, TRUE)
  /\ UNCHANGED <<holder, waiters, task, reapVars, pong, subscribed, peer>>

(* Faulty: the results of done are raised before the others are cancelled. *)
WakeRaisesFirst(w) ==
  /\ handler[w] = "waiting"
  /\ Finished(w) # {}
  /\ done' = [done EXCEPT ![w] = Finished(w)]
  /\ DoneLoop(w)
  /\ UNCHANGED <<holder, waiters, pending, victim, task, pong, subscribed, peer>>

(* Faulty: return_when=ALL_COMPLETED. *)
WakeAllCompleted(w) ==
  /\ handler[w] = "waiting"
  /\ Finished(w) = Tasks
  /\ done' = [done EXCEPT ![w] = Tasks]
  /\ DoneLoop(w)
  /\ UNCHANGED <<holder, waiters, pending, victim, task, pong, subscribed, peer>>

(* asyncio.wait returned: the first task still running is cancelled. *)
Wake(w) ==
  /\ handler[w] = "waiting"
  /\ Finished(w) # {}
  /\ done' = [done EXCEPT ![w] = Finished(w)]
  /\ pending' = [pending EXCEPT ![w] = Tasks \ Finished(w)]
  /\ \/ /\ Finished(w) = Tasks
        /\ DoneLoop(w)
        /\ UNCHANGED victim
     \/ /\ \E t \in Tasks \ Finished(w) : victim' = [victim EXCEPT ![w] = t]
        /\ handler' = [handler EXCEPT ![w] = "reaping"]
        /\ UNCHANGED <<activeConnections, sendLocks, wire>>
  /\ UNCHANGED <<holder, waiters, task, pong, subscribed, peer>>

(* CancelledError in the cancelled task, wherever it is suspended. *)
TaskCancelled(w, t) ==
  /\ victim[w] = t
  /\ task[w][t] \in Running
  /\ IF task[w][t] = "sending"
     THEN SendCancelled(<<w, t>>, w)
     ELSE UNCHANGED <<holder, waiters>>
  /\ TaskGoes(w, t, "cancelled")
  /\ UNCHANGED <<activeConnections, sendLocks, wire>>
  /\ UNCHANGED <<handler, reapVars, pong, subscribed, peer>>

(* `await task` returned.  A task that ended by itself before its turn to  *)
(* be cancelled raises its own exception, which leaves the loop.           *)
Reap(w) ==
  /\ handler[w] = "reaping"
  /\ task[w][victim[w]] \in Outcomes
  /\ pending' = [pending EXCEPT ![w] = @ \ {victim[w]}]
  /\ UNCHANGED done
  /\ LET outcome == task[w][victim[w]]
     IN \/ /\ outcome \in {"disconnect", "unavailable", "error"}
           /\ Depart(w, outcome # "disconnect")
           /\ victim' = [victim EXCEPT ![w] = "none"]
        \/ /\ outcome \in {"cancelled", "returned"}
           /\ pending'[w] = {}
           /\ DoneLoop(w)
           /\ victim' = [victim EXCEPT ![w] = "none"]
        \/ /\ outcome \in {"cancelled", "returned"}
           /\ \E t \in pending'[w] : victim' = [victim EXCEPT ![w] = t]
           /\ UNCHANGED <<handler, activeConnections, sendLocks, wire>>
  /\ UNCHANGED <<holder, waiters, task, pong, subscribed, peer>>

(* Faulty: the error path returns without the finally block's disconnect. *)
ClosedRegistered(w) ==
  /\ HandlerGoes(w, "closing", "unsubscribing")
  /\ UNCHANGED <<registryVars, task, reapVars, pong, subscribed, peer>>

Closed(w) ==
  /\ handler[w] = "closing"
  /\ Disconnect(w)
  /\ handler' = [handler EXCEPT ![w] = "unsubscribing"]
  /\ UNCHANGED <<holder, waiters, wire, task, reapVars, pong, subscribed, peer>>

(* Redis errors are suppressed here; closing the pub/sub object drops its  *)
(* connection, and the subscription with it.                               *)
Unsubscribe(w) ==
  /\ HandlerGoes(w, "unsubscribing", "closingPubsub")
  /\ subscribed' \in {subscribed, [subscribed EXCEPT ![w] = FALSE]}
  /\ UNCHANGED <<registryVars, task, reapVars, pong, peer>>

ClosePubsub(w) ==
  /\ HandlerGoes(w, "closingPubsub", "ended")
  /\ subscribed' = [subscribed EXCEPT ![w] = FALSE]
  /\ UNCHANGED <<registryVars, task, reapVars, pong, peer>>

PeerLeaves(w) ==
  /\ peer[w] = "open"
  /\ peer' = [peer EXCEPT ![w] = "gone"]
  /\ UNCHANGED <<registryVars, handler, task, reapVars, pong, subscribed>>

-----------------------------------------------------------------------------
HandlerStep(w) ==
  \/ Authenticate(w) \/ Rejected(w) \/ AcceptFails(w) \/ Accept(w) \/ Greeted(w)
  \/ Subscribe(w) \/ SubscribeFails(w) \/ Wake(w) \/ Reap(w)
  \/ Closed(w) \/ Unsubscribe(w) \/ ClosePubsub(w)

SendStep(w, t) == SendResumes(w, t) \/ SendReturns(w, t) \/ TaskCancelled(w, t)

HeartbeatStep(w) ==
  \/ HeartbeatPing(w) \/ HeartbeatAnswered(w) \/ HeartbeatTimeout(w) \/ HeartbeatClosed(w)

EnvironmentStep(w) ==
  \/ ForwardEvent(w) \/ ForwardFails(w) \/ ClientPong(w) \/ ClientPing(w)
  \/ ClientBadMessage(w) \/ PeerLeaves(w)

Next ==
  \E w \in Sockets :
    \/ HandlerStep(w) \/ HeartbeatStep(w) \/ ClientDisconnect(w) \/ EnvironmentStep(w)
    \/ \E t \in Tasks : SendStep(w, t)

Spec == Init /\ [][Next]_vars

(* The event loop runs what can run; timers fire; sends, Redis commands    *)
(* and queries return or raise, bounded by their timeouts; a closed socket *)
(* is reported to receive_text.  Nothing is assumed of the peer, of the    *)
(* events published or of Redis being up.                                  *)
Fairness ==
  \A w \in Sockets :
    /\ WF_vars(HandlerStep(w))
    /\ WF_vars(HeartbeatStep(w))
    /\ WF_vars(ClientDisconnect(w))
    /\ \A t \in Tasks : WF_vars(SendStep(w, t))

FairSpec == Spec /\ Fairness

-----------------------------------------------------------------------------
(* Once the handler is past its reaping loop none of its tasks runs: the   *)
(* exceptions that leave the loop early never leave a task behind.         *)
NoOrphanTask ==
  \A w \in Sockets : handler[w] \in Leaving => \A t \in Tasks : task[w][t] \notin Running

(* A finished session left nothing in the manager or in Redis, whichever   *)
(* way it ended: no registration, lock, lock holder, waiter, subscription. *)
EndedIsClean ==
  \A w \in Sockets :
    handler[w] = "ended" =>
      /\ ~Registered(w)
      /\ w \notin sendLocks
      /\ holder[w] = Nobody /\ waiters[w] = <<>>
      /\ ~subscribed[w]

(* A task is inside send_to_connection exactly while it says so; a task    *)
(* that ended, cancelled or not, holds no send lock and waits for none.    *)
SendersMatchTasks ==
  \A w \in Sockets, t \in Tasks : InSend(<<w, t>>, w) <=> task[w][t] = "sending"

(* No frame is started on a socket the server has closed, although the     *)
(* heartbeat and the error path close it without taking the send lock.     *)
WritesStartOnOpenWire ==
  [][\A w \in Sockets :
       holder[w] = Nobody /\ holder'[w] # Nobody => wire'[w] = "connected"]_vars

(* The sessions use the registry as its abstract specification allows.     *)
status ==
  [w \in Sockets |->
     IF Registered(w) THEN "registered"
     ELSE IF wire[w] = "connecting" THEN "new" ELSE "dropped"]

Registry == INSTANCE SocketRegistry WITH writer <- holder

ImplementsRegistry == Registry!Spec

(* A session whose socket was dropped from the registry ends: it does not  *)
(* linger with its subscription and tasks while no event can reach it.     *)
DroppedSessionsEnd ==
  \A w \in Sockets :
    handler[w] \in Serving /\ ~Registered(w) ~> handler[w] = "ended"

(* A session whose peer left ends, whatever Redis and the events do. *)
GonePeersEnd == \A w \in Sockets : peer[w] = "gone" ~> handler[w] = "ended"

(* A session that goes on for ever is one whose peer keeps answering pings. *)
SilentPeersEnd ==
  \A w \in Sockets : <>[](handler[w] = "waiting") => []<><<ClientPong(w)>>_vars
=============================================================================
