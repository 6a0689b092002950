---------------------------- MODULE LiveUpdates ----------------------------
(***************************************************************************)
(* Live updates end to end: the task requests of TaskService publish an    *)
(* event on the channel of their user, Redis hands it to every session     *)
(* subscribed at that moment, and each session forwards what arrives, one  *)
(* message at a time, to its client (_forward_events in                    *)
(* app/api/websocket.py).  The module adds to each step of a task request  *)
(* what it does to the event it will publish.  Lists are left out, they    *)
(* neither write nor publish, so the cache stays empty and there is        *)
(* nothing to delete from it.                                              *)
(*                                                                         *)
(* A session is reduced to the places that matter here; its tasks and its  *)
(* ends are WebSocketSession.  A client reads its rows when it is told     *)
(* that it is connected, and from then on applies the events it is sent.   *)
(***************************************************************************)
EXTENDS TaskService, Sequences

CONSTANTS
  Sessions,
  SessionUser,  \* SessionUser[s] is the authenticated user of session s
  MaxBacklog    \* bound: events a subscription holds that were not forwarded

ASSUME LiveAssumption ==
  /\ SessionUser \in [Sessions -> Users]
  /\ MaxBacklog \in Nat

Event == [id : Ids \cup {0}, row : Row \cup {None}]  \* no row: deleted
NoEvent == [id |-> 0, row |-> None]

VARIABLES
  payload,  \* payload[r]: the event request r is going to publish
  session,  \* where each session is
  inbox,    \* events delivered to a subscription and not forwarded yet
  view,     \* what the client of a session knows of the tasks
  missed,   \* history: tasks announced between a greeting and its subscription
  doubt     \* history: tasks whose last events overlapped or were lost

liveVars == <<payload, session, inbox, view, missed, doubt>>
allVars == <<vars, liveVars>>

LiveTypeOK ==
  /\ TypeOK
  /\ payload \in [Writers -> Event]
  /\ session \in [Sessions -> {"closed", "greeted", "live"}]
  /\ inbox \in [Sessions -> Seq(Event)]
  /\ view \in [Sessions -> Result]
  /\ missed \in [Sessions -> SUBSET Ids]
  /\ doubt \in SUBSET Ids

LiveInit ==
  /\ Init
  /\ payload = [r \in Writers |-> NoEvent]
  /\ session = [s \in Sessions |-> "closed"]
  /\ inbox = [s \in Sessions |-> <<>>]
  /\ view = [s \in Sessions |-> NoRows]
  /\ missed = [s \in Sessions |-> {}]
  /\ doubt = {}

-----------------------------------------------------------------------------
(* Request r is past a commit about task i and will still publish.  One    *)
(* whose row is gone at the refresh raises and never does.                 *)
Announces(r, i) ==
  /\ write[r] # None
  /\ \/ write[r].at = "refresh" /\ write[r].id = i /\ db[i] # None
     \/ write[r].at \in {"keys", "delete", "publish"} /\ payload[r].id = i

OthersAnnounce(r, i) == \E q \in Writers \ {r} : Announces(q, i)

(* What the two histories remember of a step.  Overlap: a row changes while *)
(* an event about it is on its way.                                        *)
Overlaps(r) == {i \in Ids : db'[i] # db[i] /\ OthersAnnounce(r, i)}

Keeps(r) == UNCHANGED <<session, inbox, view, missed>>

-----------------------------------------------------------------------------
(* Task requests.  Up to the commit and during the invalidation nothing    *)
(* happens to the event.                                                   *)
Quiet(r) == (WriterStarts(r) \/ CheckTitle(r) \/ CheckOwner(r)) /\ UNCHANGED liveVars

Invalidates(r) == (FindKeys(r) \/ FindKeysFails(r)) /\ UNCHANGED liveVars

(* Faulty: the event is made of the fields of the payload. *)
ChangeRowEchoes(r) ==
  /\ Insert(r) \/ Update(r)
  /\ payload' = [payload EXCEPT ![r] =
       [id |-> write'[r].id, row |-> [owner |-> write[r].user, title |-> write[r].want.title,
                                      status |-> write[r].want.status]]]
  /\ doubt' = doubt \cup Overlaps(r)
  /\ Keeps(r)

ChangeRow(r) ==
  /\ Insert(r) \/ Update(r)
  /\ doubt' = doubt \cup Overlaps(r)
  /\ UNCHANGED payload
  /\ Keeps(r)

(* The event of a delete has the id only. *)
RemoveRow(r) ==
  /\ Delete(r)
  /\ payload' = [payload EXCEPT ![r] = [id |-> write[r].id, row |-> None]]
  /\ doubt' = doubt \cup Overlaps(r)
  /\ Keeps(r)

(* Faulty: a default is announced in place of the column in the table. *)
ReloadRowDefaults(r) ==
  /\ Refresh(r)
  /\ payload' = [payload EXCEPT ![r] =
       IF db[write[r].id] = None THEN NoEvent
       ELSE [id |-> write[r].id,
             row |-> [db[write[r].id] EXCEPT !.status = CHOOSE x \in Statuses : TRUE]]]
  /\ Keeps(r) /\ UNCHANGED doubt

(* The event of a create or update has the row as the refresh reads it. *)
ReloadRow(r) ==
  /\ Refresh(r)
  /\ payload' = [payload EXCEPT ![r] =
       IF db[write[r].id] = None THEN NoEvent
       ELSE [id |-> write[r].id, row |-> db[write[r].id]]]
  /\ Keeps(r) /\ UNCHANGED doubt

(* The event is the row as it is, and no other about it is on its way. *)
Undisturbed(r) ==
  payload[r].row = db[payload[r].id] /\ ~OthersAnnounce(r, payload[r].id)

(* PUBLISH on the channel of the user. *)
Subscribed(u) == {s \in Sessions : session[s] = "live" /\ SessionUser[s] = u}

(* Faulty: one channel for all users. *)
EventDeliveredToAll(r) ==
  /\ Publish(r)
  /\ \A s \in Sessions : Len(inbox[s]) < MaxBacklog
  /\ inbox' = [s \in Sessions |->
       IF session[s] = "live" THEN Append(inbox[s], payload[r]) ELSE inbox[s]]
  /\ payload' = [payload EXCEPT ![r] = NoEvent]
  /\ UNCHANGED <<session, view, missed, doubt>>

EventDelivered(r) ==
  /\ Publish(r)
  /\ LET event == payload[r]
         u == write[r].user
         repaired == IF Undisturbed(r) THEN {event.id} ELSE {}
     IN /\ \A s \in Subscribed(u) : Len(inbox[s]) < MaxBacklog
        /\ inbox' = [s \in Sessions |->
             IF s \in Subscribed(u) THEN Append(inbox[s], event) ELSE inbox[s]]
        /\ missed' = [s \in Sessions |->
             IF s \in Subscribed(u) THEN missed[s] \ repaired
             ELSE IF session[s] = "greeted" /\ SessionUser[s] = u
             THEN missed[s] \cup {event.id} ELSE missed[s]]
        /\ doubt' = doubt \ repaired
  /\ payload' = [payload EXCEPT ![r] = NoEvent]
  /\ UNCHANGED <<session, view>>

(* The command fails, or the request dies before it. *)
EventLost(r) ==
  /\ Publish(r) \/ WriterDies(r)
  /\ doubt' = doubt \cup {i \in Ids : Announces(r, i)}
  /\ payload' = [payload EXCEPT ![r] = NoEvent]
  /\ Keeps(r)

-----------------------------------------------------------------------------
(* Sessions.  The greeting is sent before the subscription exists. *)
Greet(s) ==
  /\ session[s] = "closed"
  /\ session' = [session EXCEPT ![s] = "greeted"]
  /\ view' = [view EXCEPT ![s] = Query(SessionUser[s], All)]
  /\ UNCHANGED <<vars, payload, inbox, missed, doubt>>

Subscribe(s) ==
  /\ session[s] = "greeted"
  /\ session' = [session EXCEPT ![s] = "live"]
  /\ UNCHANGED <<vars, payload, inbox, view, missed, doubt>>

(* Faulty: the newest event first. *)
ForwardNewest(s) ==
  /\ session[s] = "live" /\ inbox[s] # <<>>
  /\ LET event == inbox[s][Len(inbox[s])] IN view' = [view EXCEPT ![s][event.id] = event.row]
  /\ inbox' = [inbox EXCEPT ![s] = SubSeq(@, 1, Len(@) - 1)]
  /\ UNCHANGED <<vars, payload, session, missed, doubt>>

(* Faulty: a message that is not understood is looked at again and again. *)
ForwardStalls(s) == session[s] = "live" /\ inbox[s] # <<>> /\ UNCHANGED allVars

(* One message was taken from the subscription and its send returned True. *)
Forward(s) ==
  /\ session[s] = "live" /\ inbox[s] # <<>>
  /\ LET event == Head(inbox[s]) IN view' = [view EXCEPT ![s][event.id] = event.row]
  /\ inbox' = [inbox EXCEPT ![s] = Tail(@)]
  /\ UNCHANGED <<vars, payload, session, missed, doubt>>

(* The peer left, a send or Redis failed: what was not forwarded is lost.  *)
(* The client connects again or not.                                       *)
SessionEnds(s) ==
  /\ session[s] # "closed"
  /\ session' = [session EXCEPT ![s] = "closed"]
  /\ inbox' = [inbox EXCEPT ![s] = <<>>]
  /\ view' = [view EXCEPT ![s] = NoRows]
  /\ missed' = [missed EXCEPT ![s] = {}]
  /\ UNCHANGED <<vars, payload, doubt>>

-----------------------------------------------------------------------------
Announcing(r) == ReloadRow(r) \/ Invalidates(r) \/ EventDelivered(r)

RequestStep(r) ==
  \/ Quiet(r) \/ ChangeRow(r) \/ RemoveRow(r) \/ Announcing(r) \/ EventLost(r)

SessionStep(s) == Greet(s) \/ Subscribe(s) \/ Forward(s) \/ SessionEnds(s)

LiveNext ==
  \/ \E r \in Writers : RequestStep(r)
  \/ \E s \in Sessions : SessionStep(s)

LiveSpec == LiveInit /\ [][LiveNext]_allVars

(* A request past its commit goes on until it has published, or failed to, *)
(* and a session forwards what it received.                                *)
LiveFairness ==
  /\ \A r \in Writers : WF_allVars(Announcing(r) \/ (Publish(r) /\ EventLost(r)))
  /\ \A s \in Sessions : WF_allVars(Forward(s))

LiveFairSpec == LiveSpec /\ LiveFairness

-----------------------------------------------------------------------------
(* What the client will know of task i once all it was sent has arrived. *)
About(s, i) == {k \in DOMAIN inbox[s] : inbox[s][k].id = i}

Latest(s, i) ==
  IF About(s, i) = {} THEN view[s][i]
  ELSE inbox[s][CHOOSE k \in About(s, i) : \A j \in About(s, i) : j <= k].row

(* A client's picture of a task is out of date only while an event that    *)
(* brings it up to date is still to come: from a request whose response is *)
(* still to come, too.  The exceptions are tasks whose last event was lost *)
(* or overlapped another write to the task, or was published between this  *)
(* client's greeting ("Connected to live updates") and its subscription;   *)
(* the next undisturbed write repairs them.                                *)
ViewsExplained ==
  \A s \in Sessions, i \in Ids :
    session[s] = "live" /\ i \notin doubt \cup missed[s] =>
      \/ Latest(s, i) = Query(SessionUser[s], All)[i]
      \/ \E r \in Writers : Announces(r, i) /\ write[r].user = SessionUser[s]

(* While no task is in doubt, an event about to be published is the row as *)
(* it is: nothing published later than a response contradicts it.          *)
EventsCurrent ==
  \A r \in Writers, i \in Ids \ doubt :
    Announces(r, i) /\ write[r].at # "refresh" => payload[r].row = db[i]

(* Events of a user reach the sessions of that user and no others.         *)
ChannelsApart ==
  \A s \in Sessions :
    /\ \A k \in DOMAIN inbox[s] : inbox[s][k].row # None => inbox[s][k].row.owner = SessionUser[s]
    /\ \A i \in Ids : view[s][i] # None => view[s][i].owner = SessionUser[s]

(* When the rows stop changing, every session still there ends up showing  *)
(* them, with the same exceptions.                                         *)
ViewsSettle ==
  \/ []<><<db' # db>>_allVars
  \/ <>[](\A s \in Sessions, i \in Ids :
            session[s] = "live" /\ i \notin doubt \cup missed[s] =>
              view[s][i] = Query(SessionUser[s], All)[i])
=============================================================================
