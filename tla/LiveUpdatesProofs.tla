------------------------- MODULE LiveUpdatesProofs -------------------------
(***************************************************************************)
(* Proofs about LiveUpdates, for any users, sessions, requests and size of *)
(* the backlog.  A step of LiveUpdates is one of TaskService or none, so   *)
(* all that TaskServiceProofs proves holds here too (Tasks).               *)
(*                                                                         *)
(* ViewsExplained is inductive together with what it says of a session     *)
(* that is greeted and not subscribed yet (Explained), with EventsCurrent, *)
(* and with OneOwner: whatever is known of a task anywhere, in the table,  *)
(* by a request, by a subscription or by a client, is known for one user   *)
(* only.  It is why an event may clear the doubt about its task for the    *)
(* sessions of all other users.                                            *)
(***************************************************************************)
EXTENDS LiveUpdates, TaskServiceProofs, SequenceTheorems

(* A request has its event between its refresh, or delete, and its end. *)
HasEvent(r) == write[r] # None /\ write[r].at \in {"keys", "delete", "publish"}

Payloads ==
  \A r \in Writers :
    IF HasEvent(r)
    THEN /\ payload[r].id \in Ids
         /\ payload[r].row # None => payload[r].row.owner = write[r].user
    ELSE payload[r] = NoEvent

(* Task i is known for user u. *)
ClaimedBy(r, i, u) ==
  /\ write[r] # None /\ write[r].user = u
  /\ (ActsOnTask(r) /\ write[r].id = i) \/ payload[r].id = i

ShownTo(s, i) == view[s][i] # None \/ About(s, i) # {}

Claim(i, u) ==
  \/ db[i] # None /\ db[i].owner = u
  \/ \E r \in Writers : ClaimedBy(r, i, u)
  \/ \E s \in Sessions : SessionUser[s] = u /\ ShownTo(s, i)

OneOwner == \A i \in Ids, u, v \in Users : Claim(i, u) /\ Claim(i, v) => u = v

(* Nothing is known of tasks still to come. *)
ClaimsTaken == \A i \in Ids, u \in Users : Claim(i, u) => i < nextId

(* The CHOOSE of Latest has something to choose. *)
HasLatest(s, i) == About(s, i) = {} \/ \E k \in About(s, i) : \A j \in About(s, i) : j <= k

LatestDefined == \A s \in Sessions, i \in Ids : HasLatest(s, i)

(* Without a subscription there is no backlog. *)
EmptyInboxes == \A s \in Sessions : session[s] # "live" => inbox[s] = <<>>

Settled(s, i) ==
  \/ Latest(s, i) = Query(SessionUser[s], All)[i]
  \/ \E r \in Writers : Announces(r, i) /\ write[r].user = SessionUser[s]

Explained ==
  \A s \in Sessions, i \in Ids :
    session[s] # "closed" /\ i \notin doubt \cup missed[s] => Settled(s, i)

(* The types of this module's own variables. *)
LiveTypes ==
  /\ payload \in [Writers -> Event]
  /\ session \in [Sessions -> {"closed", "greeted", "live"}]
  /\ inbox \in [Sessions -> Seq(Event)]
  /\ view \in [Sessions -> Result]
  /\ missed \in [Sessions -> SUBSET Ids]
  /\ doubt \in SUBSET Ids

Claims == OneOwner /\ ClaimsTaken

LInv ==
  /\ LiveTypes /\ Payloads /\ EmptyInboxes /\ LatestDefined /\ Claims
  /\ EventsCurrent /\ ChannelsApart /\ Explained

-----------------------------------------------------------------------------
(* The latest event about a task: what arrives last, and what is forwarded *)
(* first.                                                                  *)
LEMMA LastOf ==
  ASSUME NEW A \in SUBSET Nat, NEW k \in A, \A j \in A : j <= k
  PROVE  (CHOOSE m \in A : \A j \in A : j <= m) = k
<1> DEFINE m == CHOOSE m \in A : \A j \in A : j <= m
<1>1. m \in A /\ \A j \in A : j <= m
  OBVIOUS
<1>2. m <= k /\ k <= m /\ m \in Nat /\ k \in Nat
  BY <1>1
<1> QED
  BY <1>2

LEMMA AboutType ==
  ASSUME NEW s \in Sessions, inbox[s] \in Seq(Event), NEW i
  PROVE  /\ About(s, i) = {k \in 1 .. Len(inbox[s]) : inbox[s][k].id = i}
         /\ About(s, i) \in SUBSET Nat
BY DEF About

LEMMA LatestIs ==
  ASSUME NEW s \in Sessions, inbox[s] \in Seq(Event), NEW i,
         NEW k \in About(s, i), \A j \in About(s, i) : j <= k
  PROVE  Latest(s, i) = inbox[s][k].row
<1>1. (CHOOSE m \in About(s, i) : \A j \in About(s, i) : j <= m) = k
  BY AboutType, LastOf
<1> QED
  BY <1>1 DEF Latest

LEMMA LatestIsNext ==
  ASSUME NEW s \in Sessions, inbox'[s] \in Seq(Event), NEW i,
         NEW k \in About(s, i)', \A j \in About(s, i)' : j <= k
  PROVE  Latest(s, i)' = inbox'[s][k].row
<1>1. About(s, i)' \in SUBSET Nat
  BY DEF About
<1>2. (CHOOSE m \in About(s, i)' : \A j \in About(s, i)' : j <= m) = k
  BY <1>1, LastOf
<1> QED
  BY <1>2 DEF Latest

LEMMA InboxSame ==
  ASSUME NEW s \in Sessions, NEW i, inbox'[s] = inbox[s], view'[s] = view[s]
  PROVE  About(s, i)' = About(s, i) /\ Latest(s, i)' = Latest(s, i)
<1>1. About(s, i)' = About(s, i)
  BY DEF About
<1> QED
  BY <1>1 DEF Latest

LEMMA InboxAppend ==
  ASSUME NEW s \in Sessions, inbox[s] \in Seq(Event), NEW event \in Event, NEW i,
         inbox'[s] = Append(inbox[s], event), view'[s] = view[s], HasLatest(s, i)
  PROVE  /\ HasLatest(s, i)'
         /\ event.id = i => Latest(s, i)' = event.row
         /\ event.id # i => About(s, i)' = About(s, i) /\ Latest(s, i)' = Latest(s, i)
<1> DEFINE n == Len(inbox[s])
<1>1. /\ inbox'[s] \in Seq(Event) /\ Len(inbox'[s]) = n + 1 /\ n \in Nat
      /\ inbox'[s][n + 1] = event
      /\ \A k \in 1 .. n : inbox'[s][k] = inbox[s][k]
  OBVIOUS
<1>2. About(s, i) = {k \in 1 .. n : inbox[s][k].id = i}
  BY DEF About
<1>3. About(s, i)' = {k \in 1 .. n + 1 : inbox'[s][k].id = i}
  BY <1>1 DEF About
<1>4. CASE event.id = i
  <2>1. n + 1 \in About(s, i)' /\ \A j \in About(s, i)' : j <= n + 1
    BY <1>1, <1>3, <1>4
  <2>2. Latest(s, i)' = event.row
    BY <1>1, <2>1, LatestIsNext
  <2> QED
    BY <1>4, <2>1, <2>2 DEF HasLatest
<1>5. CASE event.id # i
  <2>1. About(s, i)' = About(s, i)
    BY <1>1, <1>2, <1>3, <1>5
  <2>2. CASE About(s, i) = {}
    BY <1>5, <2>1, <2>2 DEF HasLatest, Latest
  <2>3. CASE \E k \in About(s, i) : \A j \in About(s, i) : j <= k
    <3>1. PICK k \in About(s, i) : \A j \in About(s, i) : j <= k
      BY <2>3
    <3>2. Latest(s, i) = inbox[s][k].row
      BY <3>1, LatestIs
    <3>3. Latest(s, i)' = inbox'[s][k].row
      BY <1>1, <2>1, <3>1, LatestIsNext
    <3>4. inbox'[s][k] = inbox[s][k]
      BY <1>1, <1>2, <3>1
    <3> QED
      BY <1>5, <2>1, <3>1, <3>2, <3>3, <3>4 DEF HasLatest
  <2> QED
    BY <2>2, <2>3 DEF HasLatest
<1> QED
  BY <1>4, <1>5

LEMMA InboxTail ==
  ASSUME NEW s \in Sessions, inbox[s] \in Seq(Event), inbox[s] # <<>>, view[s] \in Result,
         NEW i \in Ids, inbox'[s] = Tail(inbox[s]),
         view'[s] = [view[s] EXCEPT ![Head(inbox[s]).id] = Head(inbox[s]).row], HasLatest(s, i)
  PROVE  /\ HasLatest(s, i)' /\ Latest(s, i)' = Latest(s, i)
         /\ About(s, i)' # {} \/ view'[s][i] # None => ShownTo(s, i)
<1> DEFINE n == Len(inbox[s])
<1>1. /\ inbox'[s] \in Seq(Event) /\ n \in Nat \ {0} /\ Len(inbox'[s]) = n - 1
      /\ Head(inbox[s]) = inbox[s][1]
      /\ \A k \in 1 .. n - 1 : inbox'[s][k] = inbox[s][k + 1]
  BY HeadTailProperties, EmptySeq
<1>2. About(s, i) = {k \in 1 .. n : inbox[s][k].id = i}
  BY DEF About
<1>3. About(s, i)' = {k \in 1 .. n - 1 : inbox[s][k + 1].id = i}
  BY <1>1 DEF About
<1>4. \A k \in About(s, i)' : k + 1 \in About(s, i)
  BY <1>1, <1>2, <1>3
<1>5. \A k \in About(s, i) : k # 1 => k - 1 \in About(s, i)'
  BY <1>1, <1>2, <1>3
<1>6. view'[s][i] = IF inbox[s][1].id = i THEN inbox[s][1].row ELSE view[s][i]
  BY <1>1 DEF Result
<1>7. 1 \in About(s, i) <=> inbox[s][1].id = i
  BY <1>1, <1>2
<1>8. CASE About(s, i) = {}
  <2>1. About(s, i)' = {}
    BY <1>4, <1>8
  <2> QED
    BY <1>6, <1>7, <1>8, <2>1 DEF HasLatest, Latest, ShownTo
<1>9. CASE \E k \in About(s, i) : \A j \in About(s, i) : j <= k
  <2>1. PICK k \in About(s, i) : \A j \in About(s, i) : j <= k
    BY <1>9
  <2>2. Latest(s, i) = inbox[s][k].row
    BY <2>1, LatestIs
  <2>3. k \in 1 .. n
    BY <1>2, <2>1
  <2>4. CASE k = 1
    <3>1. About(s, i)' = {}
      BY <1>1, <1>3, <1>4, <2>1, <2>4
    <3>2. view'[s][i] = inbox[s][1].row
      BY <1>6, <1>7, <2>1, <2>4
    <3> QED
      BY <2>1, <2>2, <2>4, <3>1, <3>2 DEF HasLatest, Latest, ShownTo
  <2>5. CASE k # 1
    <3>1. k - 1 \in About(s, i)'
      BY <1>5, <2>1, <2>5
    <3>2. \A j \in About(s, i)' : j <= k - 1
      <4>1. SUFFICES ASSUME NEW j \in About(s, i)' PROVE j <= k - 1
        OBVIOUS
      <4>2. j + 1 <= k /\ j \in 1 .. n - 1
        BY <1>3, <1>4, <2>1
      <4> QED
        BY <2>3, <4>2
    <3>3. Latest(s, i)' = inbox'[s][k - 1].row
      BY <1>1, <3>1, <3>2, LatestIsNext
    <3>4. inbox'[s][k - 1] = inbox[s][k]
      BY <1>1, <2>3, <2>5
    <3> QED
      BY <2>1, <2>2, <3>1, <3>2, <3>3, <3>4 DEF HasLatest, ShownTo
  <2> QED
    BY <2>4, <2>5
<1> QED
  BY <1>8, <1>9 DEF HasLatest

-----------------------------------------------------------------------------
(* What the steps of a request leave in its record and its event. *)
OtherWriters(r) ==
  \A q \in Writers : q # r => write'[q] = write[q] /\ payload'[q] = payload[q]

LEMMA PayloadNone ==
  ASSUME Payloads, NEW r \in Writers, ~HasEvent(r)
  PROVE  payload[r] = NoEvent /\ payload[r].id = 0 /\ \A i \in Ids : payload[r].id # i
BY DEF Payloads, NoEvent, Ids

LEMMA QuietEffect ==
  ASSUME IInv, Payloads, NEW r \in Writers, Quiet(r)
  PROVE  /\ UNCHANGED <<db, nextId, liveVars>> /\ OtherWriters(r) /\ ~HasEvent(r)'
         /\ payload[r] = NoEvent
         /\ \A i \in Ids : ~Announces(r, i)
         /\ \A i \in Ids, u \in Users : ClaimedBy(r, i, u)' => db[i] # None /\ db[i].owner = u
<1>0. TypeOK
  BY DEF IInv
<1>1. UNCHANGED <<db, nextId>> /\ UNCHANGED liveVars
  BY DEF Quiet, WriterStarts, StartCreate, StartUpdate, StartDelete, StartWrite, CheckTitle, CheckOwner
<1>2. ASSUME ~HasEvent(r), ~HasEvent(r)', OtherWriters(r),
             write[r] = None \/ write[r].at # "refresh",
             \A i \in Ids, u \in Users :
               (write[r] # None /\ write[r].user = u /\ ActsOnTask(r) /\ write[r].id = i)'
                 => db[i] # None /\ db[i].owner = u
      PROVE  /\ OtherWriters(r) /\ ~HasEvent(r)' /\ payload[r] = NoEvent
             /\ \A i \in Ids : ~Announces(r, i)
             /\ \A i \in Ids, u \in Users :
                  ClaimedBy(r, i, u)' => db[i] # None /\ db[i].owner = u
  <2>1. \A i \in Ids : payload[r].id # i /\ payload'[r].id # i
    BY <1>1, <1>2, PayloadNone DEF liveVars
  <2>2. \A i \in Ids : ~Announces(r, i)
    BY <1>2 DEF Announces, HasEvent
  <2>3. \A i \in Ids, u \in Users :
          ClaimedBy(r, i, u)' => db[i] # None /\ db[i].owner = u
    BY <1>2, <2>1 DEF ClaimedBy
  <2> QED
    BY <1>2, <2>2, <2>3, PayloadNone
<1>3. CASE WriterStarts(r)
  <2>1. write[r] = None /\ write'[r].at = "check" /\ \A q \in Writers : q # r => write'[q] = write[q]
    BY <1>0, <1>3 DEF WriterStarts, StartCreate, StartUpdate, StartDelete, StartWrite, TypeOK
  <2>2. ~HasEvent(r) /\ ~HasEvent(r)' /\ OtherWriters(r) /\ ~ActsOnTask(r)'
    BY <1>1, <2>1 DEF HasEvent, OtherWriters, ActsOnTask, WriteAt, liveVars
  <2> QED
    BY <1>1, <1>2, <2>1, <2>2
<1>4. CASE CheckTitle(r)
  <2>1. write[r] # None /\ write[r].at = "check" /\ write[r].op = "create"
    BY <1>4 DEF CheckTitle, WriteAt
  <2>2. \/ write'[r] = None
        \/ write'[r].at = "commit" /\ write'[r].op = "create"
    BY <1>0, <1>4, <2>1, EndsEffect, GoesEffect DEF CheckTitle
  <2>3. \A q \in Writers : q # r => write'[q] = write[q]
    BY <1>0, <1>4, <2>1, EndsEffect, GoesEffect DEF CheckTitle
  <2>4. ~HasEvent(r) /\ ~HasEvent(r)' /\ OtherWriters(r) /\ ~ActsOnTask(r)'
    BY <1>1, <2>1, <2>2, <2>3 DEF HasEvent, OtherWriters, ActsOnTask, WriteAt, liveVars
  <2> QED
    BY <1>1, <1>2, <2>1, <2>4
<1>5. CASE CheckOwner(r)
  <2>1. write[r] # None /\ write[r].at = "check" /\ write[r] \in WriteRequest
    BY <1>0, <1>5, WriterType DEF CheckOwner, WriteAt
  <2>2. \/ write'[r] = None
        \/ /\ Owned(write[r].user, write[r].id) /\ write'[r].at = "commit"
           /\ write'[r].user = write[r].user /\ write'[r].id = write[r].id
    BY <1>0, <1>5, <2>1, EndsEffect DEF CheckOwner, TypeOK, WriteRequest
  <2>3. \A q \in Writers : q # r => write'[q] = write[q]
    BY <1>0, <1>5, EndsEffect DEF CheckOwner, TypeOK
  <2>4. ~HasEvent(r) /\ ~HasEvent(r)' /\ OtherWriters(r)
    BY <1>1, <2>1, <2>2, <2>3 DEF HasEvent, OtherWriters, liveVars
  <2> QED
    BY <1>1, <1>2, <2>1, <2>2, <2>4 DEF Owned
<1> QED
  BY <1>1, <1>3, <1>4, <1>5 DEF Quiet

(* The rows a commit changes are the user's own, before and after. *)
LEMMA ChangeEffect ==
  ASSUME IInv, Payloads, NEW r \in Writers, Insert(r) \/ Update(r), UNCHANGED payload
  PROVE  /\ OtherWriters(r) /\ ~HasEvent(r)' /\ payload'[r] = NoEvent /\ nextId <= nextId'
         /\ \A i \in Ids : ~Announces(r, i)
         /\ \A i \in Ids : db'[i] # db[i] =>
              /\ db'[i] # None /\ db'[i].owner = write[r].user
              /\ db[i] # None => db[i].owner = write[r].user
              /\ Announces(r, i)' /\ write'[r].user = write[r].user
         /\ \A i \in Ids, u \in Users :
              ClaimedBy(r, i, u)' \/ (db'[i] # None /\ db'[i].owner = u) =>
                Claim(i, u) \/ (i = nextId /\ nextId' = nextId + 1 /\ u = write[r].user)
<1>0. TypeOK /\ Requests /\ nextId \in Nat
  BY DEF IInv, TypeOK
<1>1. /\ write[r] # None /\ write[r].at = "commit" /\ write[r] \in WriteRequest
      /\ ~HasEvent(r)
  BY <1>0, WriterType DEF Insert, Update, WriteAt, HasEvent
<1>2. /\ payload[r] = NoEvent /\ \A i \in Ids : payload'[r].id # i
  BY <1>1, PayloadNone
<1>3. \A i \in Ids : ~Announces(r, i)
  BY <1>1 DEF Announces
<1>4. CASE Insert(r)
  <2>1. /\ nextId \in Ids /\ nextId' = nextId + 1 /\ db[nextId] = None
        /\ Commits(r, "refresh", nextId)
        /\ \A i \in Ids : i # nextId => db'[i] = db[i]
        /\ db'[nextId] = [owner |-> write[r].user, title |-> write[r].want.title,
                          status |-> write[r].want.status]
    BY <1>0, <1>4 DEF Insert, TypeOK, Result, Ids, Requests, SequenceAhead
  <2>2. /\ write'[r].at = "refresh" /\ write'[r].id = nextId /\ write'[r].user = write[r].user
        /\ write'[r] # None /\ \A q \in Writers : q # r => write'[q] = write[q]
    BY <1>0, <1>1, <2>1, CommitsEffect, CommitsStays
  <2>3. PayloadsComplete /\ WriteAt(r, {"create"}, "commit")
    BY <1>0, <1>4 DEF Requests, Insert
  <2>4. db'[nextId] \in Row
    BY <1>1, <2>1, <2>3 DEF PayloadsComplete, Row, WriteRequest
  <2>5. db'[nextId] # None
    BY <2>4, NoneAssumption
  <2>6. \A i \in Ids : i = nextId => Announces(r, i)'
    BY <2>2, <2>5 DEF Announces
  <2>7. OtherWriters(r) /\ ~HasEvent(r)'
    BY <2>2 DEF OtherWriters, HasEvent
  <2>8. \A i \in Ids, u \in Users :
          ClaimedBy(r, i, u)' \/ (db'[i] # None /\ db'[i].owner = u) =>
            Claim(i, u) \/ (i = nextId /\ nextId' = nextId + 1 /\ u = write[r].user)
    BY <1>2, <2>1, <2>2 DEF ClaimedBy, Claim
  <2> QED
    BY <1>0, <1>2, <1>3, <2>1, <2>2, <2>5, <2>6, <2>7, <2>8
<1>5. CASE Update(r)
  <2>1. /\ ActsOnTask(r) /\ NamesTask(r) /\ write[r].id \in Ids /\ nextId' = nextId
        /\ db[write[r].id] # None => db[write[r].id].owner = write[r].user
    <3>1. ActsOnTask(r) /\ NamesTask(r)
      BY <1>5 DEF Update, WriteAt, ActsOnTask, NamesTask
    <3> QED
      BY <1>0, <1>5, <3>1 DEF Update, Requests, ActsOnOwn, TasksNamed
  <2>2. /\ \A q \in Writers : q # r => write'[q] = write[q]
        /\ \/ write'[r] = None /\ db' = db
           \/ /\ write'[r] # None /\ write'[r].at = "refresh" /\ write'[r].id = write[r].id
              /\ write'[r].user = write[r].user
              /\ \/ db' = db
                 \/ /\ db[write[r].id] # None
                    /\ db' = [db EXCEPT ![write[r].id] = Updated(r, @)]
    BY <1>0, <1>1, <1>5, <2>1, CommitsEffect, CommitsStays, EndsEffect DEF Update
  <2>3. OtherWriters(r) /\ ~HasEvent(r)'
    BY <2>2 DEF OtherWriters, HasEvent
  <2>4. \A i \in Ids : db'[i] # db[i] =>
          /\ i = write[r].id /\ write'[r] # None /\ write'[r].at = "refresh"
          /\ write'[r].id = i /\ write'[r].user = write[r].user
          /\ db[i] # None /\ db'[i].owner = write[r].user
    BY <1>0, <2>1, <2>2 DEF TypeOK, Result, Updated
  <2>5. \A i \in Ids : db[i] # None => db'[i] # None
    <3>1. db' \in Result /\ db \in Result
      BY <1>0, <1>5, DatabaseTypes DEF TypeOK
    <3>2. SUFFICES ASSUME NEW i \in Ids, db[i] # None, db'[i] # db[i] PROVE db'[i] # None
      OBVIOUS
    <3>3. db'[i] = Updated(r, db[i])
      BY <1>0, <2>2, <2>4, <3>2 DEF TypeOK, Result
    <3>4. db[i] \in Row /\ write[r].want \in Fields
      BY <1>1, <3>1, <3>2 DEF Result, WriteRequest
    <3>5. Updated(r, db[i]) \in Row
      BY <3>4 DEF Updated, Changes, Row, Fields
    <3> QED
      BY <3>3, <3>5, NoneAssumption
  <2>6. \A i \in Ids : db'[i] # db[i] => Announces(r, i)'
    BY <2>4, <2>5 DEF Announces
  <2>7. \A i \in Ids, u \in Users : ClaimedBy(r, i, u)' => ClaimedBy(r, i, u)
    BY <1>1, <1>2, <2>1, <2>2 DEF ClaimedBy
  <2>8. \A i \in Ids, u \in Users :
          ClaimedBy(r, i, u)' \/ (db'[i] # None /\ db'[i].owner = u) => Claim(i, u)
    BY <2>1, <2>4, <2>7 DEF Claim
  <2> QED
    BY <1>0, <1>2, <1>3, <2>1, <2>3, <2>4, <2>5, <2>6, <2>8
<1> QED
  BY <1>4, <1>5

LEMMA RemoveEffect ==
  ASSUME IInv, LiveTypes, Payloads, NEW r \in Writers, RemoveRow(r)
  PROVE  /\ OtherWriters(r) /\ HasEvent(r)' /\ nextId' = nextId
         /\ write[r].id \in Ids /\ payload'[r].id = write[r].id /\ payload'[r].row = None
         /\ write'[r].user = write[r].user
         /\ \A i \in Ids : ~Announces(r, i)
         /\ \A i \in Ids : i # write[r].id => db'[i] = db[i]
         /\ \A i \in Ids : i = write[r].id =>
              /\ db'[i] = None /\ Announces(r, i)'
              /\ db[i] # None => db[i].owner = write[r].user
         /\ \A i \in Ids, u \in Users :
              ClaimedBy(r, i, u)' \/ (db'[i] # None /\ db'[i].owner = u) => Claim(i, u)
<1>0. TypeOK /\ Requests
  BY DEF IInv
<1>1. /\ write[r] # None /\ write[r].at = "commit" /\ write[r] \in WriteRequest
      /\ Commits(r, "keys", 0) /\ db' = [db EXCEPT ![write[r].id] = None] /\ nextId' = nextId
      /\ payload' = [payload EXCEPT ![r] = [id |-> write[r].id, row |-> None]]
  BY <1>0, WriterType DEF RemoveRow, Delete, WriteAt
<1>2. /\ ActsOnTask(r) /\ write[r].id \in Ids
      /\ db[write[r].id] # None => db[write[r].id].owner = write[r].user
  <2>1. ActsOnTask(r) /\ NamesTask(r)
    BY DEF RemoveRow, Delete, WriteAt, ActsOnTask, NamesTask
  <2> QED
    BY <1>0, <2>1 DEF Requests, ActsOnOwn, TasksNamed
<1>3. /\ write'[r] # None /\ write'[r].at = "keys" /\ write'[r].user = write[r].user
      /\ \A q \in Writers : q # r => write'[q] = write[q]
  BY <1>0, <1>1, CommitsEffect, CommitsStays
<1>4. /\ payload'[r].id = write[r].id /\ payload'[r].row = None
      /\ \A q \in Writers : q # r => payload'[q] = payload[q]
  BY <1>1 DEF LiveTypes
<1>5. HasEvent(r)' /\ OtherWriters(r) /\ \A i \in Ids : ~Announces(r, i)
  BY <1>1, <1>3, <1>4 DEF HasEvent, OtherWriters, Announces
<1>6. \A i \in Ids : i = write[r].id => Announces(r, i)'
  BY <1>3, <1>4 DEF Announces
<1>7. \A i \in Ids : db'[i] = IF i = write[r].id THEN None ELSE db[i]
  BY <1>0, <1>1 DEF TypeOK, Result
<1>8. \A i \in Ids, u \in Users : ClaimedBy(r, i, u)' => ClaimedBy(r, i, u)
  BY <1>1, <1>2, <1>3, <1>4 DEF ClaimedBy, ActsOnTask, WriteAt
<1>9. \A i \in Ids, u \in Users :
        ClaimedBy(r, i, u)' \/ (db'[i] # None /\ db'[i].owner = u) => Claim(i, u)
  BY <1>7, <1>8 DEF Claim
<1> QED
  BY <1>1, <1>2, <1>3, <1>4, <1>5, <1>6, <1>7, <1>9

LEMMA ReloadEffect ==
  ASSUME IInv, LiveTypes, Payloads, NEW r \in Writers, ReloadRow(r)
  PROVE  /\ OtherWriters(r) /\ UNCHANGED <<db, nextId>>
         /\ \/ /\ ~HasEvent(r)' /\ payload'[r] = NoEvent
               /\ \A i \in Ids : ~Announces(r, i)
            \/ /\ HasEvent(r)' /\ write'[r].user = write[r].user
               /\ write[r].id \in Ids /\ payload'[r].id = write[r].id
               /\ payload'[r].row = db[write[r].id] /\ payload'[r].row \in Row
               /\ payload'[r].row.owner = write[r].user
               /\ \A i \in Ids : Announces(r, i) => Announces(r, i)'
         /\ \A i \in Ids, u \in Users : ClaimedBy(r, i, u)' => ClaimedBy(r, i, u)
<1>0. TypeOK /\ Requests
  BY DEF IInv
<1>1. /\ write[r] # None /\ write[r].at = "refresh" /\ write[r] \in WriteRequest
      /\ UNCHANGED <<db, nextId>>
  BY <1>0, WriterType DEF ReloadRow, Refresh, WriteAt
<1>2. /\ ActsOnTask(r) /\ write[r].id \in Ids
      /\ db[write[r].id] # None => db[write[r].id].owner = write[r].user
  <2>1. ActsOnTask(r) /\ NamesTask(r)
    BY DEF ReloadRow, Refresh, WriteAt, ActsOnTask, NamesTask
  <2> QED
    BY <1>0, <2>1 DEF Requests, ActsOnOwn, TasksNamed
<1>3. \A q \in Writers : q # r => payload'[q] = payload[q]
  BY DEF LiveTypes, ReloadRow
<1>4. CASE db[write[r].id] = None
  <2>1. /\ write'[r] = None /\ \A q \in Writers : q # r => write'[q] = write[q]
        /\ payload'[r] = NoEvent
    BY <1>0, <1>4, EndsEffect DEF ReloadRow, Refresh, LiveTypes
  <2>2. OtherWriters(r) /\ ~HasEvent(r)' /\ \A i \in Ids : ~Announces(r, i)
    BY <1>1, <1>3, <1>4, <2>1 DEF OtherWriters, HasEvent, Announces
  <2>3. \A i \in Ids, u \in Users : ~ClaimedBy(r, i, u)'
    BY <2>1 DEF ClaimedBy
  <2> QED
    BY <1>1, <2>1, <2>2, <2>3
<1>5. CASE db[write[r].id] # None
  <2>1. Commits(r, "keys", 0)
    BY <1>5 DEF ReloadRow, Refresh
  <2>2. /\ write'[r] # None /\ write'[r].at = "keys" /\ write'[r].user = write[r].user
        /\ \A q \in Writers : q # r => write'[q] = write[q]
    BY <1>0, <1>1, <2>1, CommitsEffect, CommitsStays
  <2>3. payload'[r].id = write[r].id /\ payload'[r].row = db[write[r].id]
    BY <1>5 DEF ReloadRow, LiveTypes
  <2>4. db[write[r].id] \in Row
    BY <1>0, <1>2, <1>5 DEF TypeOK, Result
  <2>5. OtherWriters(r) /\ HasEvent(r)'
    BY <1>3, <2>2 DEF OtherWriters, HasEvent
  <2>6. \A i \in Ids : Announces(r, i) => Announces(r, i)'
    BY <1>1, <2>2, <2>3 DEF Announces
  <2>7. \A i \in Ids, u \in Users : ClaimedBy(r, i, u)' => ClaimedBy(r, i, u)
    BY <1>1, <1>2, <2>2, <2>3 DEF ClaimedBy, ActsOnTask, WriteAt
  <2> QED
    BY <1>1, <1>2, <1>5, <2>2, <2>3, <2>4, <2>5, <2>6, <2>7
<1> QED
  BY <1>4, <1>5

LEMMA InvalidatesEffect ==
  ASSUME IInv, LiveTypes, Payloads, NEW r \in Writers, Invalidates(r)
  PROVE  /\ OtherWriters(r) /\ UNCHANGED <<db, nextId, liveVars>>
         /\ HasEvent(r) /\ HasEvent(r)' /\ write'[r].user = write[r].user
         /\ \A i \in Ids : Announces(r, i) => Announces(r, i)'
         /\ write[r].at # "refresh" /\ \A i \in Ids : Announces(r, i)' => Announces(r, i)
         /\ \A i \in Ids, u \in Users : ClaimedBy(r, i, u)' => ClaimedBy(r, i, u)
<1>0. TypeOK /\ TypeOK'
  <2>1. FindKeys(r) \/ FindKeysFails(r)
    BY DEF Invalidates
  <2> QED
    BY <2>1, InvalidationTypes DEF IInv
<1>1. /\ write[r] # None /\ write[r].at = "keys" /\ write[r] \in WriteRequest
      /\ UNCHANGED <<db, nextId, liveVars>>
  BY <1>0, WriterType DEF Invalidates, FindKeys, FindKeysFails
<1>2. /\ write'[r].at \in {"publish", "delete"} /\ write'[r].user = write[r].user
      /\ write'[r] # None /\ \A q \in Writers : q # r => write'[q] = write[q]
  <2>1. CASE FindKeys(r)
    <3>1. PICK p \in {"publish", "delete"}, ks \in SUBSET Keys :
            write' = [write EXCEPT ![r].at = p, ![r].keys = ks]
      BY <2>1 DEF FindKeys, KeysOf
    <3>2. write'[r] = [write[r] EXCEPT !.at = p, !.keys = ks]
      BY <1>0, <3>1 DEF TypeOK
    <3>3. write'[r] \in WriteRequest
      BY <1>1, <3>2 DEF WriteRequest
    <3>4. write'[r].at = p /\ write'[r].user = write[r].user
      BY <1>1, <3>2 DEF WriteRequest
    <3> QED
      BY <1>0, <3>1, <3>3, <3>4, NoneAssumption DEF TypeOK
  <2>2. CASE FindKeysFails(r)
    <3>1. write' = [write EXCEPT ![r].at = "publish"]
      BY <2>2 DEF FindKeysFails, WriteGoes
    <3>2. write'[r] = [write[r] EXCEPT !.at = "publish"]
      BY <1>0, <3>1 DEF TypeOK
    <3>3. write'[r] \in WriteRequest
      BY <1>1, <3>2 DEF WriteRequest
    <3>4. write'[r].at = "publish" /\ write'[r].user = write[r].user
      BY <1>1, <3>2 DEF WriteRequest
    <3> QED
      BY <1>0, <3>1, <3>3, <3>4, NoneAssumption DEF TypeOK
  <2> QED
    BY <2>1, <2>2 DEF Invalidates
<1>3. OtherWriters(r) /\ HasEvent(r) /\ HasEvent(r)'
  BY <1>1, <1>2 DEF OtherWriters, HasEvent, liveVars
<1>4. \A i \in Ids : Announces(r, i) <=> Announces(r, i)'
  BY <1>1, <1>2 DEF Announces, liveVars
<1>5. \A i \in Ids, u \in Users : ClaimedBy(r, i, u)' => ClaimedBy(r, i, u)
  BY <1>1, <1>2 DEF ClaimedBy, ActsOnTask, WriteAt, liveVars
<1> QED
  BY <1>1, <1>2, <1>3, <1>4, <1>5

(* A request that published, failed to or died. *)
LEMMA EndEffect ==
  ASSUME IInv, LiveTypes, NEW r \in Writers, EventDelivered(r) \/ EventLost(r)
  PROVE  /\ OtherWriters(r) /\ UNCHANGED <<db, nextId>>
         /\ write'[r] = None /\ payload'[r] = NoEvent /\ ~HasEvent(r)'
         /\ \A i \in Ids : ~Announces(r, i)'
         /\ \A i \in Ids, u \in Users : ~ClaimedBy(r, i, u)'
<1>0. TypeOK
  BY DEF IInv
<1>1. WriteEnds(r) /\ UNCHANGED <<db, nextId>> /\ payload' = [payload EXCEPT ![r] = NoEvent]
  BY DEF EventDelivered, EventLost, Publish, WriterDies
<1>2. write'[r] = None /\ \A q \in Writers : q # r => write'[q] = write[q]
  BY <1>0, <1>1, EndsEffect
<1> QED
  BY <1>1, <1>2 DEF OtherWriters, LiveTypes, HasEvent, Announces, ClaimedBy

-----------------------------------------------------------------------------
(* What the invariant needs to know of a step. *)
LEMMA QueryAt ==
  /\ \A u \in Users, i \in Ids :
       Query(u, All)[i] = IF db[i] # None /\ db[i].owner = u THEN db[i] ELSE None
  /\ \A u \in Users, i \in Ids :
       Query(u, All)[i]' = IF db'[i] # None /\ db'[i].owner = u THEN db'[i] ELSE None
BY DEF Query

LEMMA ClaimsFrame ==
  ASSUME Claims, nextId \in Nat, nextId' \in Nat, nextId <= nextId', NEW r \in Writers, OtherWriters(r),
         \A i \in Ids, u \in Users :
           ClaimedBy(r, i, u)' \/ (db'[i] # None /\ db'[i].owner = u) =>
             Claim(i, u) \/ (i = nextId /\ nextId' = nextId + 1 /\ u = write[r].user),
         \A s \in Sessions, i \in Ids : ShownTo(s, i)' => Claim(i, SessionUser[s])
  PROVE  Claims'
<1>1. ASSUME NEW q \in Writers, q # r, NEW i \in Ids, NEW u \in Users, ClaimedBy(q, i, u)'
      PROVE  ClaimedBy(q, i, u)
  BY <1>1 DEF ClaimedBy, ActsOnTask, WriteAt, OtherWriters
<1>2. ASSUME NEW i \in Ids, NEW u \in Users, Claim(i, u)'
      PROVE  Claim(i, u) \/ (i = nextId /\ nextId' = nextId + 1 /\ u = write[r].user)
  <2>1. CASE db'[i] # None /\ db'[i].owner = u
    BY <2>1
  <2>2. CASE \E q \in Writers : ClaimedBy(q, i, u)'
    BY <1>1, <2>2 DEF Claim
  <2>3. CASE \E s \in Sessions : SessionUser[s] = u /\ ShownTo(s, i)'
    BY <2>3
  <2> QED
    BY <1>2, <2>1, <2>2, <2>3 DEF Claim
<1>3. \A i \in Ids : i \in Nat
  BY DEF Ids
<1>4. ClaimsTaken'
  <2>1. ASSUME NEW i \in Ids, NEW u \in Users, Claim(i, u)' PROVE i < nextId'
    BY <1>2, <1>3, <2>1 DEF Claims, ClaimsTaken
  <2> QED
    BY <2>1 DEF ClaimsTaken
<1>5. OneOwner'
  <2>1. ASSUME NEW i \in Ids, NEW u \in Users, NEW v \in Users, Claim(i, u)', Claim(i, v)'
        PROVE  u = v
    <3>1. CASE i = nextId
      <4>1. ~Claim(i, u) /\ ~Claim(i, v)
        BY <1>3, <3>1 DEF Claims, ClaimsTaken
      <4> QED
        BY <1>2, <2>1, <4>1
    <3>2. CASE i # nextId
      BY <1>2, <2>1, <3>2 DEF Claims, OneOwner
    <3> QED
      BY <3>1, <3>2
  <2> QED
    BY <2>1 DEF OneOwner
<1> QED
  BY <1>4, <1>5 DEF Claims

LEMMA PayloadsFrame ==
  ASSUME Payloads, NEW r \in Writers, OtherWriters(r),
         IF HasEvent(r)'
         THEN /\ payload'[r].id \in Ids
              /\ payload'[r].row # None => payload'[r].row.owner = write'[r].user
         ELSE payload'[r] = NoEvent
  PROVE  Payloads'
BY DEF Payloads, OtherWriters, HasEvent

(* Steps of a request that leave subscriptions and clients alone.  Rows    *)
(* they change are the user's own; then the request announces the change   *)
(* and, unless the task is in doubt, no other announces it.                *)
LEMMA RequestFrame ==
  ASSUME IInv, IInv', LInv, NEW r \in Writers, OtherWriters(r), Keeps(r),
         payload' \in [Writers -> Event], nextId <= nextId',
         IF HasEvent(r)'
         THEN /\ payload'[r].id \in Ids
              /\ payload'[r].row # None => payload'[r].row.owner = write'[r].user
         ELSE payload'[r] = NoEvent,
         \A i \in Ids, u \in Users :
           ClaimedBy(r, i, u)' \/ (db'[i] # None /\ db'[i].owner = u) =>
             Claim(i, u) \/ (i = nextId /\ nextId' = nextId + 1 /\ u = write[r].user),
         doubt \subseteq doubt', doubt' \subseteq Ids,
         \A i \in Ids \ doubt' :
           HasEvent(r)' /\ payload'[r].id = i => payload'[r].row = db'[i],
         \A i \in Ids \ doubt' : db'[i] # db[i] =>
           /\ ~OthersAnnounce(r, i)
           /\ Announces(r, i)' /\ write'[r].user = write[r].user
           /\ db[i] # None => db[i].owner = write[r].user
           /\ db'[i] # None => db'[i].owner = write[r].user,
         \A i \in Ids \ doubt' : db'[i] = db[i] /\ Announces(r, i) =>
           Announces(r, i)' /\ write'[r].user = write[r].user
  PROVE  LInv'
<1>1. UNCHANGED <<session, inbox, view, missed>>
  BY DEF Keeps
<1>2. \A s \in Sessions, i \in Ids :
        /\ About(s, i)' = About(s, i) /\ Latest(s, i)' = Latest(s, i)
        /\ ShownTo(s, i)' = ShownTo(s, i) /\ HasLatest(s, i)' = HasLatest(s, i)
  <2>1. ASSUME NEW s \in Sessions, NEW i \in Ids
        PROVE  About(s, i)' = About(s, i) /\ Latest(s, i)' = Latest(s, i)
    BY <1>1, InboxSame
  <2> QED
    BY <1>1, <2>1 DEF ShownTo, HasLatest
<1>3. LiveTypes'
  BY <1>1 DEF LInv, LiveTypes
<1>4. Payloads'
  BY PayloadsFrame DEF LInv
<1>5. EmptyInboxes' /\ ChannelsApart'
  BY <1>1 DEF LInv, EmptyInboxes, ChannelsApart
<1>6. LatestDefined'
  BY <1>2 DEF LInv, LatestDefined
<1>7. Claims'
  <2>1. nextId \in Nat /\ nextId' \in Nat
    BY DEF IInv, TypeOK
  <2>2. \A s \in Sessions, i \in Ids : ShownTo(s, i)' => Claim(i, SessionUser[s])
    BY <1>2 DEF Claim
  <2> QED
    BY <2>1, <2>2, ClaimsFrame DEF LInv
<1>8. ASSUME NEW q \in Writers, q # r, NEW i \in Ids
      PROVE  /\ write'[q] = write[q] /\ payload'[q] = payload[q]
             /\ (db[i] = None <=> db'[i] = None) => (Announces(q, i)' <=> Announces(q, i))
             /\ write[q].at # "refresh" => (Announces(q, i)' <=> Announces(q, i))
             /\ Announces(q, i) => OthersAnnounce(r, i)
  BY <1>8 DEF OtherWriters, Announces, OthersAnnounce
<1>9. EventsCurrent'
  <2>1. SUFFICES ASSUME NEW q \in Writers, NEW i \in Ids \ doubt', Announces(q, i)', write'[q].at # "refresh"
                 PROVE  payload'[q].row = db'[i]
    BY DEF EventsCurrent
  <2>2. CASE q = r
    BY <2>1, <2>2 DEF Announces, HasEvent
  <2>3. CASE q # r
    <3>1. Announces(q, i) /\ write[q].at # "refresh"
      BY <1>8, <2>1, <2>3
    <3>2. db'[i] = db[i]
      BY <1>8, <2>3, <3>1
    <3>3. payload[q].row = db[i]
      BY <2>1, <3>1 DEF LInv, EventsCurrent
    <3> QED
      BY <1>8, <2>3, <3>2, <3>3
  <2> QED
    BY <2>2, <2>3
<1>10. Explained'
  <2>1. SUFFICES ASSUME NEW s \in Sessions, NEW i \in Ids, session[s] # "closed",
                        i \notin doubt', i \notin missed[s]
                 PROVE  Settled(s, i)'
    BY <1>1 DEF Explained
  <2>2. Settled(s, i) /\ SessionUser[s] \in Users
    BY <2>1, LiveAssumption DEF LInv, Explained
  <2>3. CASE db'[i] = db[i]
    <3>1. CASE Latest(s, i) = Query(SessionUser[s], All)[i]
      <4>1. Query(SessionUser[s], All)[i]' = Query(SessionUser[s], All)[i]
        BY <2>2, <2>3, QueryAt
      <4> QED
        BY <1>2, <3>1, <4>1 DEF Settled
    <3>2. CASE \E q \in Writers : Announces(q, i) /\ write[q].user = SessionUser[s]
      BY <1>8, <2>1, <2>3, <3>2 DEF Settled
    <3> QED
      BY <2>2, <3>1, <3>2 DEF Settled
  <2>4. CASE db'[i] # db[i]
    <3>1. CASE SessionUser[s] = write[r].user
      BY <2>1, <2>4, <3>1 DEF Settled
    <3>2. CASE SessionUser[s] # write[r].user
      <4>1. Query(SessionUser[s], All)[i] = None /\ Query(SessionUser[s], All)[i]' = None
        BY <2>1, <2>2, <2>4, <3>2, QueryAt
      <4>2. ~\E q \in Writers : Announces(q, i) /\ write[q].user = SessionUser[s]
        BY <1>8, <2>1, <2>4, <3>2
      <4> QED
        BY <1>2, <2>2, <4>1, <4>2 DEF Settled
    <3> QED
      BY <3>1, <3>2
  <2> QED
    BY <2>3, <2>4
<1> QED
  BY <1>3, <1>4, <1>5, <1>6, <1>7, <1>9, <1>10 DEF LInv

-----------------------------------------------------------------------------
(* The steps of a request. *)
LEMMA QuietInv ==
  ASSUME IInv, IInv', LInv, NEW r \in Writers, Quiet(r)
  PROVE  LInv'
<1>1. LiveTypes /\ Payloads
  BY DEF LInv
<1>2. /\ UNCHANGED <<db, nextId, liveVars>> /\ OtherWriters(r) /\ ~HasEvent(r)'
      /\ payload[r] = NoEvent
      /\ \A i \in Ids : ~Announces(r, i)
      /\ \A i \in Ids, u \in Users : ClaimedBy(r, i, u)' => db[i] # None /\ db[i].owner = u
  BY <1>1, QuietEffect
<1>3. /\ payload' \in [Writers -> Event] /\ doubt' = doubt /\ doubt \subseteq Ids
      /\ payload'[r] = NoEvent /\ Keeps(r)
  BY <1>1, <1>2 DEF LiveTypes, liveVars, Keeps
<1>4. nextId <= nextId'
  BY <1>2 DEF IInv, TypeOK
<1>5. \A i \in Ids, u \in Users :
        ClaimedBy(r, i, u)' \/ (db'[i] # None /\ db'[i].owner = u) => Claim(i, u)
  BY <1>2 DEF Claim
<1> QED
  BY <1>2, <1>3, <1>4, <1>5, RequestFrame

LEMMA InvalidatesInv ==
  ASSUME IInv, IInv', LInv, NEW r \in Writers, Invalidates(r)
  PROVE  LInv'
<1>1. LiveTypes /\ Payloads /\ EventsCurrent
  BY DEF LInv
<1>2. /\ OtherWriters(r) /\ UNCHANGED <<db, nextId, liveVars>>
      /\ HasEvent(r) /\ HasEvent(r)' /\ write'[r].user = write[r].user
      /\ \A i \in Ids : Announces(r, i) => Announces(r, i)'
      /\ write[r].at # "refresh"
      /\ \A i \in Ids, u \in Users : ClaimedBy(r, i, u)' => ClaimedBy(r, i, u)
  BY <1>1, InvalidatesEffect
<1>3. /\ payload' \in [Writers -> Event] /\ doubt' = doubt /\ doubt \subseteq Ids
      /\ payload'[r] = payload[r] /\ Keeps(r)
  BY <1>1, <1>2 DEF LiveTypes, liveVars, Keeps
<1>4. nextId <= nextId'
  BY <1>2 DEF IInv, TypeOK
<1>5. \A i \in Ids, u \in Users :
        ClaimedBy(r, i, u)' \/ (db'[i] # None /\ db'[i].owner = u) => Claim(i, u)
  BY <1>2 DEF Claim
<1>6. /\ payload'[r].id \in Ids
      /\ payload'[r].row # None => payload'[r].row.owner = write'[r].user
  BY <1>1, <1>2, <1>3 DEF Payloads
<1>7. \A i \in Ids \ doubt' : payload'[r].id = i => payload'[r].row = db'[i]
  BY <1>1, <1>2, <1>3 DEF EventsCurrent, Announces, HasEvent
<1> QED
  BY <1>2, <1>3, <1>4, <1>5, <1>6, <1>7, RequestFrame

LEMMA ChangeInv ==
  ASSUME IInv, IInv', LInv, NEW r \in Writers, ChangeRow(r)
  PROVE  LInv'
<1>1. LiveTypes /\ Payloads
  BY DEF LInv
<1>2. /\ Insert(r) \/ Update(r)
      /\ UNCHANGED payload /\ Keeps(r) /\ doubt' = doubt \cup Overlaps(r)
  BY DEF ChangeRow
<1>3. /\ OtherWriters(r) /\ ~HasEvent(r)' /\ payload'[r] = NoEvent /\ nextId <= nextId'
      /\ \A i \in Ids : ~Announces(r, i)
      /\ \A i \in Ids : db'[i] # db[i] =>
           /\ db'[i] # None /\ db'[i].owner = write[r].user
           /\ db[i] # None => db[i].owner = write[r].user
           /\ Announces(r, i)' /\ write'[r].user = write[r].user
      /\ \A i \in Ids, u \in Users :
           ClaimedBy(r, i, u)' \/ (db'[i] # None /\ db'[i].owner = u) =>
             Claim(i, u) \/ (i = nextId /\ nextId' = nextId + 1 /\ u = write[r].user)
  BY <1>1, <1>2, ChangeEffect
<1>4. /\ payload' \in [Writers -> Event] /\ doubt \subseteq doubt' /\ doubt' \subseteq Ids
      /\ \A i \in Ids \ doubt' : db'[i] # db[i] => ~OthersAnnounce(r, i)
  BY <1>1, <1>2 DEF LiveTypes, Overlaps
<1> QED
  BY <1>2, <1>3, <1>4, RequestFrame

LEMMA RemoveInv ==
  ASSUME IInv, IInv', LInv, NEW r \in Writers, RemoveRow(r)
  PROVE  LInv'
<1>1. LiveTypes /\ Payloads
  BY DEF LInv
<1>2. /\ OtherWriters(r) /\ HasEvent(r)' /\ nextId' = nextId
      /\ write[r].id \in Ids /\ payload'[r].id = write[r].id /\ payload'[r].row = None
      /\ write'[r].user = write[r].user
      /\ \A i \in Ids : ~Announces(r, i)
      /\ \A i \in Ids : i # write[r].id => db'[i] = db[i]
      /\ \A i \in Ids : i = write[r].id =>
           /\ db'[i] = None /\ Announces(r, i)'
           /\ db[i] # None => db[i].owner = write[r].user
      /\ \A i \in Ids, u \in Users :
           ClaimedBy(r, i, u)' \/ (db'[i] # None /\ db'[i].owner = u) => Claim(i, u)
  BY <1>1, RemoveEffect
<1>3. Keeps(r) /\ doubt' = doubt \cup Overlaps(r)
  BY DEF RemoveRow
<1>4. /\ doubt \subseteq doubt' /\ doubt' \subseteq Ids
      /\ \A i \in Ids \ doubt' : db'[i] # db[i] => ~OthersAnnounce(r, i)
  BY <1>1, <1>3 DEF LiveTypes, Overlaps
<1>5. payload' \in [Writers -> Event]
  BY <1>1, <1>2 DEF LiveTypes, RemoveRow, Event
<1>6. nextId <= nextId'
  BY <1>2 DEF IInv, TypeOK
<1> QED
  BY <1>2, <1>3, <1>4, <1>5, <1>6, RequestFrame

LEMMA ReloadInv ==
  ASSUME IInv, IInv', LInv, NEW r \in Writers, ReloadRow(r)
  PROVE  LInv'
<1>1. LiveTypes /\ Payloads
  BY DEF LInv
<1>2. /\ OtherWriters(r) /\ UNCHANGED <<db, nextId>>
      /\ \/ /\ ~HasEvent(r)' /\ payload'[r] = NoEvent
            /\ \A i \in Ids : ~Announces(r, i)
         \/ /\ HasEvent(r)' /\ write'[r].user = write[r].user
            /\ write[r].id \in Ids /\ payload'[r].id = write[r].id
            /\ payload'[r].row = db[write[r].id] /\ payload'[r].row \in Row
            /\ payload'[r].row.owner = write[r].user
            /\ \A i \in Ids : Announces(r, i) => Announces(r, i)'
      /\ \A i \in Ids, u \in Users : ClaimedBy(r, i, u)' => ClaimedBy(r, i, u)
  BY <1>1, ReloadEffect
<1>3. Keeps(r) /\ doubt' = doubt /\ doubt \subseteq Ids
  BY <1>1 DEF ReloadRow, LiveTypes
<1>4. payload' \in [Writers -> Event]
  <2>1. PICK e : payload' = [payload EXCEPT ![r] = e]
    BY DEF ReloadRow
  <2>2. payload'[r] = e
    BY <1>1, <2>1 DEF LiveTypes
  <2>3. e \in Event
    <3>1. CASE e = NoEvent
      BY <3>1 DEF NoEvent, Event
    <3>2. CASE e # NoEvent
      <4>1. write[r].id \in Ids /\ db[write[r].id] \in Row
        BY <1>2, <2>2, <3>2
      <4>2. e = [id |-> write[r].id, row |-> db[write[r].id]]
        BY <2>2, <3>2, <1>1 DEF ReloadRow, LiveTypes
      <4> QED
        BY <4>1, <4>2 DEF Event
    <3> QED
      BY <3>1, <3>2
  <2> QED
    BY <1>1, <2>1, <2>3 DEF LiveTypes
<1>5. nextId <= nextId'
  BY <1>2 DEF IInv, TypeOK
<1>6. \A i \in Ids, u \in Users :
        ClaimedBy(r, i, u)' \/ (db'[i] # None /\ db'[i].owner = u) => Claim(i, u)
  BY <1>2 DEF Claim
<1> QED
  BY <1>2, <1>3, <1>4, <1>5, <1>6, RequestFrame

LEMMA LostInv ==
  ASSUME IInv, IInv', LInv, NEW r \in Writers, EventLost(r)
  PROVE  LInv'
<1>1. LiveTypes
  BY DEF LInv
<1>2. /\ OtherWriters(r) /\ UNCHANGED <<db, nextId>>
      /\ payload'[r] = NoEvent /\ ~HasEvent(r)'
      /\ \A i \in Ids, u \in Users : ~ClaimedBy(r, i, u)'
  BY <1>1, EndEffect
<1>3. /\ Keeps(r) /\ doubt' = doubt \cup {i \in Ids : Announces(r, i)}
      /\ payload' = [payload EXCEPT ![r] = NoEvent]
  BY DEF EventLost
<1>4. payload' \in [Writers -> Event]
  BY <1>1, <1>3 DEF LiveTypes, NoEvent, Event
<1>5. /\ doubt \subseteq doubt' /\ doubt' \subseteq Ids
      /\ \A i \in Ids \ doubt' : ~Announces(r, i)
  BY <1>1, <1>3 DEF LiveTypes
<1>6. nextId <= nextId'
  BY <1>2 DEF IInv, TypeOK
<1>7. \A i \in Ids, u \in Users :
        ClaimedBy(r, i, u)' \/ (db'[i] # None /\ db'[i].owner = u) => Claim(i, u)
  BY <1>2 DEF Claim
<1> QED
  BY <1>2, <1>3, <1>4, <1>5, <1>6, <1>7, RequestFrame

(* A task is shown to sessions of its one user only. *)
LEMMA NotShown ==
  ASSUME LInv, NEW i \in Ids, NEW u \in Users, Claim(i, u),
         NEW s \in Sessions, SessionUser[s] # u
  PROVE  Latest(s, i) = None /\ Query(SessionUser[s], All)[i] = None
<1>1. SessionUser[s] \in Users
  BY LiveAssumption
<1>2. ~Claim(i, SessionUser[s])
  BY <1>1 DEF LInv, Claims, OneOwner
<1>3. ~ShownTo(s, i)
  BY <1>2 DEF Claim
<1>4. Latest(s, i) = None
  BY <1>3 DEF ShownTo, Latest
<1>5. Query(SessionUser[s], All)[i] = None
  BY <1>1, <1>2, QueryAt DEF Claim
<1> QED
  BY <1>4, <1>5

LEMMA DeliveredInv ==
  ASSUME IInv, IInv', LInv, NEW r \in Writers, EventDelivered(r)
  PROVE  LInv'
<1>0. PICK e \in Event, u \in Users, repaired \in SUBSET Ids :
        /\ e = payload[r] /\ u = write[r].user
        /\ repaired = IF Undisturbed(r) THEN {e.id} ELSE {}
  <2>1. HasEvent(r)
    BY DEF EventDelivered, Publish, HasEvent
  <2>2. payload[r] \in Event /\ payload[r].id \in Ids
    BY <2>1 DEF LInv, LiveTypes, Payloads
  <2>3. write[r].user \in Users
    BY <2>1, WriterType DEF IInv, HasEvent, WriteRequest
  <2> QED
    BY <2>2, <2>3
<1>1. LiveTypes /\ Payloads /\ EventsCurrent /\ Claims /\ LatestDefined
  BY DEF LInv
<1>2. /\ OtherWriters(r) /\ UNCHANGED <<db, nextId>>
      /\ write'[r] = None /\ payload'[r] = NoEvent /\ ~HasEvent(r)'
      /\ \A i \in Ids : ~Announces(r, i)'
      /\ \A i \in Ids, v \in Users : ~ClaimedBy(r, i, v)'
  BY <1>1, EndEffect
<1>3. /\ inbox' = [s \in Sessions |->
           IF s \in Subscribed(u) THEN Append(inbox[s], e) ELSE inbox[s]]
      /\ missed' = [s \in Sessions |->
           IF s \in Subscribed(u) THEN missed[s] \ repaired
           ELSE IF session[s] = "greeted" /\ SessionUser[s] = u
           THEN missed[s] \cup {e.id} ELSE missed[s]]
      /\ doubt' = doubt \ repaired
      /\ payload' = [payload EXCEPT ![r] = NoEvent]
      /\ UNCHANGED <<session, view>>
  BY <1>0 DEF EventDelivered
<1>4. /\ HasEvent(r) /\ write[r] # None /\ write[r].at = "publish"
      /\ e.id \in Ids
      /\ e.row # None => e.row.owner = u
      /\ ClaimedBy(r, e.id, u) /\ Announces(r, e.id)
  <2>1. write[r] # None /\ write[r].at = "publish"
    BY DEF EventDelivered, Publish
  <2> QED
    BY <1>0, <1>1, <2>1 DEF HasEvent, Payloads, ClaimedBy, Announces
<1>5. Claim(e.id, u)
  BY <1>4 DEF Claim
<1>6. /\ repaired \subseteq {e.id}
      /\ repaired # {} => e.row = db[e.id] /\ ~OthersAnnounce(r, e.id)
  BY <1>0 DEF Undisturbed
<1>7. \A s \in Subscribed(u) : s \in Sessions /\ session[s] = "live" /\ SessionUser[s] = u
  BY DEF Subscribed
<1>8. LiveTypes'
  <2>1. payload' \in [Writers -> Event]
    BY <1>1, <1>3 DEF LiveTypes, NoEvent, Event
  <2>2. inbox' \in [Sessions -> Seq(Event)]
    <3>1. \A s \in Sessions : inbox[s] \in Seq(Event) /\ Append(inbox[s], e) \in Seq(Event)
      BY <1>1 DEF LiveTypes
    <3> QED
      BY <1>3, <3>1
  <2>3. missed' \in [Sessions -> SUBSET Ids]
    <3>1. \A s \in Sessions : missed[s] \in SUBSET Ids
      BY <1>1 DEF LiveTypes
    <3>2. ASSUME NEW s \in Sessions
          PROVE  missed[s] \ repaired \in SUBSET Ids /\ missed[s] \cup {e.id} \in SUBSET Ids
      <4>1. missed[s] \subseteq Ids /\ {e.id} \subseteq Ids
        BY <1>4, <3>1
      <4>2. missed[s] \ repaired \subseteq Ids /\ missed[s] \cup {e.id} \subseteq Ids
        BY <4>1
      <4> QED
        BY <4>2
    <3> QED
      BY <1>3, <3>1, <3>2
  <2>4. doubt' \in SUBSET Ids
    BY <1>1, <1>3 DEF LiveTypes
  <2> QED
    BY <1>1, <1>3, <2>1, <2>2, <2>3, <2>4 DEF LiveTypes
<1>9. Payloads'
  BY <1>1, <1>2, PayloadsFrame
<1>10. EmptyInboxes'
  BY <1>3, <1>7 DEF LInv, EmptyInboxes
<1>11. ASSUME NEW s \in Sessions, NEW i \in Ids
       PROVE  /\ HasLatest(s, i)'
              /\ s \in Subscribed(u) /\ e.id = i => Latest(s, i)' = e.row
              /\ s \notin Subscribed(u) \/ e.id # i =>
                   About(s, i)' = About(s, i) /\ Latest(s, i)' = Latest(s, i)
  <2>1. HasLatest(s, i) /\ inbox[s] \in Seq(Event) /\ view'[s] = view[s]
    BY <1>1, <1>3 DEF LatestDefined, LiveTypes
  <2>2. CASE s \in Subscribed(u)
    <3>1. inbox'[s] = Append(inbox[s], e)
      BY <1>3, <2>2
    <3> QED
      BY <1>4, <2>1, <2>2, <3>1, InboxAppend
  <2>3. CASE s \notin Subscribed(u)
    <3>1. inbox'[s] = inbox[s]
      BY <1>3, <2>3
    <3>2. About(s, i)' = About(s, i) /\ Latest(s, i)' = Latest(s, i)
      BY <2>1, <3>1, InboxSame
    <3> QED
      BY <2>1, <2>3, <3>2 DEF HasLatest
  <2> QED
    BY <2>2, <2>3
<1>12. LatestDefined'
  BY <1>11 DEF LatestDefined
<1>13. Claims'
  <2>1. nextId \in Nat /\ nextId' = nextId
    BY <1>2 DEF IInv, TypeOK
  <2>2. \A i \in Ids, v \in Users :
          ClaimedBy(r, i, v)' \/ (db'[i] # None /\ db'[i].owner = v) => Claim(i, v)
    BY <1>2 DEF Claim
  <2>3. ASSUME NEW s \in Sessions, NEW i \in Ids, ShownTo(s, i)'
        PROVE  Claim(i, SessionUser[s])
    <3>1. CASE s \in Subscribed(u) /\ e.id = i
      BY <1>5, <1>7, <3>1
    <3>2. CASE s \notin Subscribed(u) \/ e.id # i
      <4>1. ShownTo(s, i)
        BY <1>3, <1>11, <2>3, <3>2 DEF ShownTo
      <4> QED
        BY <4>1 DEF Claim
    <3> QED
      BY <3>1, <3>2
  <2> QED
    BY <1>1, <1>2, <2>1, <2>2, <2>3, ClaimsFrame
<1>14. ASSUME NEW q \in Writers, q # r, NEW i \in Ids
       PROVE  /\ write'[q] = write[q] /\ payload'[q] = payload[q]
              /\ Announces(q, i)' <=> Announces(q, i)
              /\ Announces(q, i) => OthersAnnounce(r, i)
  BY <1>2, <1>14 DEF OtherWriters, Announces, OthersAnnounce
<1>15. EventsCurrent'
  <2>1. SUFFICES ASSUME NEW q \in Writers, NEW i \in Ids \ doubt', Announces(q, i)', write'[q].at # "refresh"
                 PROVE  payload'[q].row = db'[i]
    BY DEF EventsCurrent
  <2>2. q # r /\ Announces(q, i) /\ OthersAnnounce(r, i) /\ write[q].at # "refresh"
    BY <1>2, <1>14, <2>1
  <2>3. i \notin doubt
    BY <1>3, <1>6, <2>1, <2>2
  <2> QED
    BY <1>1, <1>2, <1>14, <2>1, <2>2, <2>3 DEF EventsCurrent
<1>16. ChannelsApart'
  <2>1. ASSUME NEW s \in Sessions, NEW k \in DOMAIN inbox'[s], inbox'[s][k].row # None
        PROVE  inbox'[s][k].row.owner = SessionUser[s]
    <3>1. CASE s \in Subscribed(u)
      <4>1. inbox'[s] = Append(inbox[s], e) /\ inbox[s] \in Seq(Event)
        BY <1>1, <1>3, <3>1 DEF LiveTypes
      <4>2. inbox'[s][k] = e \/ (k \in DOMAIN inbox[s] /\ inbox'[s][k] = inbox[s][k])
        BY <1>4, <4>1
      <4>3. \A j \in DOMAIN inbox[s] :
              inbox[s][j].row # None => inbox[s][j].row.owner = SessionUser[s]
        BY DEF LInv, ChannelsApart
      <4> QED
        BY <1>4, <1>7, <2>1, <3>1, <4>2, <4>3
    <3>2. CASE s \notin Subscribed(u)
      BY <1>3, <2>1, <3>2 DEF LInv, ChannelsApart
    <3> QED
      BY <3>1, <3>2
  <2> QED
    BY <1>3, <2>1 DEF LInv, ChannelsApart
<1>17. Explained'
  <2>1. SUFFICES ASSUME NEW s \in Sessions, NEW i \in Ids, session[s] # "closed",
                        i \notin doubt', i \notin missed'[s]
                 PROVE  Settled(s, i)'
    BY <1>3 DEF Explained
  <2>2. Query(SessionUser[s], All)[i]' = Query(SessionUser[s], All)[i] /\ SessionUser[s] \in Users
    BY <1>2, LiveAssumption, QueryAt
  <2>3. CASE i # e.id
    <3>1. i \notin doubt \cup missed[s]
      BY <1>3, <1>6, <2>1, <2>3
    <3>2. Settled(s, i)
      BY <2>1, <3>1 DEF LInv, Explained
    <3>3. CASE Latest(s, i) = Query(SessionUser[s], All)[i]
      BY <1>11, <2>2, <2>3, <3>3 DEF Settled
    <3>4. CASE \E q \in Writers : Announces(q, i) /\ write[q].user = SessionUser[s]
      <4>1. PICK q \in Writers : Announces(q, i) /\ write[q].user = SessionUser[s]
        BY <3>4
      <4>2. q # r
        BY <1>0, <1>4, <2>3, <4>1 DEF Announces
      <4> QED
        BY <1>14, <4>1, <4>2 DEF Settled
    <3> QED
      BY <3>2, <3>3, <3>4 DEF Settled
  <2>4. CASE i = e.id /\ SessionUser[s] # u
    <3>1. Latest(s, i) = None /\ Query(SessionUser[s], All)[i] = None
      BY <1>4, <1>5, <2>4, NotShown
    <3>2. s \notin Subscribed(u)
      BY <1>7, <2>4
    <3> QED
      BY <1>11, <2>2, <3>1, <3>2 DEF Settled
  <2>5. CASE i = e.id /\ SessionUser[s] = u
    <3>1. session[s] = "live"
      <4>1. session[s] # "greeted"
        BY <1>3, <1>7, <2>1, <2>5
      <4> QED
        BY <1>1, <2>1, <4>1 DEF LiveTypes
    <3>2. s \in Subscribed(u)
      BY <2>5, <3>1 DEF Subscribed
    <3>3. Latest(s, i)' = e.row
      BY <1>11, <2>5, <3>2
    <3>4. e.row = db[i]
      <4>1. CASE i \in doubt
        BY <1>3, <1>6, <2>1, <2>5, <4>1
      <4>2. CASE i \notin doubt
        BY <1>0, <1>1, <1>4, <2>5, <4>2 DEF EventsCurrent
      <4> QED
        BY <4>1, <4>2
    <3>5. Query(SessionUser[s], All)[i] = db[i]
      BY <1>4, <2>2, <2>5, <3>4, QueryAt
    <3> QED
      BY <2>2, <3>3, <3>4, <3>5 DEF Settled
  <2> QED
    BY <2>3, <2>4, <2>5
<1> QED
  BY <1>8, <1>9, <1>10, <1>12, <1>13, <1>15, <1>16, <1>17 DEF LInv

-----------------------------------------------------------------------------
(* The steps of a session leave requests and rows alone. *)
LEMMA SessionFrame ==
  ASSUME LInv, UNCHANGED <<vars, payload, doubt>>,
         LiveTypes', EmptyInboxes', LatestDefined', ChannelsApart',
         \A s \in Sessions, i \in Ids : ShownTo(s, i)' => Claim(i, SessionUser[s]),
         \A s \in Sessions, i \in Ids :
           session'[s] # "closed" /\ i \notin doubt \cup missed'[s] =>
             \/ Latest(s, i)' = Query(SessionUser[s], All)[i]
             \/ session[s] # "closed" /\ i \notin missed[s] /\ Latest(s, i)' = Latest(s, i)
  PROVE  LInv'
<1>1. db' = db /\ nextId' = nextId /\ write' = write /\ payload' = payload /\ doubt' = doubt
  BY DEF vars
<1>2. Payloads'
  BY <1>1 DEF LInv, Payloads, HasEvent
<1>3. \A r \in Writers, i \in Ids : Announces(r, i)' <=> Announces(r, i)
  BY <1>1 DEF Announces
<1>4. EventsCurrent'
  BY <1>1, <1>3 DEF LInv, EventsCurrent
<1>5. Claims'
  <2>1. \A r \in Writers, i \in Ids, u \in Users : ClaimedBy(r, i, u)' => ClaimedBy(r, i, u)
    BY <1>1 DEF ClaimedBy, ActsOnTask, WriteAt
  <2>2. ASSUME NEW i \in Ids, NEW u \in Users, Claim(i, u)' PROVE Claim(i, u)
    <3>1. CASE db'[i] # None /\ db'[i].owner = u
      BY <1>1, <3>1 DEF Claim
    <3>2. CASE \E r \in Writers : ClaimedBy(r, i, u)'
      BY <2>1, <3>2 DEF Claim
    <3>3. CASE \E s \in Sessions : SessionUser[s] = u /\ ShownTo(s, i)'
      BY <3>3
    <3> QED
      BY <2>2, <3>1, <3>2, <3>3 DEF Claim
  <2> QED
    BY <1>1, <2>2 DEF LInv, Claims, OneOwner, ClaimsTaken
<1>6. Explained'
  <2>1. SUFFICES ASSUME NEW s \in Sessions, NEW i \in Ids, session'[s] # "closed",
                        i \notin doubt', i \notin missed'[s]
                 PROVE  Settled(s, i)'
    BY DEF Explained
  <2>2. Query(SessionUser[s], All)[i]' = Query(SessionUser[s], All)[i]
    BY <1>1 DEF Query
  <2>3. CASE Latest(s, i)' = Query(SessionUser[s], All)[i]
    BY <2>2, <2>3 DEF Settled
  <2>4. CASE session[s] # "closed" /\ i \notin missed[s] /\ Latest(s, i)' = Latest(s, i)
    <3>1. Settled(s, i)
      BY <1>1, <2>1, <2>4 DEF LInv, Explained
    <3>2. CASE \E r \in Writers : Announces(r, i) /\ write[r].user = SessionUser[s]
      BY <1>1, <1>3, <3>2 DEF Settled
    <3> QED
      BY <2>2, <2>4, <3>1, <3>2 DEF Settled
  <2> QED
    BY <1>1, <2>1, <2>3, <2>4
<1> QED
  BY <1>2, <1>4, <1>5, <1>6 DEF LInv

(* Sessions other than the one that takes a step. *)
LEMMA OtherSessions ==
  ASSUME LInv, NEW s \in Sessions,
         \A x \in Sessions : x # s =>
           /\ inbox'[x] = inbox[x] /\ view'[x] = view[x]
           /\ session'[x] = session[x] /\ missed'[x] = missed[x]
  PROVE  \A x \in Sessions, i \in Ids : x # s =>
           /\ HasLatest(x, i)' /\ Latest(x, i)' = Latest(x, i)
           /\ ShownTo(x, i)' => Claim(i, SessionUser[x])
<1> SUFFICES ASSUME NEW x \in Sessions, NEW i \in Ids, x # s
             PROVE  /\ HasLatest(x, i)' /\ Latest(x, i)' = Latest(x, i)
                    /\ ShownTo(x, i)' => Claim(i, SessionUser[x])
  OBVIOUS
<1>1. inbox'[x] = inbox[x] /\ view'[x] = view[x]
  OBVIOUS
<1>2. About(x, i)' = About(x, i) /\ Latest(x, i)' = Latest(x, i)
  BY <1>1, InboxSame
<1>3. HasLatest(x, i)'
  BY <1>2 DEF LInv, LatestDefined, HasLatest
<1>4. ShownTo(x, i)' => ShownTo(x, i)
  BY <1>1, <1>2 DEF ShownTo
<1> QED
  BY <1>2, <1>3, <1>4 DEF Claim

LEMMA GreetInv ==
  ASSUME IInv, LInv, NEW s \in Sessions, Greet(s)
  PROVE  LInv'
<1>1. LiveTypes /\ EmptyInboxes /\ SessionUser[s] \in Users
  BY LiveAssumption DEF LInv
<1>2. /\ session[s] = "closed" /\ session' = [session EXCEPT ![s] = "greeted"]
      /\ view' = [view EXCEPT ![s] = Query(SessionUser[s], All)]
      /\ UNCHANGED <<vars, payload, inbox, missed, doubt>>
  BY DEF Greet
<1>3. /\ inbox'[s] = <<>> /\ view'[s] = Query(SessionUser[s], All)
      /\ \A x \in Sessions : x # s =>
           /\ inbox'[x] = inbox[x] /\ view'[x] = view[x]
           /\ session'[x] = session[x] /\ missed'[x] = missed[x]
  BY <1>1, <1>2 DEF EmptyInboxes, LiveTypes
<1>4. LiveTypes'
  <2>1. Query(SessionUser[s], All) \in Result
    BY QueryType DEF IInv, TypeOK
  <2> QED
    BY <1>1, <1>2, <2>1 DEF LiveTypes
<1>5. EmptyInboxes'
  BY <1>1, <1>2 DEF EmptyInboxes, LiveTypes
<1>6. \A i \in Ids : About(s, i)' = {} /\ Latest(s, i)' = Query(SessionUser[s], All)[i]
  <2>1. \A i \in Ids : About(s, i)' = {}
    BY <1>3 DEF About
  <2> QED
    BY <1>3, <2>1 DEF Latest
<1>7. LatestDefined'
  BY <1>3, <1>6, OtherSessions DEF LatestDefined, HasLatest
<1>8. \A i \in Ids : view'[s][i] # None => db[i] # None /\ view'[s][i] = db[i] /\ db[i].owner = SessionUser[s]
  BY <1>1, <1>3, QueryAt
<1>9. ChannelsApart'
  BY <1>2, <1>3, <1>8 DEF LInv, ChannelsApart
<1>10. \A x \in Sessions, i \in Ids : ShownTo(x, i)' => Claim(i, SessionUser[x])
  <2>1. \A i \in Ids : ShownTo(s, i)' => Claim(i, SessionUser[s])
    BY <1>6, <1>8 DEF ShownTo, Claim
  <2> QED
    BY <1>3, <2>1, OtherSessions
<1>11. \A x \in Sessions, i \in Ids :
         session'[x] # "closed" /\ i \notin doubt \cup missed'[x] =>
           \/ Latest(x, i)' = Query(SessionUser[x], All)[i]
           \/ session[x] # "closed" /\ i \notin missed[x] /\ Latest(x, i)' = Latest(x, i)
  BY <1>3, <1>6, OtherSessions
<1> QED
  BY <1>2, <1>4, <1>5, <1>7, <1>9, <1>10, <1>11, SessionFrame

LEMMA SubscribeInv ==
  ASSUME LInv, NEW s \in Sessions, Subscribe(s)
  PROVE  LInv'
<1>1. /\ session[s] = "greeted" /\ session' = [session EXCEPT ![s] = "live"]
      /\ UNCHANGED <<vars, payload, inbox, view, missed, doubt>>
  BY DEF Subscribe
<1>2. LiveTypes' /\ EmptyInboxes' /\ ChannelsApart'
  BY <1>1 DEF LInv, LiveTypes, EmptyInboxes, ChannelsApart
<1>3. \A x \in Sessions : session'[x] # "closed" => session[x] # "closed"
  BY <1>1 DEF LInv, LiveTypes
<1>4. ASSUME NEW x \in Sessions, NEW i \in Ids
      PROVE  /\ HasLatest(x, i)' /\ Latest(x, i)' = Latest(x, i)
             /\ ShownTo(x, i)' => Claim(i, SessionUser[x])
  <2>1. About(x, i)' = About(x, i) /\ Latest(x, i)' = Latest(x, i)
    BY <1>1, InboxSame
  <2> QED
    BY <1>1, <2>1 DEF LInv, LatestDefined, HasLatest, ShownTo, Claim
<1>5. LatestDefined'
  BY <1>4 DEF LatestDefined
<1> QED
  BY <1>1, <1>2, <1>3, <1>4, <1>5, SessionFrame

LEMMA ForwardInv ==
  ASSUME LInv, NEW s \in Sessions, Forward(s)
  PROVE  LInv'
<1>1. LiveTypes /\ LatestDefined /\ ChannelsApart
  BY DEF LInv
<1>2. /\ session[s] = "live" /\ inbox[s] # <<>> /\ inbox[s] \in Seq(Event) /\ view[s] \in Result
      /\ inbox' = [inbox EXCEPT ![s] = Tail(@)]
      /\ view' = [view EXCEPT ![s][Head(inbox[s]).id] = Head(inbox[s]).row]
      /\ UNCHANGED <<vars, payload, session, missed, doubt>>
  BY <1>1 DEF Forward, LiveTypes
<1>3. /\ inbox'[s] = Tail(inbox[s])
      /\ view'[s] = [view[s] EXCEPT ![Head(inbox[s]).id] = Head(inbox[s]).row]
      /\ \A x \in Sessions : x # s =>
           /\ inbox'[x] = inbox[x] /\ view'[x] = view[x]
           /\ session'[x] = session[x] /\ missed'[x] = missed[x]
  BY <1>1, <1>2 DEF LiveTypes
<1>4. /\ Head(inbox[s]) \in Event /\ Tail(inbox[s]) \in Seq(Event)
      /\ Head(inbox[s]) = inbox[s][1] /\ 1 \in DOMAIN inbox[s]
      /\ \A k \in DOMAIN Tail(inbox[s]) :
           k + 1 \in DOMAIN inbox[s] /\ Tail(inbox[s])[k] = inbox[s][k + 1]
  BY <1>2
<1>5. LiveTypes'
  <2>1. view'[s] \in Result
    <3> DEFINE f == view[s]
               h == Head(inbox[s]).id
               v == Head(inbox[s]).row
    <3>1. f \in [Ids -> Row \cup {None}] /\ view'[s] = [f EXCEPT ![h] = v]
      BY <1>2, <1>3 DEF Result
    <3>2. v \in Row \cup {None}
      BY <1>4 DEF Event
    <3> HIDE DEF f, h, v
    <3>3. view'[s] \in [Ids -> Row \cup {None}]
      BY <3>1, <3>2
    <3> QED
      BY <3>3 DEF Result
  <2>2. view' \in [Sessions -> Result]
    BY <1>1, <1>2, <2>1, <1>3 DEF LiveTypes
  <2>3. \A x \in Sessions : inbox'[x] \in Seq(Event)
    BY <1>1, <1>3, <1>4 DEF LiveTypes
  <2>4. DOMAIN inbox' = Sessions /\ inbox' = [x \in Sessions |-> inbox'[x]]
    BY <1>1, <1>2 DEF LiveTypes
  <2>5. inbox' \in [Sessions -> Seq(Event)]
    BY <2>3, <2>4
  <2> QED
    BY <1>1, <1>2, <2>2, <2>5 DEF LiveTypes
<1>6. EmptyInboxes'
  BY <1>2, <1>3 DEF LInv, EmptyInboxes
<1>7. \A i \in Ids :
        /\ HasLatest(s, i)' /\ Latest(s, i)' = Latest(s, i)
        /\ About(s, i)' # {} \/ view'[s][i] # None => ShownTo(s, i)
  BY <1>1, <1>2, <1>3, InboxTail DEF LatestDefined
<1>8. LatestDefined'
  BY <1>3, <1>7, OtherSessions DEF LatestDefined
<1>9. ChannelsApart'
  <2>1. \A k \in DOMAIN inbox'[s] :
          inbox'[s][k].row # None => inbox'[s][k].row.owner = SessionUser[s]
    BY <1>1, <1>3, <1>4 DEF ChannelsApart
  <2>2. \A i \in Ids : view'[s][i] # None => view'[s][i].owner = SessionUser[s]
    <3>1. Head(inbox[s]).row # None => Head(inbox[s]).row.owner = SessionUser[s]
      BY <1>1, <1>4 DEF ChannelsApart
    <3>2. \A i \in Ids : view'[s][i] = Head(inbox[s]).row \/ view'[s][i] = view[s][i]
      <4> DEFINE f == view[s]
                 h == Head(inbox[s]).id
                 v == Head(inbox[s]).row
      <4>1. f \in [Ids -> Row \cup {None}] /\ view'[s] = [f EXCEPT ![h] = v]
        BY <1>2, <1>3 DEF Result
      <4> HIDE DEF f, h, v
      <4>2. \A i \in Ids : view'[s][i] = v \/ view'[s][i] = f[i]
        BY <4>1
      <4> QED
        BY <4>2 DEF f, v
    <3> QED
      BY <1>1, <3>1, <3>2 DEF ChannelsApart
  <2>3. ASSUME NEW x \in Sessions
        PROVE  /\ \A k \in DOMAIN inbox'[x] :
                    inbox'[x][k].row # None => inbox'[x][k].row.owner = SessionUser[x]
               /\ \A i \in Ids : view'[x][i] # None => view'[x][i].owner = SessionUser[x]
    <3>1. CASE x = s
      BY <3>1, <2>1, <2>2
    <3>2. CASE x # s
      BY <3>2, <1>1, <1>3 DEF ChannelsApart
    <3> QED
      BY <3>1, <3>2
  <2> QED
    BY <2>3 DEF ChannelsApart
<1>10. \A x \in Sessions, i \in Ids : ShownTo(x, i)' => Claim(i, SessionUser[x])
  <2>1. \A i \in Ids : ShownTo(s, i)' => ShownTo(s, i)
    BY <1>7 DEF ShownTo
  <2>2. \A i \in Ids : ShownTo(s, i)' => Claim(i, SessionUser[s])
    BY <2>1 DEF Claim
  <2> QED
    BY <1>3, <2>2, OtherSessions
<1>11. \A x \in Sessions, i \in Ids :
         session'[x] # "closed" /\ i \notin doubt \cup missed'[x] =>
           session[x] # "closed" /\ i \notin missed[x] /\ Latest(x, i)' = Latest(x, i)
  BY <1>2, <1>3, <1>7, OtherSessions
<1> QED
  BY <1>2, <1>5, <1>6, <1>8, <1>9, <1>10, <1>11, SessionFrame

LEMMA SessionEndsInv ==
  ASSUME LInv, NEW s \in Sessions, SessionEnds(s)
  PROVE  LInv'
<1>1. LiveTypes
  BY DEF LInv
<1>2. /\ session' = [session EXCEPT ![s] = "closed"] /\ inbox' = [inbox EXCEPT ![s] = <<>>]
      /\ view' = [view EXCEPT ![s] = NoRows] /\ missed' = [missed EXCEPT ![s] = {}]
      /\ UNCHANGED <<vars, payload, doubt>>
  BY DEF SessionEnds
<1>3. /\ session'[s] = "closed" /\ inbox'[s] = <<>> /\ view'[s] = NoRows
      /\ \A x \in Sessions : x # s =>
           /\ inbox'[x] = inbox[x] /\ view'[x] = view[x]
           /\ session'[x] = session[x] /\ missed'[x] = missed[x]
  BY <1>1, <1>2 DEF LiveTypes
<1>4. LiveTypes'
  BY <1>1, <1>2, ConstantTypes DEF LiveTypes
<1>5. EmptyInboxes' /\ ChannelsApart'
  BY <1>3 DEF LInv, EmptyInboxes, ChannelsApart, NoRows
<1>6. \A i \in Ids : About(s, i)' = {} /\ ~ShownTo(s, i)'
  <2>1. \A i \in Ids : About(s, i)' = {}
    BY <1>3 DEF About
  <2> QED
    BY <1>3, <2>1 DEF ShownTo, NoRows
<1>7. LatestDefined'
  BY <1>3, <1>6, OtherSessions DEF LatestDefined, HasLatest
<1>8. \A x \in Sessions, i \in Ids : ShownTo(x, i)' => Claim(i, SessionUser[x])
  BY <1>3, <1>6, OtherSessions
<1>9. \A x \in Sessions, i \in Ids :
        session'[x] # "closed" /\ i \notin doubt \cup missed'[x] =>
          session[x] # "closed" /\ i \notin missed[x] /\ Latest(x, i)' = Latest(x, i)
  BY <1>3, OtherSessions
<1> QED
  BY <1>2, <1>4, <1>5, <1>7, <1>8, <1>9, SessionFrame

-----------------------------------------------------------------------------
(* The invariant. *)
LEMMA LInvInit == LiveInit => LInv
<1> SUFFICES ASSUME LiveInit
             PROVE  LInv
  OBVIOUS
<1>1. /\ db = NoRows /\ write = [r \in Writers |-> None]
      /\ payload = [r \in Writers |-> NoEvent]
      /\ session = [s \in Sessions |-> "closed"]
      /\ inbox = [s \in Sessions |-> <<>>]
      /\ view = [s \in Sessions |-> NoRows]
      /\ missed = [s \in Sessions |-> {}]
      /\ doubt = {}
  BY DEF LiveInit, Init
<1>2. LiveTypes
  <2>1. NoEvent \in Event
    BY DEF NoEvent, Event
  <2>2. <<>> \in Seq(Event)
    OBVIOUS
  <2> QED
    BY <1>1, <2>1, <2>2, ConstantTypes DEF LiveTypes
<1>3. /\ \A r \in Writers : write[r] = None /\ payload[r] = NoEvent
      /\ \A s \in Sessions : session[s] = "closed" /\ inbox[s] = <<>> /\ view[s] = NoRows
      /\ \A i \in Ids : db[i] = None
  BY <1>1 DEF NoRows
<1>4. \A s \in Sessions, i \in Ids : About(s, i) = {} /\ ~ShownTo(s, i)
  <2>1. \A s \in Sessions, i \in Ids : About(s, i) = {}
    BY <1>3 DEF About
  <2> QED
    BY <1>3, <2>1 DEF ShownTo, NoRows
<1>5. Payloads /\ EmptyInboxes /\ LatestDefined
  BY <1>3, <1>4 DEF Payloads, HasEvent, EmptyInboxes, LatestDefined, HasLatest
<1>6. Claims
  <2>1. \A i \in Ids, u \in Users : ~Claim(i, u)
    BY <1>3, <1>4 DEF Claim, ClaimedBy
  <2> QED
    BY <2>1 DEF Claims, OneOwner, ClaimsTaken
<1>7. EventsCurrent
  BY <1>3 DEF EventsCurrent, Announces
<1>8. ChannelsApart
  BY <1>3 DEF ChannelsApart, NoRows
<1>9. Explained
  BY <1>3 DEF Explained
<1> QED
  BY <1>2, <1>5, <1>6, <1>7, <1>8, <1>9 DEF LInv

LEMMA LInvStutter == LInv /\ UNCHANGED allVars => LInv'
<1> SUFFICES ASSUME LInv, UNCHANGED allVars
             PROVE  LInv'
  OBVIOUS
<1>1. /\ UNCHANGED <<vars, payload, session, inbox, view, missed, doubt>>
      /\ db' = db /\ write' = write
  BY DEF allVars, liveVars, vars
<1>2. LiveTypes' /\ EmptyInboxes' /\ ChannelsApart'
  BY <1>1 DEF LInv, LiveTypes, EmptyInboxes, ChannelsApart
<1>3. \A s \in Sessions, i \in Ids : About(s, i)' = About(s, i) /\ Latest(s, i)' = Latest(s, i)
  BY <1>1, InboxSame
<1>4. LatestDefined'
  BY <1>3 DEF LInv, LatestDefined, HasLatest
<1>5. \A s \in Sessions, i \in Ids : ShownTo(s, i)' => Claim(i, SessionUser[s])
  BY <1>1, <1>3 DEF ShownTo, Claim
<1>6. \A s \in Sessions, i \in Ids :
        session'[s] # "closed" /\ i \notin doubt \cup missed'[s] =>
          session[s] # "closed" /\ i \notin missed[s] /\ Latest(s, i)' = Latest(s, i)
  BY <1>1, <1>3
<1> QED
  BY <1>1, <1>2, <1>4, <1>5, <1>6, SessionFrame

LEMMA LInvNext == IInv /\ IInv' /\ LInv /\ [LiveNext]_allVars => LInv'
<1> SUFFICES ASSUME IInv, IInv', LInv, [LiveNext]_allVars
             PROVE  LInv'
  OBVIOUS
<1>1. ASSUME NEW r \in Writers, RequestStep(r)
      PROVE  LInv'
  <2>1. CASE Quiet(r)
    BY <2>1, QuietInv
  <2>2. CASE ChangeRow(r)
    BY <2>2, ChangeInv
  <2>3. CASE RemoveRow(r)
    BY <2>3, RemoveInv
  <2>4. CASE ReloadRow(r)
    BY <2>4, ReloadInv
  <2>5. CASE Invalidates(r)
    BY <2>5, InvalidatesInv
  <2>6. CASE EventDelivered(r)
    BY <2>6, DeliveredInv
  <2>7. CASE EventLost(r)
    BY <2>7, LostInv
  <2> QED
    BY <1>1, <2>1, <2>2, <2>3, <2>4, <2>5, <2>6, <2>7 DEF RequestStep, Announcing
<1>2. ASSUME NEW s \in Sessions, SessionStep(s)
      PROVE  LInv'
  <2>1. CASE Greet(s)
    BY <2>1, GreetInv
  <2>2. CASE Subscribe(s)
    BY <2>2, SubscribeInv
  <2>3. CASE Forward(s)
    BY <2>3, ForwardInv
  <2>4. CASE SessionEnds(s)
    BY <2>4, SessionEndsInv
  <2> QED
    BY <1>2, <2>1, <2>2, <2>3, <2>4 DEF SessionStep
<1>3. CASE UNCHANGED allVars
  BY <1>3, LInvStutter
<1> QED
  BY <1>1, <1>2, <1>3 DEF LiveNext

(* Sessions only watch: what is left without them is TaskService. *)
LEMMA TaskStep == [LiveNext]_allVars => [Next]_vars
<1> SUFFICES ASSUME [LiveNext]_allVars
             PROVE  [Next]_vars
  OBVIOUS
<1>1. ASSUME NEW r \in Writers, RequestStep(r)
      PROVE  WriterStarts(r) \/ WriterStep(r) \/ WriterDies(r)
  <2>1. CASE Quiet(r) \/ ChangeRow(r) \/ RemoveRow(r)
    BY <2>1 DEF Quiet, ChangeRow, RemoveRow, WriterStep
  <2>2. CASE Announcing(r)
    BY <2>2 DEF Announcing, ReloadRow, Invalidates, EventDelivered, WriterStep
  <2>3. CASE EventLost(r)
    BY <2>3 DEF EventLost, WriterStep
  <2> QED
    BY <1>1, <2>1, <2>2, <2>3 DEF RequestStep
<1>2. ASSUME NEW s \in Sessions, SessionStep(s)
      PROVE  UNCHANGED vars
  BY <1>2 DEF SessionStep, Greet, Subscribe, Forward, SessionEnds
<1>3. CASE UNCHANGED allVars
  BY <1>3 DEF allVars
<1> QED
  BY <1>1, <1>2, <1>3 DEF LiveNext, Next

(* Publishing and sessions change nothing of what task requests do: each   *)
(* behaviour of the whole is one of TaskService.                           *)
THEOREM Tasks == LiveSpec => Spec
<1>1. LiveInit => Init
  BY DEF LiveInit
<1> QED
  BY <1>1, TaskStep, PTL DEF LiveSpec, Spec

LEMMA LiveInvariance == LiveSpec => [](IInv /\ LInv)
<1>1. LiveSpec => []IInv
  BY Tasks, Invariance, PTL
<1> QED
  BY <1>1, LInvInit, LInvNext, PTL DEF LiveSpec

-----------------------------------------------------------------------------
(* Every variable keeps its type. *)
THEOREM LiveTypeCorrect == LiveSpec => []LiveTypeOK
<1>1. IInv /\ LInv => LiveTypeOK
  BY DEF IInv, LInv, LiveTypes, LiveTypeOK
<1> QED
  BY <1>1, LiveInvariance, PTL

(* A client that is told of every event shows the rows as they are, up to  *)
(* requests whose response is still to come, lost or overlapping events,   *)
(* and events between its greeting and its subscription.                   *)
THEOREM ViewsCorrect == LiveSpec => []ViewsExplained
<1>1. LInv => ViewsExplained
  BY DEF LInv, Explained, Settled, ViewsExplained
<1> QED
  BY <1>1, LiveInvariance, PTL

(* An event about to be published is the row as it is, unless its task is  *)
(* in doubt: the refresh read the row after the last write to it.          *)
THEOREM EventsCorrect == LiveSpec => []EventsCurrent
<1>1. LInv => EventsCurrent
  BY DEF LInv
<1> QED
  BY <1>1, LiveInvariance, PTL

(* No session is sent, or shows, a task of another user. *)
THEOREM ChannelsCorrect == LiveSpec => []ChannelsApart
<1>1. LInv => ChannelsApart
  BY DEF LInv
<1> QED
  BY <1>1, LiveInvariance, PTL

(* What TaskService implements, the whole implements: the events and the   *)
(* sessions leave the requests atomic to the table.                        *)
THEOREM LiveRefinement == LiveSpec => ImplementsStore
BY Tasks, Refinement, PTL

(* Session s was forwarded all there is to know of task i. *)
UpToDate(s, i) ==
  /\ session[s] = "live" /\ About(s, i) = {} /\ i \notin doubt \cup missed[s]
  /\ \A r \in Writers : Announces(r, i) => write[r].user # SessionUser[s]

QuietViewsRight ==
  \A s \in Sessions, i \in Ids : UpToDate(s, i) => view[s][i] = Query(SessionUser[s], All)[i]

(* When no event about a task is waiting or still to come, the client of a *)
(* live session shows the row as it is in the table, unless the task is in *)
(* doubt or was announced before the session had subscribed.               *)
THEOREM QuietViews == LiveSpec => []QuietViewsRight
<1>1. LInv => QuietViewsRight
  <2> SUFFICES ASSUME LInv, NEW s \in Sessions, NEW i \in Ids, UpToDate(s, i)
               PROVE  view[s][i] = Query(SessionUser[s], All)[i]
    BY DEF QuietViewsRight
  <2>1. Settled(s, i)
    BY DEF LInv, Explained, UpToDate
  <2>2. Latest(s, i) = view[s][i]
    BY DEF UpToDate, Latest
  <2> QED
    BY <2>1, <2>2 DEF Settled, UpToDate
<1> QED
  BY <1>1, LiveInvariance, PTL
=============================================================================
