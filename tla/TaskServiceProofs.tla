-------------------------- MODULE TaskServiceProofs --------------------------
(***************************************************************************)
(* Proofs about TaskService for any users, titles, filters and requests in *)
(* progress.  CacheCoherent is inductive only together with what requests  *)
(* remember: that the ids they act on are rows of their own user, that the *)
(* id sequence is ahead of all rows, and FillsCoherent.                    *)
(***************************************************************************)
EXTENDS TaskService, TLAPS

(* A create has its payload until the commit. *)
PayloadsComplete ==
  \A r \in Writers :
    WriteAt(r, {"create"}, "check") \/ WriteAt(r, {"create"}, "commit") =>
      write[r].want \in [title : Titles, status : Statuses]

(* Updates and deletes name a task from the start, creates from the commit. *)
NamesTask(r) ==
  \/ WriteAt(r, {"update", "delete"}, "check")
  \/ WriteAt(r, {"update", "delete"}, "commit")
  \/ WriteAt(r, {"create", "update", "delete"}, "refresh")

TasksNamed == \A r \in Writers : NamesTask(r) => write[r].id \in Ids

(* From the ownership query on, that task is the user's own or gone. *)
ActsOnTask(r) ==
  \/ WriteAt(r, {"update", "delete"}, "commit")
  \/ WriteAt(r, {"create", "update", "delete"}, "refresh")

ActsOnOwn ==
  \A r \in Writers : ActsOnTask(r) =>
    /\ write[r].id < nextId
    /\ db[write[r].id] # None => db[write[r].id].owner = write[r].user

(* The id sequence is ahead of every row. *)
SequenceAhead == \A i \in Ids : i >= nextId => db[i] = None

(* KEYS found entries of the request's user only. *)
KeysOwn ==
  \A r \in Writers : write[r] # None /\ write[r].at = "delete" =>
    write[r].keys \subseteq KeysOf(write[r].user)

Requests == PayloadsComplete /\ TasksNamed /\ ActsOnOwn /\ SequenceAhead /\ KeysOwn

IInv == TypeOK /\ Requests /\ CacheCoherent /\ FillsCoherent

-----------------------------------------------------------------------------
LEMMA ConstantTypes ==
  /\ \A k \in Keys : k[1] \in Users /\ k[2] \in Views /\ k = <<k[1], k[2]>>
  /\ \A u \in Users, v \in Views : <<u, v>> \in Keys
  /\ NoRows \in Result
  /\ NoFields \in Fields
  /\ \A u \in Users : KeysOf(u) \subseteq Keys
BY DEF Keys, Views, NoRows, Result, NoFields, Fields, KeysOf

LEMMA QueryType ==
  ASSUME db \in Result, NEW u, NEW v
  PROVE  Query(u, v) \in Result
BY DEF Query, Result

(* A step of one writer, a change of the record of that writer only. *)
LEMMA WriterType ==
  ASSUME TypeOK, NEW r \in Writers, write[r] # None
  PROVE  /\ write[r] \in WriteRequest
         /\ \A p \in {"check", "commit", "refresh", "keys", "delete", "publish"} :
              [write EXCEPT ![r].at = p] \in [Writers -> WriteRequest \cup {None}]
         /\ [write EXCEPT ![r] = None] \in [Writers -> WriteRequest \cup {None}]
         /\ \A p \in {"check", "commit", "refresh", "keys", "delete", "publish"},
              i \in Ids \cup {0} :
              [write EXCEPT ![r].at = p, ![r].id = i, ![r].want = NoFields, ![r].loaded = None]
                \in [Writers -> WriteRequest \cup {None}]
         /\ \A p \in {"check", "commit", "refresh", "keys", "delete", "publish"},
              ks \in SUBSET Keys :
              [write EXCEPT ![r].at = p, ![r].keys = ks]
                \in [Writers -> WriteRequest \cup {None}]
         /\ \A row \in Row :
              [write EXCEPT ![r].at = "commit", ![r].loaded = row]
                \in [Writers -> WriteRequest \cup {None}]
<1>1. write \in [Writers -> WriteRequest \cup {None}] /\ write[r] \in WriteRequest
  BY DEF TypeOK
<1>2. NoFields \in Fields
  BY ConstantTypes
<1> DEFINE Places == {"check", "commit", "refresh", "keys", "delete", "publish"}
<1>3. \A p \in Places : [write[r] EXCEPT !.at = p] \in WriteRequest
  BY <1>1 DEF WriteRequest
<1>4. \A p \in Places, i \in Ids \cup {0} :
        [write[r] EXCEPT !.at = p, !.id = i, !.want = NoFields, !.loaded = None] \in WriteRequest
  BY <1>1, <1>2 DEF WriteRequest
<1>5. \A p \in Places, ks \in SUBSET Keys :
        [write[r] EXCEPT !.at = p, !.keys = ks] \in WriteRequest
  BY <1>1 DEF WriteRequest
<1>6. \A row \in Row : [write[r] EXCEPT !.at = "commit", !.loaded = row] \in WriteRequest
  BY <1>1 DEF WriteRequest
<1>7. \A w \in WriteRequest \cup {None} :
        [write EXCEPT ![r] = w] \in [Writers -> WriteRequest \cup {None}]
  BY <1>1
<1>8. ASSUME NEW p \in Places
      PROVE  [write EXCEPT ![r].at = p] \in [Writers -> WriteRequest \cup {None}]
  BY <1>1, <1>3, <1>7
<1>9. ASSUME NEW p \in Places, NEW i \in Ids \cup {0}
      PROVE  [write EXCEPT ![r].at = p, ![r].id = i, ![r].want = NoFields, ![r].loaded = None]
               \in [Writers -> WriteRequest \cup {None}]
  BY <1>1, <1>4, <1>7
<1>10. ASSUME NEW p \in Places, NEW ks \in SUBSET Keys
       PROVE  [write EXCEPT ![r].at = p, ![r].keys = ks] \in [Writers -> WriteRequest \cup {None}]
  BY <1>1, <1>5, <1>7
<1>11. ASSUME NEW row \in Row
       PROVE  [write EXCEPT ![r].at = "commit", ![r].loaded = row]
                \in [Writers -> WriteRequest \cup {None}]
  BY <1>1, <1>6, <1>7
<1>12. [write EXCEPT ![r] = None] \in [Writers -> WriteRequest \cup {None}]
  BY <1>7
<1> QED
  BY <1>1, <1>8, <1>9, <1>10, <1>11, <1>12

(* What MarkRaced does to the list requests keeps their type. *)
LEMMA MarkRacedType ==
  ASSUME TypeOK, NEW u, MarkRaced(u)
  PROVE  read' \in [Readers -> ReadRequest \cup {None}]
<1>1. SUFFICES ASSUME NEW q \in Readers, StaleRead(q)
               PROVE  [read[q] EXCEPT !.raced = TRUE] \in ReadRequest
  BY <1>1 DEF TypeOK, MarkRaced
<1>2. read[q] \in ReadRequest
  BY <1>1 DEF TypeOK, StaleRead, ReadAt
<1> QED
  BY <1>2 DEF ReadRequest

-----------------------------------------------------------------------------
(* Every step keeps the types: the requests' own steps first. *)
LEMMA ArrivalTypes ==
  ASSUME TypeOK, NEW r \in Writers, WriterStarts(r)
  PROVE  TypeOK'
<1>1. ASSUME NEW op \in {"create", "update", "delete"}, NEW u \in Users, NEW i \in Ids \cup {0},
             NEW fields \in Fields, StartWrite(r, op, u, i, fields)
      PROVE  TypeOK'
  <2>1. [at |-> "check", op |-> op, user |-> u, id |-> i, want |-> fields,
         loaded |-> None, keys |-> {}] \in WriteRequest
    BY <1>1 DEF WriteRequest
  <2> QED
    BY <1>1, <2>1 DEF TypeOK, StartWrite
<1>2. [title : Titles, status : Statuses] \subseteq Fields
  BY DEF Fields
<1>3. CASE StartCreate(r)
  BY <1>1, <1>2, <1>3 DEF StartCreate
<1>4. CASE StartUpdate(r)
  BY <1>1, <1>4 DEF StartUpdate
<1>5. CASE StartDelete(r)
  BY <1>1, <1>5, ConstantTypes DEF StartDelete
<1> QED
  BY <1>3, <1>4, <1>5 DEF WriterStarts

LEMMA DatabaseTypes ==
  ASSUME TypeOK, Requests, NEW r \in Writers,
         CheckTitle(r) \/ Insert(r) \/ CheckOwner(r) \/ Update(r) \/ Delete(r) \/ Refresh(r)
  PROVE  TypeOK'
<1>1. CASE CheckTitle(r)
  <2>1. write[r] # None
    BY <1>1 DEF CheckTitle, WriteAt
  <2>2. [write EXCEPT ![r].at = "commit"] \in [Writers -> WriteRequest \cup {None}]
    BY <2>1, WriterType
  <2>3. [write EXCEPT ![r] = None] \in [Writers -> WriteRequest \cup {None}]
    BY <2>1, WriterType
  <2>4. write' \in [Writers -> WriteRequest \cup {None}]
    BY <1>1, <2>2, <2>3 DEF CheckTitle, WriteGoes, WriteEnds
  <2> QED
    BY <1>1, <2>4 DEF TypeOK, CheckTitle
<1>2. CASE Insert(r)
  <2>1. write[r] # None /\ write[r] \in WriteRequest
    BY <1>2, WriterType DEF Insert, WriteAt
  <2>2. nextId \in Ids /\ nextId + 1 \in 1 .. MaxId + 1
    BY <1>2, TaskAssumption DEF TypeOK, Insert, Ids
  <2>3. write[r].want \in [title : Titles, status : Statuses]
    BY <1>2 DEF Insert, Requests, PayloadsComplete
  <2>4. [owner |-> write[r].user, title |-> write[r].want.title,
         status |-> write[r].want.status] \in Row
    BY <2>1, <2>3 DEF Row, WriteRequest
  <2>5. db' \in Result
    BY <1>2, <2>2, <2>4 DEF TypeOK, Insert, Result
  <2>6. write' \in [Writers -> WriteRequest \cup {None}]
    BY <1>2, <2>1, <2>2, WriterType DEF Insert, Commits
  <2> QED
    BY <1>2, <2>2, <2>5, <2>6 DEF TypeOK, Insert
<1>3. CASE CheckOwner(r)
  <2>1. write[r] # None /\ write[r].id \in Ids
    BY <1>3 DEF CheckOwner, WriteAt, Requests, TasksNamed, NamesTask
  <2>2. CASE Owned(write[r].user, write[r].id)
    <3>1. db[write[r].id] \in Row
      BY <2>1, <2>2 DEF TypeOK, Result, Owned
    <3>2. [write EXCEPT ![r].at = "commit", ![r].loaded = db[write[r].id]]
            \in [Writers -> WriteRequest \cup {None}]
      BY <2>1, <3>1, WriterType
    <3>3. write' = [write EXCEPT ![r].at = "commit", ![r].loaded = db[write[r].id]]
      BY <1>3, <2>2 DEF CheckOwner
    <3> QED
      BY <1>3, <3>2, <3>3 DEF TypeOK, CheckOwner
  <2>3. CASE ~Owned(write[r].user, write[r].id)
    <3>1. [write EXCEPT ![r] = None] \in [Writers -> WriteRequest \cup {None}]
      BY <2>1, WriterType
    <3> QED
      BY <1>3, <2>3, <3>1 DEF TypeOK, CheckOwner, WriteEnds
  <2> QED
    BY <2>2, <2>3
<1>4. CASE Update(r)
  <2>1. write[r] # None /\ write[r] \in WriteRequest /\ write[r].id \in Ids
    BY <1>4, WriterType DEF Update, WriteAt, Requests, TasksNamed, NamesTask
  <2>2. write' \in [Writers -> WriteRequest \cup {None}]
    <3>1. [write EXCEPT ![r].at = "refresh", ![r].id = write[r].id, ![r].want = NoFields,
                        ![r].loaded = None] \in [Writers -> WriteRequest \cup {None}]
      <4>1. \A i \in Ids \cup {0} :
              [write EXCEPT ![r].at = "refresh", ![r].id = i, ![r].want = NoFields,
                            ![r].loaded = None] \in [Writers -> WriteRequest \cup {None}]
        BY <2>1, WriterType
      <4> QED
        BY <2>1, <4>1
    <3>2. [write EXCEPT ![r] = None] \in [Writers -> WriteRequest \cup {None}]
      BY <2>1, WriterType
    <3> QED
      BY <1>4, <3>1, <3>2 DEF Update, Commits, WriteEnds
  <2>3. db[write[r].id] # None => Updated(r, db[write[r].id]) \in Row
    <3> SUFFICES ASSUME db[write[r].id] # None
                 PROVE  Updated(r, db[write[r].id]) \in Row
      OBVIOUS
    <3>1. db[write[r].id] \in Row
      BY <2>1 DEF TypeOK, Result
    <3>2. write[r].want \in Fields
      BY <2>1 DEF WriteRequest
    <3>3. "title" \in Changes(r) => write[r].want.title \in Titles
      BY <3>2 DEF Changes, Fields
    <3>4. "status" \in Changes(r) => write[r].want.status \in Statuses
      BY <3>2 DEF Changes, Fields
    <3> QED
      BY <3>1, <3>3, <3>4 DEF Updated, Row
  <2>4. db' \in Result
    BY <1>4, <2>1, <2>3 DEF TypeOK, Update, Result
  <2> QED
    BY <1>4, <2>2, <2>4 DEF TypeOK, Update
<1>5. CASE Delete(r)
  <2>1. write[r] # None
    BY <1>5 DEF Delete, WriteAt
  <2>2. db' \in Result
    BY <1>5 DEF TypeOK, Delete, Result
  <2> QED
    BY <1>5, <2>1, <2>2, WriterType DEF TypeOK, Delete, Commits
<1>6. CASE Refresh(r)
  <2>1. write[r] # None
    BY <1>6 DEF Refresh, WriteAt
  <2>2. [write EXCEPT ![r].at = "keys", ![r].id = 0, ![r].want = NoFields, ![r].loaded = None]
          \in [Writers -> WriteRequest \cup {None}]
    BY <2>1, WriterType
  <2>3. [write EXCEPT ![r] = None] \in [Writers -> WriteRequest \cup {None}]
    BY <2>1, WriterType
  <2>4. write' \in [Writers -> WriteRequest \cup {None}]
    BY <1>6, <2>2, <2>3 DEF Refresh, WriteEnds, Commits
  <2> QED
    BY <1>6, <2>4 DEF TypeOK, Refresh
<1> QED
  BY <1>1, <1>2, <1>3, <1>4, <1>5, <1>6

LEMMA InvalidationTypes ==
  ASSUME TypeOK, NEW r \in Writers,
         FindKeys(r) \/ FindKeysFails(r) \/ DeleteKeys(r) \/ DeleteKeysFails(r)
           \/ Publish(r) \/ WriterDies(r)
  PROVE  TypeOK'
<1>0. write[r] # None /\ write[r] \in WriteRequest
  BY WriterType DEF FindKeys, FindKeysFails, DeleteKeys, DeleteKeysFails, Publish, WriterDies
<1>1. CASE FindKeys(r)
  <2>1. read' \in [Readers -> ReadRequest \cup {None}]
    BY <1>1, MarkRacedType DEF FindKeys
  <2>2. {k \in KeysOf(write[r].user) : cache[k] # None} \in SUBSET Keys
    BY DEF KeysOf
  <2>3. write' \in [Writers -> WriteRequest \cup {None}]
    BY <1>0, <1>1, <2>2, WriterType DEF FindKeys
  <2> QED
    BY <1>1, <2>1, <2>3 DEF TypeOK, FindKeys
<1>2. CASE FindKeysFails(r)
  <2>1. read' \in [Readers -> ReadRequest \cup {None}]
    BY <1>2, MarkRacedType DEF FindKeysFails
  <2>2. tainted' \in SUBSET Keys
    BY <1>2 DEF FindKeysFails, Taint, KeysOf, TypeOK
  <2>3. write' \in [Writers -> WriteRequest \cup {None}]
    BY <1>0, <1>2, WriterType DEF FindKeysFails, WriteGoes
  <2> QED
    BY <1>2, <2>1, <2>2, <2>3 DEF TypeOK, FindKeysFails
<1>3. CASE DeleteKeys(r)
  <2>1. cache' \in [Keys -> Result \cup {None}]
    BY <1>3 DEF TypeOK, DeleteKeys
  <2>2. write' \in [Writers -> WriteRequest \cup {None}]
    BY <1>0, <1>3, WriterType DEF DeleteKeys
  <2> QED
    BY <1>3, <2>1, <2>2 DEF TypeOK, DeleteKeys
<1>4. CASE DeleteKeysFails(r)
  <2>1. tainted' \in SUBSET Keys
    BY <1>0, <1>4 DEF DeleteKeysFails, Taint, TypeOK, WriteRequest
  <2>2. write' \in [Writers -> WriteRequest \cup {None}]
    BY <1>0, <1>4, WriterType DEF DeleteKeysFails
  <2> QED
    BY <1>4, <2>1, <2>2 DEF TypeOK, DeleteKeysFails
<1>5. CASE Publish(r)
  BY <1>0, <1>5, WriterType DEF TypeOK, Publish, WriteEnds
<1>6. CASE WriterDies(r)
  <2>1. write' \in [Writers -> WriteRequest \cup {None}]
    BY <1>0, <1>6, WriterType DEF WriterDies, WriteEnds
  <2>2. tainted' \in SUBSET Keys
    BY <1>6 DEF WriterDies, Taint, KeysOf, TypeOK
  <2>3. read' \in [Readers -> ReadRequest \cup {None}]
    BY <1>6, MarkRacedType DEF WriterDies, TypeOK
  <2> QED
    BY <1>6, <2>1, <2>2, <2>3 DEF TypeOK, WriterDies
<1> QED
  BY <1>1, <1>2, <1>3, <1>4, <1>5, <1>6

LEMMA ListTypes ==
  ASSUME TypeOK, NEW q \in Readers, StartList(q) \/ ReaderStep(q) \/ ReaderDies(q)
  PROVE  TypeOK'
<1>0. read \in [Readers -> ReadRequest \cup {None}]
  BY DEF TypeOK
<1>1. CASE StartList(q)
  <2>1. PICK u \in Users, v \in Views :
          read' = [read EXCEPT ![q] =
            [at |-> "get", user |-> u, view |-> v, rows |-> NoRows, raced |-> FALSE]]
    BY <1>1 DEF StartList
  <2>2. [at |-> "get", user |-> u, view |-> v, rows |-> NoRows, raced |-> FALSE] \in ReadRequest
    BY ConstantTypes DEF ReadRequest
  <2> QED
    BY <1>0, <1>1, <2>1, <2>2 DEF TypeOK, StartList
<1>2. CASE GetCache(q)
  <2>1. read[q] \in ReadRequest
    BY <1>0, <1>2 DEF GetCache, ReadAt
  <2>2. [read[q] EXCEPT !.at = "select"] \in ReadRequest
    BY <2>1 DEF ReadRequest
  <2>3. read' \in [Readers -> ReadRequest \cup {None}]
    BY <1>0, <1>2, <2>2 DEF GetCache
  <2> QED
    BY <1>2, <2>3 DEF TypeOK, GetCache
<1>3. CASE Select(q)
  <2>1. read[q] \in ReadRequest
    BY <1>0, <1>3 DEF Select, ReadAt
  <2>2. Query(read[q].user, read[q].view) \in Result
    BY QueryType DEF TypeOK
  <2>3. [read[q] EXCEPT !.at = "set", !.rows = Query(read[q].user, read[q].view)] \in ReadRequest
    BY <2>1, <2>2 DEF ReadRequest
  <2>4. read' \in [Readers -> ReadRequest \cup {None}]
    BY <1>0, <1>3, <2>3 DEF Select
  <2> QED
    BY <1>3, <2>4 DEF TypeOK, Select
<1>4. CASE SetCache(q)
  <2>1. read[q] \in ReadRequest
    BY <1>0, <1>4 DEF SetCache, ReadAt
  <2>2. read[q].rows \in Result /\ <<read[q].user, read[q].view>> \in Keys
    BY <2>1, ConstantTypes DEF ReadRequest
  <2>3. cache' \in [Keys -> Result \cup {None}] /\ tainted' \in SUBSET Keys
    BY <1>4, <2>2 DEF TypeOK, SetCache
  <2> QED
    BY <1>4, <2>3 DEF TypeOK, SetCache
<1>5. CASE ReaderDies(q)
  BY <1>5 DEF TypeOK, ReaderDies
<1> QED
  BY <1>1, <1>2, <1>3, <1>4, <1>5 DEF ReaderStep

-----------------------------------------------------------------------------
(* What a step leaves in its own record, and that it leaves others alone. *)
LEMMA EndsEffect ==
  ASSUME TypeOK, NEW r \in Writers, WriteEnds(r)
  PROVE  write'[r] = None /\ \A x \in Writers : x # r => write'[x] = write[x]
BY DEF TypeOK, WriteEnds

LEMMA GoesEffect ==
  ASSUME TypeOK, NEW r \in Writers, write[r] # None, NEW p, WriteGoes(r, p)
  PROVE  /\ write'[r].at = p
         /\ write'[r].op = write[r].op /\ write'[r].user = write[r].user
         /\ write'[r].id = write[r].id /\ write'[r].want = write[r].want
         /\ write'[r].keys = write[r].keys
         /\ \A x \in Writers : x # r => write'[x] = write[x]
<1>1. write[r] \in WriteRequest
  BY WriterType
<1> QED
  BY <1>1 DEF TypeOK, WriteGoes, WriteRequest

LEMMA CommitsEffect ==
  ASSUME TypeOK, NEW r \in Writers, write[r] # None, NEW p, NEW i, Commits(r, p, i)
  PROVE  /\ write'[r].at = p /\ write'[r].id = i
         /\ write'[r].op = write[r].op /\ write'[r].user = write[r].user
         /\ write'[r].keys = write[r].keys
         /\ \A x \in Writers : x # r => write'[x] = write[x]
<1>1. write[r] \in WriteRequest
  BY WriterType
<1> QED
  BY <1>1 DEF TypeOK, Commits, WriteRequest

LEMMA CommitsStays ==
  ASSUME TypeOK, NEW r \in Writers, write[r] # None, NEW p \in {"refresh", "keys"},
         NEW i \in Ids \cup {0}, Commits(r, p, i)
  PROVE  write'[r] # None
<1>1. write[r] \in WriteRequest
  BY WriterType
<1>2. [write[r] EXCEPT !.at = p, !.id = i, !.want = NoFields, !.loaded = None] \in WriteRequest
  BY <1>1, ConstantTypes DEF WriteRequest
<1>3. write'[r] = [write[r] EXCEPT !.at = p, !.id = i, !.want = NoFields, !.loaded = None]
  BY DEF TypeOK, Commits
<1> QED
  BY <1>2, <1>3, NoneAssumption

(* A step that changes no row and no other request keeps Requests if the   *)
(* request it belongs to is fine afterwards.                               *)
LEMMA RequestsFrame ==
  ASSUME Requests, NEW r \in Writers, UNCHANGED <<db, nextId>>,
         \A x \in Writers : x # r => write'[x] = write[x],
         (WriteAt(r, {"create"}, "check") \/ WriteAt(r, {"create"}, "commit"))'
           => write'[r].want \in [title : Titles, status : Statuses],
         NamesTask(r)' => write'[r].id \in Ids,
         ActsOnTask(r)' => /\ write'[r].id < nextId
                           /\ db[write'[r].id] # None => db[write'[r].id].owner = write'[r].user,
         (write[r] # None /\ write[r].at = "delete")' => write'[r].keys \subseteq KeysOf(write'[r].user)
  PROVE  Requests'
<1>1. PayloadsComplete'
  BY DEF Requests, PayloadsComplete, WriteAt
<1>2. TasksNamed'
  BY DEF Requests, TasksNamed, NamesTask, WriteAt
<1>3. ActsOnOwn'
  BY DEF Requests, ActsOnOwn, ActsOnTask, WriteAt
<1>4. SequenceAhead'
  BY DEF Requests, SequenceAhead
<1>5. KeysOwn'
  BY DEF Requests, KeysOwn, KeysOf
<1> QED
  BY <1>1, <1>2, <1>3, <1>4, <1>5 DEF Requests

(* A request that ended, and one past its commit, has nothing left to know. *)
LEMMA RequestsEnd ==
  ASSUME TypeOK, Requests, NEW r \in Writers, WriteEnds(r), UNCHANGED <<db, nextId>>
  PROVE  Requests'
<1>1. write'[r] = None /\ \A x \in Writers : x # r => write'[x] = write[x]
  BY EndsEffect
<1> QED
  BY <1>1, RequestsFrame DEF WriteAt, NamesTask, ActsOnTask

LEMMA ArrivalRequests ==
  ASSUME TypeOK, Requests, NEW r \in Writers, WriterStarts(r)
  PROVE  Requests'
<1>1. ASSUME NEW op \in {"create", "update", "delete"}, NEW u \in Users, NEW i \in Ids \cup {0},
             NEW fields, StartWrite(r, op, u, i, fields),
             op = "create" => fields \in [title : Titles, status : Statuses],
             op # "create" => i \in Ids
      PROVE  Requests'
  <2>1. /\ write'[r] = [at |-> "check", op |-> op, user |-> u, id |-> i, want |-> fields,
                        loaded |-> None, keys |-> {}]
        /\ \A x \in Writers : x # r => write'[x] = write[x]
        /\ UNCHANGED <<db, nextId>>
    BY <1>1 DEF TypeOK, StartWrite
  <2> QED
    BY <1>1, <2>1, RequestsFrame DEF WriteAt, NamesTask, ActsOnTask
<1>2. CASE StartCreate(r)
  BY <1>1, <1>2 DEF StartCreate
<1>3. CASE StartUpdate(r)
  BY <1>1, <1>3 DEF StartUpdate
<1>4. CASE StartDelete(r)
  BY <1>1, <1>4 DEF StartDelete
<1> QED
  BY <1>2, <1>3, <1>4 DEF WriterStarts

LEMMA CheckRequests ==
  ASSUME TypeOK, Requests, NEW r \in Writers, CheckTitle(r) \/ CheckOwner(r) \/ Refresh(r)
  PROVE  Requests'
<1>0. write[r] # None /\ write[r] \in WriteRequest /\ UNCHANGED <<db, nextId>>
  BY WriterType DEF CheckTitle, CheckOwner, Refresh, WriteAt
<1>1. CASE WriteEnds(r)
  BY <1>0, <1>1, RequestsEnd
<1>2. CASE CheckTitle(r) /\ WriteGoes(r, "commit")
  <2>1. write[r].want \in [title : Titles, status : Statuses] /\ write[r].op = "create"
    BY <1>2 DEF CheckTitle, Requests, PayloadsComplete, WriteAt
  <2> QED
    BY <1>0, <1>2, <2>1, GoesEffect, RequestsFrame DEF WriteAt, NamesTask, ActsOnTask
<1>3. CASE CheckOwner(r) /\ Owned(write[r].user, write[r].id)
  <2>1. write[r].id \in Ids /\ write[r].op \in {"update", "delete"}
    BY <1>3 DEF CheckOwner, Requests, TasksNamed, NamesTask, WriteAt
  <2>2. write[r].id < nextId
    BY <2>1, <1>3 DEF Owned, Requests, SequenceAhead, TypeOK, Ids
  <2>3. /\ write'[r].at = "commit" /\ write'[r].op = write[r].op /\ write'[r].id = write[r].id
        /\ write'[r].user = write[r].user
        /\ \A x \in Writers : x # r => write'[x] = write[x]
    BY <1>0, <1>3 DEF CheckOwner, TypeOK, WriteRequest
  <2> QED
    BY <1>0, <1>3, <2>1, <2>2, <2>3, RequestsFrame DEF WriteAt, NamesTask, ActsOnTask, Owned
<1>4. CASE Refresh(r) /\ Commits(r, "keys", 0)
  BY <1>0, <1>4, CommitsEffect, RequestsFrame DEF WriteAt, NamesTask, ActsOnTask
<1> QED
  BY <1>1, <1>2, <1>3, <1>4 DEF CheckTitle, CheckOwner, Refresh

(* A commit changes one row, the one its request acts on. *)
LEMMA InsertRequests ==
  ASSUME TypeOK, Requests, NEW r \in Writers, Insert(r)
  PROVE  Requests'
<1>1. write[r] # None /\ write[r] \in WriteRequest /\ write[r].op = "create"
  BY WriterType DEF Insert, WriteAt
<1>2. nextId \in Ids /\ nextId' = nextId + 1 /\ nextId \in Nat
  BY TaskAssumption DEF Insert, TypeOK, Ids
<1>3. /\ write'[r].at = "refresh" /\ write'[r].id = nextId /\ write'[r].op = "create"
      /\ write'[r].user = write[r].user
      /\ \A x \in Writers : x # r => write'[x] = write[x]
  BY <1>1, CommitsEffect DEF Insert
<1>4. /\ db'[nextId].owner = write[r].user
      /\ \A i \in Ids : i # nextId => db'[i] = db[i]
  BY <1>2 DEF Insert, TypeOK, Result
<1>5. PayloadsComplete'
  BY <1>3 DEF Requests, PayloadsComplete, WriteAt
<1>6. TasksNamed'
  BY <1>2, <1>3 DEF Requests, TasksNamed, NamesTask, WriteAt
<1>7. ActsOnOwn'
  <2> SUFFICES ASSUME NEW x \in Writers, ActsOnTask(x)'
               PROVE  /\ write'[x].id < nextId'
                      /\ db'[write'[x].id] # None => db'[write'[x].id].owner = write'[x].user
    BY DEF ActsOnOwn
  <2>1. CASE x = r
    BY <1>2, <1>3, <1>4, <2>1
  <2>2. CASE x # r
    <3>1. ActsOnTask(x) /\ write'[x] = write[x]
      BY <1>3, <2>2 DEF ActsOnTask, WriteAt
    <3>2. write[x].id \in Ids
      BY <3>1 DEF Requests, TasksNamed, NamesTask, ActsOnTask
    <3>3. /\ write[x].id < nextId
          /\ db[write[x].id] # None => db[write[x].id].owner = write[x].user
      BY <3>1 DEF Requests, ActsOnOwn
    <3>4. db'[write[x].id] = db[write[x].id]
      BY <3>2, <3>3, <1>2, <1>4 DEF Ids
    <3> QED
      BY <3>1, <3>2, <3>3, <3>4, <1>2 DEF Ids
  <2> QED
    BY <2>1, <2>2
<1>8. SequenceAhead'
  BY <1>2, <1>4 DEF Requests, SequenceAhead, Ids
<1>9. KeysOwn'
  BY <1>3 DEF Requests, KeysOwn, KeysOf
<1> QED
  BY <1>5, <1>6, <1>7, <1>8, <1>9 DEF Requests

(* An update keeps the owner of its row, if the row is still there. *)
LEMMA UpdateRequests ==
  ASSUME TypeOK, Requests, NEW r \in Writers, Update(r)
  PROVE  Requests'
<1>1. write[r] # None /\ write[r] \in WriteRequest /\ write[r].op = "update"
      /\ write[r].id \in Ids /\ ActsOnTask(r)
  BY WriterType DEF Update, WriteAt, ActsOnTask, Requests, TasksNamed, NamesTask
<1>2. CASE UNCHANGED db /\ WriteEnds(r)
  BY <1>2, RequestsEnd DEF Update
<1>3. CASE Commits(r, "refresh", write[r].id)
  <2>1. /\ write'[r].at = "refresh" /\ write'[r].id = write[r].id /\ write'[r].op = "update"
        /\ write'[r].user = write[r].user
        /\ \A x \in Writers : x # r => write'[x] = write[x]
    BY <1>1, <1>3, CommitsEffect
  <2>2. \A i \in Ids : /\ db[i] = None => db'[i] = None
                       /\ db'[i] # None => db'[i].owner = db[i].owner
    BY <1>1 DEF Update, TypeOK, Result, Updated
  <2>3. UNCHANGED nextId
    BY DEF Update
  <2>4. PayloadsComplete'
    BY <2>1 DEF Requests, PayloadsComplete, WriteAt
  <2>5. TasksNamed'
    BY <1>1, <2>1 DEF Requests, TasksNamed, NamesTask, WriteAt
  <2>6. ActsOnOwn'
    <3> SUFFICES ASSUME NEW x \in Writers, ActsOnTask(x)'
                 PROVE  /\ write'[x].id < nextId'
                        /\ db'[write'[x].id] # None => db'[write'[x].id].owner = write'[x].user
      BY DEF ActsOnOwn
    <3>1. ActsOnTask(x) /\ write'[x].id = write[x].id /\ write'[x].user = write[x].user
      BY <1>1, <2>1 DEF ActsOnTask, WriteAt
    <3>2. write[x].id \in Ids
      BY <3>1 DEF Requests, TasksNamed, NamesTask, ActsOnTask
    <3>3. /\ write[x].id < nextId
          /\ db[write[x].id] # None => db[write[x].id].owner = write[x].user
      BY <3>1 DEF Requests, ActsOnOwn
    <3> QED
      BY <2>2, <2>3, <3>1, <3>2, <3>3
  <2>7. SequenceAhead'
    BY <2>2, <2>3 DEF Requests, SequenceAhead
  <2>8. KeysOwn'
    BY <2>1 DEF Requests, KeysOwn, KeysOf
  <2> QED
    BY <2>4, <2>5, <2>6, <2>7, <2>8 DEF Requests
<1> QED
  BY <1>2, <1>3 DEF Update

LEMMA DeleteRequests ==
  ASSUME TypeOK, Requests, NEW r \in Writers, Delete(r)
  PROVE  Requests'
<1>1. write[r] # None
  BY DEF Delete, WriteAt
<1>2. /\ write'[r].at = "keys"
      /\ \A x \in Writers : x # r => write'[x] = write[x]
  BY <1>1, CommitsEffect DEF Delete
<1>3. UNCHANGED nextId /\ \A i \in Ids : db'[i] \in {None, db[i]}
  BY DEF Delete, TypeOK, Result
<1>4. PayloadsComplete'
  BY <1>2 DEF Requests, PayloadsComplete, WriteAt
<1>5. TasksNamed'
  BY <1>2 DEF Requests, TasksNamed, NamesTask, WriteAt
<1>6. ActsOnOwn'
  <2> SUFFICES ASSUME NEW x \in Writers, ActsOnTask(x)'
               PROVE  /\ write'[x].id < nextId'
                      /\ db'[write'[x].id] # None => db'[write'[x].id].owner = write'[x].user
    BY DEF ActsOnOwn
  <2>1. ActsOnTask(x) /\ write'[x] = write[x]
    BY <1>2 DEF ActsOnTask, WriteAt
  <2>2. write[x].id \in Ids
    BY <2>1 DEF Requests, TasksNamed, NamesTask, ActsOnTask
  <2>3. /\ write[x].id < nextId
        /\ db[write[x].id] # None => db[write[x].id].owner = write[x].user
    BY <2>1 DEF Requests, ActsOnOwn
  <2> QED
    BY <1>3, <2>1, <2>2, <2>3
<1>7. SequenceAhead'
  BY <1>3 DEF Requests, SequenceAhead
<1>8. KeysOwn'
  BY <1>2 DEF Requests, KeysOwn, KeysOf
<1> QED
  BY <1>4, <1>5, <1>6, <1>7, <1>8 DEF Requests

LEMMA InvalidationRequests ==
  ASSUME TypeOK, Requests, NEW r \in Writers,
         FindKeys(r) \/ FindKeysFails(r) \/ DeleteKeys(r) \/ DeleteKeysFails(r)
           \/ Publish(r) \/ WriterDies(r)
  PROVE  Requests'
<1>0. write[r] # None /\ write[r] \in WriteRequest /\ UNCHANGED <<db, nextId>>
  BY WriterType DEF FindKeys, FindKeysFails, DeleteKeys, DeleteKeysFails, Publish, WriterDies
<1>1. CASE WriteEnds(r)
  BY <1>0, <1>1, RequestsEnd
<1>2. CASE FindKeys(r)
  <2>1. /\ write'[r].at \in {"publish", "delete"} /\ write'[r].user = write[r].user
        /\ write'[r].keys \subseteq KeysOf(write[r].user)
        /\ \A x \in Writers : x # r => write'[x] = write[x]
    BY <1>0, <1>2 DEF FindKeys, TypeOK, WriteRequest
  <2> QED
    BY <1>0, <2>1, RequestsFrame DEF WriteAt, NamesTask, ActsOnTask
<1>3. CASE FindKeysFails(r)
  BY <1>0, <1>3, GoesEffect, RequestsFrame DEF FindKeysFails, WriteAt, NamesTask, ActsOnTask
<1>4. CASE DeleteKeys(r) \/ DeleteKeysFails(r)
  <2>1. /\ write'[r].at = "publish"
        /\ \A x \in Writers : x # r => write'[x] = write[x]
    BY <1>0, <1>4 DEF DeleteKeys, DeleteKeysFails, TypeOK, WriteRequest
  <2> QED
    BY <1>0, <2>1, RequestsFrame DEF WriteAt, NamesTask, ActsOnTask
<1> QED
  BY <1>1, <1>2, <1>3, <1>4 DEF Publish, WriterDies

-----------------------------------------------------------------------------
(* Coherence.  A change to rows of user w changes no result of another.   *)
LEMMA QueryElsewhere ==
  ASSUME NEW w, NEW u, NEW v, u # w,
         \A i \in Ids : \/ db'[i] = db[i]
                        \/ /\ db[i] # None => db[i].owner = w
                           /\ db'[i] # None => db'[i].owner = w
  PROVE  Query(u, v)' = Query(u, v)
BY DEF Query

(* A commit is covered by the invalidation its own request still has to do. *)
LEMMA CommitCovered ==
  ASSUME TypeOK, CacheCoherent, FillsCoherent, NEW r \in Writers, NEW w,
         \A i \in Ids : \/ db'[i] = db[i]
                        \/ /\ db[i] # None => db[i].owner = w
                           /\ db'[i] # None => db'[i].owner = w,
         UNCHANGED <<cache, tainted, read>>,
         \A x \in Writers, k \in Keys : WillInvalidate(x, k) => k[1] = w \/ WillInvalidate(x, k)',
         \A x \in Writers, u \in Users : BeforeKeys(x, u) => u = w \/ BeforeKeys(x, u)',
         BeforeKeys(r, w)'
  PROVE  CacheCoherent' /\ FillsCoherent'
<1>1. CacheCoherent'
  <2> SUFFICES ASSUME NEW k \in Keys, Stale(k)'
               PROVE  k \in tainted' \/ \E x \in Writers : WillInvalidate(x, k)'
    BY DEF CacheCoherent
  <2>1. CASE k[1] = w
    BY <2>1 DEF WillInvalidate
  <2>2. CASE k[1] # w
    <3>1. Stale(k)
      BY <2>2, QueryElsewhere DEF Stale
    <3> QED
      BY <2>2, <3>1 DEF CacheCoherent
  <2> QED
    BY <2>1, <2>2
<1>2. FillsCoherent'
  <2> SUFFICES ASSUME NEW q \in Readers, StaleRead(q)'
               PROVE  read'[q].raced \/ \E x \in Writers : BeforeKeys(x, read[q].user)'
    BY DEF FillsCoherent, BeforeKeys
  <2>1. CASE read[q].user = w
    BY <2>1
  <2>2. CASE read[q].user # w
    <3>1. StaleRead(q)
      BY <2>2, QueryElsewhere DEF StaleRead, ReadAt
    <3>2. read[q].user \in Users
      BY <3>1 DEF StaleRead, ReadAt, TypeOK, ReadRequest
    <3> QED
      BY <2>2, <3>1, <3>2 DEF FillsCoherent
  <2> QED
    BY <2>1, <2>2
<1> QED
  BY <1>1, <1>2

(* A step that changes no row and no entry keeps CacheCoherent when the    *)
(* stale entries it gives up are tainted.                                  *)
LEMMA CacheFrame ==
  ASSUME CacheCoherent, UNCHANGED <<db, cache>>, tainted \subseteq tainted',
         \A x \in Writers, k \in Keys :
           Stale(k) /\ WillInvalidate(x, k) =>
             k \in tainted' \/ \E y \in Writers : WillInvalidate(y, k)'
  PROVE  CacheCoherent'
<1> SUFFICES ASSUME NEW k \in Keys, Stale(k)'
             PROVE  k \in tainted' \/ \E x \in Writers : WillInvalidate(x, k)'
  BY DEF CacheCoherent
<1>1. Stale(k)
  BY DEF Stale, Query
<1> QED
  BY <1>1 DEF CacheCoherent

LEMMA FillsFrame ==
  ASSUME TypeOK, FillsCoherent, UNCHANGED <<db, read>>,
         \A x \in Writers, u \in Users : BeforeKeys(x, u) => BeforeKeys(x, u)'
  PROVE  FillsCoherent'
<1> SUFFICES ASSUME NEW q \in Readers, StaleRead(q)'
             PROVE  read'[q].raced \/ \E x \in Writers : BeforeKeys(x, read[q].user)'
  BY DEF FillsCoherent, BeforeKeys
<1>1. StaleRead(q)
  BY DEF StaleRead, ReadAt, Query
<1>2. read[q].user \in Users
  BY <1>1 DEF StaleRead, ReadAt, TypeOK, ReadRequest
<1> QED
  BY <1>1, <1>2 DEF FillsCoherent

(* When the KEYS for user u is over, or given up, MarkRaced makes up for it. *)
LEMMA FillsRaced ==
  ASSUME TypeOK, FillsCoherent, UNCHANGED db, NEW u, MarkRaced(u),
         \A x \in Writers, v \in Users : BeforeKeys(x, v) => v = u \/ BeforeKeys(x, v)'
  PROVE  FillsCoherent'
<1> SUFFICES ASSUME NEW q \in Readers, StaleRead(q)'
             PROVE  read'[q].raced \/ \E x \in Writers : BeforeKeys(x, read[q].user)'
  BY DEF FillsCoherent
<1>1. read[q] # None /\ read[q] \in ReadRequest
  BY DEF TypeOK, StaleRead, ReadAt, MarkRaced
<1>2. /\ read'[q].at = read[q].at /\ read'[q].user = read[q].user
      /\ read'[q].view = read[q].view /\ read'[q].rows = read[q].rows
      /\ StaleRead(q) /\ read[q].user = u => read'[q].raced
      /\ read[q].raced => read'[q].raced
  BY <1>1 DEF MarkRaced, ReadRequest
<1>3. StaleRead(q)
  BY <1>1, <1>2 DEF StaleRead, ReadAt, Query
<1>4. read[q].user \in Users
  BY <1>1 DEF ReadRequest
<1> QED
  BY <1>2, <1>3, <1>4 DEF FillsCoherent, BeforeKeys

(* A request that does not invalidate has nothing to give up. *)
LEMMA QuietCoherent ==
  ASSUME TypeOK, CacheCoherent, FillsCoherent, NEW r \in Writers,
         UNCHANGED <<db, cache, tainted, read>>,
         \A x \in Writers : x # r => write'[x] = write[x],
         \A u \in Users : BeforeKeys(r, u) => BeforeKeys(r, u)',
         \A k \in Keys : WillInvalidate(r, k) => WillInvalidate(r, k)'
  PROVE  CacheCoherent' /\ FillsCoherent'
<1>1. \A x \in Writers, u \in Users : BeforeKeys(x, u) => BeforeKeys(x, u)'
  BY DEF BeforeKeys
<1>2. \A x \in Writers, k \in Keys : WillInvalidate(x, k) => WillInvalidate(x, k)'
  BY DEF WillInvalidate, BeforeKeys
<1> QED
  BY <1>1, <1>2, CacheFrame, FillsFrame

LEMMA ArrivalCoherent ==
  ASSUME TypeOK, CacheCoherent, FillsCoherent, NEW r \in Writers, WriterStarts(r)
  PROVE  CacheCoherent' /\ FillsCoherent'
<1>1. write[r] = None /\ UNCHANGED <<db, cache, tainted, read>>
      /\ \A x \in Writers : x # r => write'[x] = write[x]
  BY DEF TypeOK, WriterStarts, StartCreate, StartUpdate, StartDelete, StartWrite
<1> QED
  BY <1>1, QuietCoherent DEF WillInvalidate, BeforeKeys

LEMMA CheckCoherent ==
  ASSUME TypeOK, CacheCoherent, FillsCoherent, NEW r \in Writers,
         CheckTitle(r) \/ CheckOwner(r) \/ Publish(r)
  PROVE  CacheCoherent' /\ FillsCoherent'
<1>1. write[r].at \in {"check", "publish"} /\ UNCHANGED <<db, cache, tainted, read>>
      /\ \A x \in Writers : x # r => write'[x] = write[x]
  BY DEF TypeOK, CheckTitle, CheckOwner, Publish, WriteAt, WriteGoes, WriteEnds
<1> QED
  BY <1>1, QuietCoherent DEF WillInvalidate, BeforeKeys

(* A request that goes on to its KEYS still covers what it covered. *)
LEMMA RefreshCoherent ==
  ASSUME TypeOK, CacheCoherent, FillsCoherent, NEW r \in Writers, Refresh(r)
  PROVE  CacheCoherent' /\ FillsCoherent'
<1>1. write[r] # None /\ write[r].at = "refresh" /\ UNCHANGED <<db, cache, tainted, read>>
  BY DEF Refresh, WriteAt
<1>2. CASE db[write[r].id] = None
  <2>1. \A x \in Writers : x # r => write'[x] = write[x]
    BY <1>2, EndsEffect DEF Refresh
  <2> QED
    BY <1>1, <1>2, <2>1, QuietCoherent DEF WillInvalidate, BeforeKeys
<1>3. CASE db[write[r].id] # None
  <2>1. /\ write'[r].at = "keys" /\ write'[r].user = write[r].user
        /\ \A x \in Writers : x # r => write'[x] = write[x]
    BY <1>1, <1>3, CommitsEffect DEF Refresh
  <2>2. write'[r] # None
    BY <1>1, <1>3, CommitsStays DEF Refresh
  <2> QED
    BY <1>1, <1>3, <2>1, <2>2, QuietCoherent DEF WillInvalidate, BeforeKeys
<1> QED
  BY <1>2, <1>3

(* The three commits. *)
LEMMA InsertCoherent ==
  ASSUME IInv, NEW r \in Writers, Insert(r)
  PROVE  CacheCoherent' /\ FillsCoherent'
<1>1. write[r] # None /\ write[r] \in WriteRequest /\ write[r].at = "commit"
      /\ UNCHANGED <<cache, tainted, read>>
  BY WriterType DEF IInv, Insert, WriteAt
<1>2. nextId \in Ids
  BY TaskAssumption DEF IInv, Insert, TypeOK, Ids
<1>3. /\ write'[r].at = "refresh" /\ write'[r].id = nextId
      /\ write'[r].user = write[r].user
      /\ \A x \in Writers : x # r => write'[x] = write[x]
  BY <1>1, CommitsEffect DEF IInv, Insert
<1>4. write'[r] # None
  BY <1>1, <1>2, CommitsStays DEF IInv, Insert
<1>5. [owner |-> write[r].user, title |-> write[r].want.title,
       status |-> write[r].want.status] \in Row
  <2>1. write[r].want \in [title : Titles, status : Statuses]
    BY DEF IInv, Requests, PayloadsComplete, Insert
  <2> QED
    BY <1>1, <2>1 DEF Row, WriteRequest
<1>6. /\ db'[nextId] # None /\ db'[nextId].owner = write[r].user
      /\ db[nextId] = None
      /\ \A i \in Ids : i # nextId => db'[i] = db[i]
  BY <1>2, <1>5, NoneAssumption DEF IInv, Insert, TypeOK, Result, Requests, SequenceAhead, Ids
<1>7. BeforeKeys(r, write[r].user)'
  BY <1>3, <1>4, <1>6 DEF BeforeKeys
<1>8. \A i \in Ids : db[i] # None => db'[i] # None
  BY <1>6
<1>9. \A x \in Writers, u \in Users : BeforeKeys(x, u) => BeforeKeys(x, u)'
  <2> SUFFICES ASSUME NEW x \in Writers, NEW u \in Users, BeforeKeys(x, u)
               PROVE  BeforeKeys(x, u)'
    OBVIOUS
  <2>1. x # r /\ write'[x] = write[x]
    BY <1>1, <1>3 DEF BeforeKeys
  <2>2. write[x].at = "refresh" => write[x].id \in Ids
    BY WriterType DEF BeforeKeys, IInv, Requests, TasksNamed, NamesTask, WriteAt, WriteRequest
  <2> QED
    BY <1>8, <2>1, <2>2 DEF BeforeKeys
<1>10. \A x \in Writers, k \in Keys : WillInvalidate(x, k) => WillInvalidate(x, k)'
  BY <1>1, <1>3, <1>9, ConstantTypes DEF WillInvalidate
<1>11. \A i \in Ids : \/ db'[i] = db[i]
                      \/ /\ db[i] # None => db[i].owner = write[r].user
                         /\ db'[i] # None => db'[i].owner = write[r].user
  BY <1>6
<1>12. TypeOK /\ CacheCoherent /\ FillsCoherent
  BY DEF IInv
<1> QED
  BY <1>1, <1>3, <1>7, <1>9, <1>10, <1>11, <1>12, CommitCovered DEF BeforeKeys

LEMMA UpdateCoherent ==
  ASSUME IInv, NEW r \in Writers, Update(r)
  PROVE  CacheCoherent' /\ FillsCoherent'
<1>1. write[r] # None /\ write[r] \in WriteRequest /\ write[r].at = "commit"
      /\ write[r].id \in Ids /\ ActsOnTask(r) /\ UNCHANGED <<cache, tainted, read>>
  BY WriterType DEF IInv, Update, WriteAt, ActsOnTask, Requests, TasksNamed, NamesTask
<1>2. TypeOK /\ CacheCoherent /\ FillsCoherent
  BY DEF IInv
<1>3. \A k \in Keys : ~WillInvalidate(r, k)
  BY <1>1 DEF WillInvalidate, BeforeKeys
<1>4. \A u \in Users : ~BeforeKeys(r, u)
  BY <1>1 DEF BeforeKeys
<1>5. CASE UNCHANGED db
  <2>1. \A x \in Writers : x # r => write'[x] = write[x]
    BY <1>1, <1>2, EndsEffect, CommitsEffect DEF Update
  <2> QED
    BY <1>1, <1>2, <1>3, <1>4, <1>5, <2>1, QuietCoherent
<1>6. CASE /\ db[write[r].id] # None /\ Commits(r, "refresh", write[r].id)
           /\ db' = [db EXCEPT ![write[r].id] = Updated(r, @)]
  <2>1. /\ write'[r].at = "refresh" /\ write'[r].id = write[r].id
        /\ write'[r].user = write[r].user
        /\ \A x \in Writers : x # r => write'[x] = write[x]
    BY <1>1, <1>2, <1>6, CommitsEffect
  <2>2. write'[r] # None
    BY <1>1, <1>2, <1>6, CommitsStays
  <2>3. TypeOK'
    BY DatabaseTypes DEF IInv
  <2>4. db[write[r].id].owner = write[r].user
    BY <1>1, <1>6 DEF IInv, Requests, ActsOnOwn
  <2>5. /\ db'[write[r].id] = Updated(r, db[write[r].id])
        /\ \A i \in Ids : i # write[r].id => db'[i] = db[i]
    BY <1>1, <1>2, <1>6 DEF TypeOK, Result
  <2>6. db'[write[r].id].owner = write[r].user
    BY <2>4, <2>5 DEF Updated
  <2>7. db'[write[r].id] # None
    <3>1. Updated(r, db[write[r].id]) \in Row
      <4>1. db[write[r].id] \in Row
        BY <1>1, <1>2, <1>6 DEF TypeOK, Result
      <4>2. write[r].want \in Fields
        BY <1>1 DEF WriteRequest
      <4>3. "title" \in Changes(r) => write[r].want.title \in Titles
        BY <4>2 DEF Changes, Fields
      <4>4. "status" \in Changes(r) => write[r].want.status \in Statuses
        BY <4>2 DEF Changes, Fields
      <4> QED
        BY <4>1, <4>3, <4>4 DEF Updated, Row
    <3> QED
      BY <2>5, <3>1, NoneAssumption
  <2>8. \A i \in Ids : db[i] # None => db'[i] # None
    BY <2>5, <2>7
  <2>9. \A x \in Writers, u \in Users : BeforeKeys(x, u) => BeforeKeys(x, u)'
    <3> SUFFICES ASSUME NEW x \in Writers, NEW u \in Users, BeforeKeys(x, u)
                 PROVE  BeforeKeys(x, u)'
      OBVIOUS
    <3>1. x # r /\ write'[x] = write[x]
      BY <1>4, <2>1
    <3>2. write[x].at = "refresh" => write[x].id \in Ids
      BY WriterType DEF BeforeKeys, IInv, Requests, TasksNamed, NamesTask, WriteAt, WriteRequest
    <3> QED
      BY <2>8, <3>1, <3>2 DEF BeforeKeys
  <2>10. \A x \in Writers, k \in Keys : WillInvalidate(x, k) => WillInvalidate(x, k)'
    BY <1>3, <2>1, <2>9, ConstantTypes DEF WillInvalidate
  <2>11. BeforeKeys(r, write[r].user)'
    BY <2>1, <2>2, <2>7 DEF BeforeKeys
  <2>12. \A i \in Ids : \/ db'[i] = db[i]
                        \/ /\ db[i] # None => db[i].owner = write[r].user
                           /\ db'[i] # None => db'[i].owner = write[r].user
    BY <2>4, <2>5, <2>6
  <2> QED
    BY <1>1, <1>2, <2>1, <2>9, <2>10, <2>11, <2>12, CommitCovered DEF BeforeKeys
<1> QED
  BY <1>5, <1>6 DEF Update

LEMMA DeleteCoherent ==
  ASSUME IInv, NEW r \in Writers, Delete(r)
  PROVE  CacheCoherent' /\ FillsCoherent'
<1>1. write[r] # None /\ write[r].at = "commit"
      /\ write[r].id \in Ids /\ ActsOnTask(r) /\ UNCHANGED <<cache, tainted, read>>
  BY DEF IInv, Delete, WriteAt, ActsOnTask, Requests, TasksNamed, NamesTask
<1>2. TypeOK /\ CacheCoherent /\ FillsCoherent
  BY DEF IInv
<1>3. /\ write'[r].at = "keys" /\ write'[r].user = write[r].user
      /\ \A x \in Writers : x # r => write'[x] = write[x]
  BY <1>1, <1>2, CommitsEffect DEF Delete
<1>4. write'[r] # None
  BY <1>1, <1>2, CommitsStays DEF Delete
<1>5. /\ db[write[r].id] # None => db[write[r].id].owner = write[r].user
      /\ db'[write[r].id] = None
      /\ \A i \in Ids : i # write[r].id => db'[i] = db[i]
  BY <1>1, <1>2 DEF IInv, Requests, ActsOnOwn, Delete, TypeOK, Result
<1>6. BeforeKeys(r, write[r].user)'
  BY <1>3, <1>4 DEF BeforeKeys
<1>7. \A x \in Writers, u \in Users : BeforeKeys(x, u) => u = write[r].user \/ BeforeKeys(x, u)'
  <2> SUFFICES ASSUME NEW x \in Writers, NEW u \in Users, BeforeKeys(x, u), u # write[r].user
               PROVE  BeforeKeys(x, u)'
    OBVIOUS
  <2>1. x # r /\ write'[x] = write[x]
    BY <1>1, <1>3 DEF BeforeKeys
  <2>2. CASE write[x].at = "keys"
    BY <2>1, <2>2 DEF BeforeKeys
  <2>3. CASE write[x].at = "refresh" /\ db[write[x].id] # None
    <3>1. ActsOnTask(x) /\ write[x].id \in Ids
      BY <2>3, WriterType
      DEF BeforeKeys, IInv, Requests, TasksNamed, NamesTask, ActsOnTask, WriteAt, WriteRequest
    <3>2. db[write[x].id].owner = u
      BY <2>3, <3>1 DEF BeforeKeys, IInv, Requests, ActsOnOwn
    <3>3. write[x].id # write[r].id
      BY <1>5, <2>3, <3>2
    <3> QED
      BY <1>5, <2>1, <2>3, <3>1, <3>3 DEF BeforeKeys
  <2> QED
    BY <2>2, <2>3 DEF BeforeKeys
<1>8. \A x \in Writers, k \in Keys :
        WillInvalidate(x, k) => k[1] = write[r].user \/ WillInvalidate(x, k)'
  BY <1>1, <1>3, <1>7, ConstantTypes DEF WillInvalidate
<1>9. \A i \in Ids : \/ db'[i] = db[i]
                     \/ /\ db[i] # None => db[i].owner = write[r].user
                        /\ db'[i] # None => db'[i].owner = write[r].user
  BY <1>5
<1> QED
  BY <1>1, <1>2, <1>3, <1>6, <1>7, <1>8, <1>9, CommitCovered DEF BeforeKeys

(* The invalidation.  KEYS finds every stale entry of its user. *)
LEMMA FindCoherent ==
  ASSUME IInv, NEW r \in Writers, FindKeys(r)
  PROVE  CacheCoherent' /\ FillsCoherent'
<1>1. /\ write[r] # None /\ write[r] \in WriteRequest /\ write[r].at = "keys"
      /\ UNCHANGED <<db, cache, tainted>> /\ MarkRaced(write[r].user)
  BY WriterType DEF IInv, FindKeys
<1>2. TypeOK /\ CacheCoherent /\ FillsCoherent
  BY DEF IInv
<1> DEFINE found == {k \in KeysOf(write[r].user) : cache[k] # None}
<1>3. \A x \in Writers : x # r => write'[x] = write[x]
  BY <1>2 DEF TypeOK, FindKeys
<1>4. /\ write'[r].at = IF found = {} THEN "publish" ELSE "delete"
      /\ write'[r].keys = found
  BY <1>1, <1>2 DEF TypeOK, FindKeys, WriteRequest
<1>5. write'[r] # None
  <2>1. found \in SUBSET Keys
    BY DEF KeysOf
  <2>2. \A p \in {"publish", "delete"} : [write[r] EXCEPT !.at = p, !.keys = found] \in WriteRequest
    BY <1>1, <2>1 DEF WriteRequest
  <2>3. write'[r] = [write[r] EXCEPT !.at = IF found = {} THEN "publish" ELSE "delete",
                                     !.keys = found]
    BY <1>2 DEF TypeOK, FindKeys
  <2> QED
    BY <2>2, <2>3, NoneAssumption
<1>6. \A x \in Writers, v \in Users : BeforeKeys(x, v) => v = write[r].user \/ BeforeKeys(x, v)'
  BY <1>1, <1>3 DEF BeforeKeys
<1>7. ASSUME NEW x \in Writers, NEW k \in Keys, Stale(k), WillInvalidate(x, k)
      PROVE  \E y \in Writers : WillInvalidate(y, k)'
  <2>1. CASE x # r
    BY <1>1, <1>3, <1>7, <2>1 DEF WillInvalidate, BeforeKeys
  <2>2. CASE x = r
    <3>1. k \in found
      BY <1>1, <1>7, <2>2 DEF WillInvalidate, BeforeKeys, KeysOf, Stale
    <3> QED
      BY <1>4, <1>5, <3>1 DEF WillInvalidate
  <2> QED
    BY <2>1, <2>2
<1>8. CacheCoherent'
  BY <1>1, <1>2, <1>7, CacheFrame
<1>9. FillsCoherent'
  BY <1>1, <1>2, <1>6, FillsRaced
<1> QED
  BY <1>8, <1>9

(* A KEYS or DELETE that fails, or never comes, taints what it leaves. *)
LEMMA LossCoherent ==
  ASSUME IInv, NEW r \in Writers, FindKeysFails(r) \/ DeleteKeysFails(r) \/ WriterDies(r)
  PROVE  CacheCoherent' /\ FillsCoherent'
<1>1. write[r] # None /\ write[r] \in WriteRequest /\ UNCHANGED <<db, cache>>
  BY WriterType DEF IInv, FindKeysFails, DeleteKeysFails, WriterDies
<1>2. TypeOK /\ CacheCoherent /\ FillsCoherent
  BY DEF IInv
<1>3. \A x \in Writers : x # r => write'[x] = write[x]
  BY <1>2 DEF TypeOK, FindKeysFails, DeleteKeysFails, WriterDies, WriteGoes, WriteEnds
<1>4. \A x \in Writers, k \in Keys : x # r /\ WillInvalidate(x, k) => WillInvalidate(x, k)'
  BY <1>1, <1>3 DEF WillInvalidate, BeforeKeys
<1>5. CASE write[r].at \notin {"refresh", "keys", "delete"}
  <2>1. UNCHANGED <<tainted, read>>
    BY <1>5 DEF FindKeysFails, DeleteKeysFails, WriterDies
  <2> QED
    BY <1>1, <1>2, <1>3, <1>5, <2>1, QuietCoherent DEF WillInvalidate, BeforeKeys
<1>6. CASE DeleteKeysFails(r)
  <2>1. Taint(write[r].keys) /\ UNCHANGED read /\ write[r].at = "delete"
    BY <1>6 DEF DeleteKeysFails
  <2>2. \A k \in Keys : Stale(k) /\ WillInvalidate(r, k) => k \in tainted'
    BY <2>1 DEF WillInvalidate, BeforeKeys, Taint
  <2>3. CacheCoherent'
    BY <1>1, <1>2, <1>4, <2>1, <2>2, CacheFrame DEF Taint
  <2>4. \A x \in Writers, u \in Users : BeforeKeys(x, u) => BeforeKeys(x, u)'
    BY <1>1, <1>3, <2>1 DEF BeforeKeys
  <2> QED
    BY <1>1, <1>2, <2>1, <2>3, <2>4, FillsFrame
<1>7. CASE MarkRaced(write[r].user) /\ Taint(KeysOf(write[r].user))
  <2>1. \A k \in Keys : Stale(k) /\ WillInvalidate(r, k) => k \in tainted'
    BY <1>7 DEF IInv, Requests, KeysOwn, WillInvalidate, BeforeKeys, Taint, KeysOf
  <2>2. CacheCoherent'
    BY <1>1, <1>2, <1>4, <1>7, <2>1, CacheFrame DEF Taint
  <2>3. \A x \in Writers, v \in Users : BeforeKeys(x, v) => v = write[r].user \/ BeforeKeys(x, v)'
    BY <1>1, <1>3 DEF BeforeKeys
  <2>4. FillsCoherent'
    BY <1>1, <1>2, <1>7, <2>3, FillsRaced
  <2> QED
    BY <2>2, <2>4
<1> QED
  BY <1>5, <1>6, <1>7 DEF FindKeysFails, WriterDies

LEMMA EvictCoherent ==
  ASSUME IInv, NEW r \in Writers, DeleteKeys(r)
  PROVE  CacheCoherent' /\ FillsCoherent'
<1>1. write[r] # None /\ write[r].at = "delete" /\ UNCHANGED <<db, read>>
  BY DEF DeleteKeys
<1>2. TypeOK /\ CacheCoherent /\ FillsCoherent
  BY DEF IInv
<1>3. \A x \in Writers : x # r => write'[x] = write[x]
  BY <1>2 DEF TypeOK, DeleteKeys
<1>4. CacheCoherent'
  <2> SUFFICES ASSUME NEW k \in Keys, Stale(k)'
               PROVE  k \in tainted' \/ \E x \in Writers : WillInvalidate(x, k)'
    BY DEF CacheCoherent
  <2>1. k \notin write[r].keys /\ Stale(k)
    BY <1>1 DEF DeleteKeys, Stale, Query
  <2>2. CASE k \in tainted
    BY <2>1, <2>2 DEF DeleteKeys
  <2>3. CASE k \notin tainted
    <3>1. PICK x \in Writers : WillInvalidate(x, k)
      BY <1>2, <2>1, <2>3 DEF CacheCoherent
    <3>2. x # r
      BY <1>1, <2>1, <3>1 DEF WillInvalidate, BeforeKeys
    <3>3. WillInvalidate(x, k)'
      BY <1>1, <1>3, <3>1, <3>2 DEF WillInvalidate, BeforeKeys
    <3> QED
      BY <3>3
  <2> QED
    BY <2>2, <2>3
<1>5. \A x \in Writers, u \in Users : BeforeKeys(x, u) => BeforeKeys(x, u)'
  BY <1>1, <1>3 DEF BeforeKeys
<1>6. FillsCoherent'
  BY <1>1, <1>2, <1>5, FillsFrame
<1> QED
  BY <1>4, <1>6

(* The lists.  Only a result that a query has returned can be stale. *)
LEMMA FillsOneReader ==
  ASSUME FillsCoherent, UNCHANGED <<db, write>>, NEW q \in Readers,
         \A y \in Readers : y # q => read'[y] = read[y], ~StaleRead(q)'
  PROVE  FillsCoherent'
<1> SUFFICES ASSUME NEW y \in Readers, StaleRead(y)'
             PROVE  read'[y].raced \/ \E x \in Writers : BeforeKeys(x, read[y].user)'
  BY DEF FillsCoherent
<1>1. y # q /\ read'[y] = read[y]
  OBVIOUS
<1>2. StaleRead(y)
  BY <1>1 DEF StaleRead, ReadAt, Query
<1> QED
  BY <1>1, <1>2 DEF FillsCoherent, BeforeKeys

LEMMA CacheSame ==
  ASSUME CacheCoherent, UNCHANGED <<db, write, cache, tainted>>
  PROVE  CacheCoherent'
BY DEF CacheCoherent, Stale, Query, WillInvalidate, BeforeKeys

LEMMA ListCoherent ==
  ASSUME TypeOK, CacheCoherent, FillsCoherent, NEW q \in Readers,
         StartList(q) \/ GetCache(q) \/ Select(q) \/ ReaderDies(q)
  PROVE  CacheCoherent' /\ FillsCoherent'
<1>1. UNCHANGED <<db, write, cache, tainted>> /\ read \in [Readers -> ReadRequest \cup {None}]
  BY DEF TypeOK, StartList, GetCache, Select, ReaderDies
<1>2. \A y \in Readers : y # q => read'[y] = read[y]
  BY <1>1 DEF StartList, GetCache, Select, ReaderDies
<1>3. ~StaleRead(q)'
  <2>1. CASE StartList(q)
    <3>1. read'[q].at = "get"
      BY <1>1, <2>1 DEF StartList
    <3> QED
      BY <3>1 DEF StaleRead, ReadAt
  <2>2. CASE GetCache(q)
    <3>1. read'[q] = None \/ read'[q].at = "select"
      BY <1>1, <2>2 DEF GetCache, ReadAt, ReadRequest
    <3> QED
      BY <3>1 DEF StaleRead, ReadAt
  <2>3. CASE Select(q)
    <3>1. read[q] \in ReadRequest
      BY <1>1, <2>3 DEF Select, ReadAt
    <3>2. /\ read'[q].rows = Query(read[q].user, read[q].view)
          /\ read'[q].user = read[q].user /\ read'[q].view = read[q].view
      BY <1>1, <2>3, <3>1 DEF Select, ReadRequest
    <3> QED
      BY <1>1, <3>2 DEF StaleRead, Query
  <2>4. CASE ReaderDies(q)
    BY <1>1, <2>4 DEF ReaderDies, StaleRead, ReadAt
  <2> QED
    BY <2>1, <2>2, <2>3, <2>4
<1> QED
  BY <1>1, <1>2, <1>3, CacheSame, FillsOneReader

LEMMA SetCoherent ==
  ASSUME TypeOK, CacheCoherent, FillsCoherent, NEW q \in Readers, SetCache(q)
  PROVE  CacheCoherent' /\ FillsCoherent'
<1>1. /\ UNCHANGED <<db, write>> /\ read[q] # None /\ read[q].at = "set"
      /\ read[q] \in ReadRequest
      /\ read'[q] = None /\ \A y \in Readers : y # q => read'[y] = read[y]
  BY DEF TypeOK, SetCache, ReadAt
<1>2. FillsCoherent'
  BY <1>1, FillsOneReader DEF StaleRead, ReadAt
<1> DEFINE key == <<read[q].user, read[q].view>>
<1>3. key \in Keys /\ key[1] = read[q].user /\ key[2] = read[q].view
  BY <1>1, ConstantTypes DEF ReadRequest
<1>4. CASE UNCHANGED <<cache, tainted>>
  BY <1>1, <1>2, <1>4, CacheSame
<1>5. CASE /\ cache' = [cache EXCEPT ![key] = read[q].rows]
           /\ tainted' = IF read[q].raced THEN tainted \cup {key} ELSE tainted \ {key}
  <2> SUFFICES ASSUME NEW k \in Keys, Stale(k)'
               PROVE  k \in tainted' \/ \E x \in Writers : WillInvalidate(x, k)'
    BY <1>2 DEF CacheCoherent
  <2>1. \A x \in Writers : WillInvalidate(x, k) => WillInvalidate(x, k)'
    BY <1>1 DEF WillInvalidate, BeforeKeys
  <2>2. CASE k = key
    <3>1. cache'[key] = read[q].rows
      BY <1>3, <1>5 DEF TypeOK
    <3>2. read[q].rows # Query(key[1], key[2])
      BY <1>1, <2>2, <3>1 DEF Stale, Query
    <3>3. StaleRead(q)
      BY <1>1, <1>3, <3>2 DEF StaleRead, ReadAt
    <3>4. read[q].raced \/ \E x \in Writers : BeforeKeys(x, key[1])
      BY <1>3, <3>3 DEF FillsCoherent
    <3> QED
      BY <1>5, <2>1, <2>2, <3>4 DEF WillInvalidate
  <2>3. CASE k # key
    <3>1. cache'[k] = cache[k]
      BY <1>5, <2>3 DEF TypeOK
    <3>2. Stale(k)
      BY <1>1, <3>1 DEF Stale, Query
    <3> QED
      BY <1>5, <2>1, <2>3, <3>2 DEF CacheCoherent
  <2> QED
    BY <2>2, <2>3
<1> QED
  BY <1>2, <1>4, <1>5 DEF SetCache

LEMMA ExpireCoherent ==
  ASSUME TypeOK, CacheCoherent, FillsCoherent, NEW e \in Keys, Expire(e)
  PROVE  TypeOK' /\ CacheCoherent' /\ FillsCoherent'
<1>1. TypeOK'
  BY DEF TypeOK, Expire
<1>2. FillsCoherent'
  BY FillsFrame DEF Expire, BeforeKeys
<1>3. CacheCoherent'
  <2> SUFFICES ASSUME NEW k \in Keys, Stale(k)'
               PROVE  k \in tainted' \/ \E x \in Writers : WillInvalidate(x, k)'
    BY DEF CacheCoherent
  <2>1. k # e /\ Stale(k)
    BY DEF Expire, Stale, Query, TypeOK
  <2>2. k \in tainted' <=> k \in tainted
    BY <2>1 DEF Expire
  <2>3. \A x \in Writers : WillInvalidate(x, k) => WillInvalidate(x, k)'
    BY DEF Expire, WillInvalidate, BeforeKeys
  <2> QED
    BY <2>1, <2>2, <2>3 DEF CacheCoherent
<1> QED
  BY <1>1, <1>2, <1>3

-----------------------------------------------------------------------------
(* The initial state. *)
LEMMA InvInit == Init => IInv
<1> SUFFICES ASSUME Init PROVE IInv
  OBVIOUS
<1>1. TypeOK
  BY ConstantTypes, TaskAssumption DEF Init, TypeOK
<1>2. Requests
  BY DEF Init, Requests, PayloadsComplete, TasksNamed, NamesTask, ActsOnOwn, ActsOnTask,
         SequenceAhead, KeysOwn, WriteAt, NoRows
<1>3. CacheCoherent /\ FillsCoherent
  BY DEF Init, CacheCoherent, Stale, FillsCoherent, StaleRead, ReadAt
<1> QED
  BY <1>1, <1>2, <1>3 DEF IInv

LEMMA RequestsSame ==
  ASSUME Requests, UNCHANGED <<db, nextId, write>>
  PROVE  Requests'
BY DEF Requests, PayloadsComplete, TasksNamed, NamesTask, ActsOnOwn, ActsOnTask,
       SequenceAhead, KeysOwn, WriteAt, KeysOf

(* Every step keeps the inductive invariant. *)
LEMMA InvNext == IInv /\ [Next]_vars => IInv'
<1> SUFFICES ASSUME IInv, [Next]_vars PROVE IInv'
  OBVIOUS
<1>0. TypeOK /\ Requests /\ CacheCoherent /\ FillsCoherent
  BY DEF IInv
<1>1. ASSUME NEW r \in Writers, WriterStarts(r) PROVE IInv'
  BY <1>0, <1>1, ArrivalTypes, ArrivalRequests, ArrivalCoherent DEF IInv
<1>2. ASSUME NEW r \in Writers, CheckTitle(r) \/ CheckOwner(r) PROVE IInv'
  BY <1>0, <1>2, DatabaseTypes, CheckRequests, CheckCoherent DEF IInv
<1>3. ASSUME NEW r \in Writers, Insert(r) PROVE IInv'
  BY <1>0, <1>3, DatabaseTypes, InsertRequests, InsertCoherent DEF IInv
<1>4. ASSUME NEW r \in Writers, Update(r) PROVE IInv'
  BY <1>0, <1>4, DatabaseTypes, UpdateRequests, UpdateCoherent DEF IInv
<1>5. ASSUME NEW r \in Writers, Delete(r) PROVE IInv'
  BY <1>0, <1>5, DatabaseTypes, DeleteRequests, DeleteCoherent DEF IInv
<1>6. ASSUME NEW r \in Writers, Refresh(r) PROVE IInv'
  BY <1>0, <1>6, DatabaseTypes, CheckRequests, RefreshCoherent DEF IInv
<1>7. ASSUME NEW r \in Writers, FindKeys(r) PROVE IInv'
  BY <1>0, <1>7, InvalidationTypes, InvalidationRequests, FindCoherent DEF IInv
<1>8. ASSUME NEW r \in Writers, DeleteKeys(r) PROVE IInv'
  BY <1>0, <1>8, InvalidationTypes, InvalidationRequests, EvictCoherent DEF IInv
<1>9. ASSUME NEW r \in Writers, FindKeysFails(r) \/ DeleteKeysFails(r) \/ WriterDies(r)
      PROVE  IInv'
  BY <1>0, <1>9, InvalidationTypes, InvalidationRequests, LossCoherent DEF IInv
<1>10. ASSUME NEW r \in Writers, Publish(r) PROVE IInv'
  BY <1>0, <1>10, InvalidationTypes, InvalidationRequests, CheckCoherent DEF IInv
<1>11. ASSUME NEW q \in Readers, StartList(q) \/ ReaderStep(q) \/ ReaderDies(q)
       PROVE  IInv'
  <2>1. Requests'
    BY <1>0, <1>11, RequestsSame
    DEF StartList, ReaderStep, GetCache, Select, SetCache, ReaderDies
  <2>2. CacheCoherent' /\ FillsCoherent'
    BY <1>0, <1>11, ListCoherent, SetCoherent DEF ReaderStep
  <2> QED
    BY <1>0, <1>11, <2>1, <2>2, ListTypes DEF IInv
<1>12. ASSUME NEW e \in Keys, Expire(e) PROVE IInv'
  BY <1>0, <1>12, ExpireCoherent, RequestsSame DEF IInv, Expire
<1>13. CASE UNCHANGED vars
  <2>1. UNCHANGED <<db, nextId, cache, tainted, write, read>>
    BY <1>13 DEF vars
  <2>2. TypeOK'
    BY <1>0, <2>1 DEF TypeOK
  <2>3. FillsCoherent'
    BY <1>0, <2>1, FillsFrame DEF BeforeKeys
  <2> QED
    BY <1>0, <2>1, <2>2, <2>3, RequestsSame, CacheSame DEF IInv
<1> QED
  BY <1>1, <1>2, <1>3, <1>4, <1>5, <1>6, <1>7, <1>8, <1>9, <1>10, <1>11, <1>12, <1>13
  DEF Next, WriterStep

LEMMA Invariance == Spec => []IInv
BY InvInit, InvNext, PTL DEF Spec

(* Every variable keeps its type. *)
THEOREM TypeCorrect == Spec => []TypeOK
<1>1. IInv => TypeOK
  BY DEF IInv
<1> QED
  BY <1>1, Invariance, PTL

(* A list answered from the cache is up to date, up to writes that still   *)
(* have to invalidate and to the entries a loss or a race left behind.     *)
THEOREM CacheCorrect == Spec => []CacheCoherent
<1>1. IInv => CacheCoherent
  BY DEF IInv
<1> QED
  BY <1>1, Invariance, PTL

(* The same for results that queries have returned and not cached yet. *)
THEOREM FillsCorrect == Spec => []FillsCoherent
<1>1. IInv => FillsCoherent
  BY DEF IInv
<1> QED
  BY <1>1, Invariance, PTL

-----------------------------------------------------------------------------
(* What the steps do to a row. *)
LEMMA RowSteps ==
  ASSUME IInv, [Next]_vars, NEW i \in Ids, db'[i] # db[i]
  PROVE  \/ i = nextId /\ db[i] = None
         \/ /\ db[i] # None
            /\ db'[i] # None => db'[i].owner = db[i].owner
            /\ \E r \in Writers : /\ WriteAt(r, {"update", "delete"}, "commit")
                                 /\ write[r].user = db[i].owner /\ write[r].id = i
                                 /\ write'[r] # write[r]
<1>0. TypeOK /\ Requests
  BY DEF IInv
<1>1. CASE \E r \in Writers : Insert(r)
  <2>1. PICK r \in Writers : Insert(r)
    BY <1>1
  <2>2. i = nextId
    BY <1>0, <2>1 DEF Insert, TypeOK, Result
  <2> QED
    BY <1>0, <2>2 DEF Requests, SequenceAhead, TypeOK, Ids
<1>2. CASE \E r \in Writers : Update(r)
  <2>1. PICK r \in Writers : Update(r)
    BY <1>2
  <2>2. /\ write[r] # None /\ WriteAt(r, {"update", "delete"}, "commit") /\ ActsOnTask(r)
        /\ write[r].at = "commit"
    BY <2>1 DEF Update, WriteAt, ActsOnTask
  <2>3. /\ i = write[r].id /\ db[i] # None /\ Commits(r, "refresh", write[r].id)
        /\ db'[i] = Updated(r, db[i])
    BY <1>0, <2>1 DEF Update, TypeOK, Result
  <2>4. db[i].owner = write[r].user
    BY <1>0, <2>2, <2>3 DEF Requests, ActsOnOwn
  <2>5. write'[r] # write[r]
    BY <1>0, <2>2, <2>3, CommitsEffect
  <2> QED
    BY <2>2, <2>3, <2>4, <2>5 DEF Updated
<1>3. CASE \E r \in Writers : Delete(r)
  <2>1. PICK r \in Writers : Delete(r)
    BY <1>3
  <2>2. /\ write[r] # None /\ WriteAt(r, {"update", "delete"}, "commit") /\ ActsOnTask(r)
        /\ write[r].at = "commit"
    BY <2>1 DEF Delete, WriteAt, ActsOnTask
  <2>3. i = write[r].id /\ db'[i] = None
    BY <1>0, <2>1 DEF Delete, TypeOK, Result
  <2>4. db[i].owner = write[r].user
    BY <1>0, <2>2, <2>3 DEF Requests, ActsOnOwn
  <2>5. write'[r] # write[r]
    BY <1>0, <2>1, <2>2, CommitsEffect DEF Delete
  <2> QED
    BY <2>2, <2>3, <2>4, <2>5
<1>4. CASE UNCHANGED db
  BY <1>4
<1> QED
  BY <1>1, <1>2, <1>3, <1>4
  DEF Next, vars, WriterStarts, StartCreate, StartUpdate, StartDelete, StartWrite, WriterStep,
      CheckTitle, CheckOwner, Refresh, FindKeys, FindKeysFails, DeleteKeys, DeleteKeysFails,
      Publish, WriterDies, StartList, ReaderStep, GetCache, Select, SetCache, ReaderDies, Expire

(* A row changes or disappears only through a request of its owner. *)
THEOREM OwnersOnly == Spec => OnlyOwnerChanges
<1>1. IInv /\ [Next]_vars =>
        [\A i \in Ids : db[i] # None /\ db'[i] # db[i] =>
           /\ \E r \in Writers : /\ WriteAt(r, {"update", "delete"}, "commit")
                                 /\ write[r].user = db[i].owner /\ write[r].id = i
                                 /\ write'[r] # write[r]
           /\ db'[i] # None => db'[i].owner = db[i].owner]_vars
  BY RowSteps
<1> QED
  BY <1>1, Invariance, PTL DEF Spec, OnlyOwnerChanges

(* A deleted task stays deleted. *)
THEOREM NoResurrection == Spec => DeletedStaysDeleted
<1>1. IInv /\ [Next]_vars =>
        [\A i \in Ids : i < nextId /\ db[i] = None => db'[i] = None]_vars
  <2> SUFFICES ASSUME IInv, [Next]_vars, NEW i \in Ids, i < nextId, db[i] = None
               PROVE  db'[i] = None
    OBVIOUS
  <2>1. i # nextId
    BY DEF IInv, TypeOK, Ids
  <2> QED
    BY <2>1, RowSteps
<1> QED
  BY <1>1, Invariance, PTL DEF Spec, DeletedStaysDeleted

-----------------------------------------------------------------------------
(* What CacheCoherent comes to for a user who waits for each response.     *)
AnnouncedOnly(u) ==
  \A r \in Writers :
    write[r] # None /\ write[r].user = u => write[r].at \in {"check", "commit", "publish"}

(* With no request of theirs between its commit and the end of its         *)
(* invalidation, users find in the cache what is in the table.             *)
ReadYourWrites ==
  \A u \in Users, v \in Views :
    AnnouncedOnly(u) /\ <<u, v>> \notin tainted =>
      cache[<<u, v>>] \in {None, Query(u, v)}

(* Users who wait for their responses read their own writes, from every    *)
(* list, whatever the requests of others do meanwhile; only an entry that  *)
(* a lost or overtaken invalidation left behind may be out of date.        *)
THEOREM ReadOwnWrites == Spec => []ReadYourWrites
<1>1. ASSUME IInv, NEW u \in Users, NEW v \in Views, AnnouncedOnly(u), <<u, v>> \notin tainted
      PROVE  cache[<<u, v>>] \in {None, Query(u, v)}
  <2> DEFINE k == <<u, v>>
  <2>1. k \in Keys /\ k[1] = u /\ k[2] = v
    BY ConstantTypes
  <2>2. ASSUME NEW r \in Writers PROVE ~WillInvalidate(r, k)
    <3>1. ~BeforeKeys(r, u)
      BY <1>1 DEF BeforeKeys, AnnouncedOnly
    <3>2. ASSUME write[r] # None, write[r].at = "delete", k \in write[r].keys
          PROVE  FALSE
      <4>1. k \in KeysOf(write[r].user)
        BY <1>1, <3>2 DEF IInv, Requests, KeysOwn
      <4>2. write[r].user = u
        BY <2>1, <4>1 DEF KeysOf
      <4> QED
        BY <1>1, <3>2, <4>2 DEF AnnouncedOnly
    <3> QED
      BY <2>1, <3>1, <3>2 DEF WillInvalidate
  <2>3. ~Stale(k)
    BY <1>1, <2>1, <2>2 DEF IInv, CacheCoherent
  <2> QED
    BY <2>1, <2>3 DEF Stale
<1>2. IInv => ReadYourWrites
  BY <1>1 DEF ReadYourWrites
<1> QED
  BY <1>2, Invariance, PTL

(* Entry k is accurate and no out-of-date result is on its way into it. *)
Accurate(k) ==
  /\ ~Stale(k)
  /\ \A q \in Readers : StaleRead(q) => <<read[q].user, read[q].view>> # k

FreshStaysFresh == [][\A k \in Keys : UNCHANGED db /\ Accurate(k) => Accurate(k)']_vars

LEMMA ReadersKeepAccurate ==
  ASSUME TypeOK, NEW k \in Keys, Accurate(k), NEW q \in Readers,
         StartList(q) \/ ReaderStep(q) \/ ReaderDies(q)
  PROVE  Accurate(k)'
<1>1. UNCHANGED db /\ read \in [Readers -> ReadRequest \cup {None}]
  BY DEF TypeOK, StartList, ReaderStep, GetCache, Select, SetCache, ReaderDies
<1>2. \A y \in Readers : y # q => read'[y] = read[y]
  BY <1>1 DEF StartList, ReaderStep, GetCache, Select, SetCache, ReaderDies
<1>3. ~StaleRead(q)'
  <2>1. CASE StartList(q)
    <3>1. read'[q].at = "get"
      BY <1>1, <2>1 DEF StartList
    <3> QED
      BY <3>1 DEF StaleRead, ReadAt
  <2>2. CASE GetCache(q)
    <3>1. read'[q] = None \/ read'[q].at = "select"
      BY <1>1, <2>2 DEF GetCache, ReadAt, ReadRequest
    <3> QED
      BY <3>1 DEF StaleRead, ReadAt
  <2>3. CASE Select(q)
    <3>1. read[q] \in ReadRequest
      BY <1>1, <2>3 DEF Select, ReadAt
    <3>2. /\ read'[q].rows = Query(read[q].user, read[q].view)
          /\ read'[q].user = read[q].user /\ read'[q].view = read[q].view
      BY <1>1, <2>3, <3>1 DEF Select, ReadRequest
    <3> QED
      BY <1>1, <3>2 DEF StaleRead, Query
  <2>4. CASE SetCache(q) \/ ReaderDies(q)
    BY <1>1, <2>4 DEF SetCache, ReaderDies, StaleRead, ReadAt
  <2> QED
    BY <2>1, <2>2, <2>3, <2>4 DEF ReaderStep
<1>4. \A y \in Readers : StaleRead(y)' => <<read'[y].user, read'[y].view>> # k
  BY <1>1, <1>2, <1>3 DEF Accurate, StaleRead, ReadAt, Query
<1>5. ~Stale(k)'
  <2>1. CASE cache' = cache
    BY <1>1, <2>1 DEF Accurate, Stale, Query
  <2>2. CASE SetCache(q) /\ cache' # cache
    <3> DEFINE key == <<read[q].user, read[q].view>>
    <3>1. read[q] \in ReadRequest /\ ReadAt(q, "set") /\ key \in Keys
      BY <1>1, <2>2, ConstantTypes DEF SetCache, ReadAt, ReadRequest
    <3>2. cache' = [cache EXCEPT ![key] = read[q].rows]
      BY <2>2 DEF SetCache
    <3>3. CASE k = key
      <4>1. read[q].rows = Query(k[1], k[2])
        BY <3>1, <3>3 DEF Accurate, StaleRead
      <4>2. cache'[k] = read[q].rows
        BY <3>1, <3>2, <3>3 DEF TypeOK
      <4> QED
        BY <1>1, <4>1, <4>2 DEF Stale, Query
    <3>4. CASE k # key
      <4>1. cache'[k] = cache[k]
        BY <3>2, <3>4 DEF TypeOK
      <4> QED
        BY <1>1, <4>1 DEF Accurate, Stale, Query
    <3> QED
      BY <3>3, <3>4
  <2>3. SetCache(q) \/ cache' = cache
    BY DEF StartList, ReaderStep, GetCache, Select, SetCache, ReaderDies
  <2> QED
    BY <2>1, <2>2, <2>3
<1> QED
  BY <1>4, <1>5 DEF Accurate

(* The rows being what they are, an accurate entry of the cache stays      *)
(* accurate, whatever the requests do: once each entry has expired or been *)
(* replaced, the cache is right until the next write.                      *)
THEOREM FreshForGood == Spec => FreshStaysFresh
<1>1. ASSUME IInv, [Next]_vars, NEW k \in Keys, UNCHANGED db, Accurate(k)
      PROVE  Accurate(k)'
  <2>1. CASE \E q \in Readers : StartList(q) \/ ReaderStep(q) \/ ReaderDies(q)
    BY <1>1, <2>1, ReadersKeepAccurate DEF IInv
  <2>2. ASSUME \A y \in Readers : StaleRead(y)' =>
                 StaleRead(y) /\ read'[y].user = read[y].user /\ read'[y].view = read[y].view,
               cache'[k] \in {cache[k], None}
        PROVE  Accurate(k)'
    BY <1>1, <2>2 DEF Accurate, Stale, Query
  <2>3. ASSUME UNCHANGED read PROVE \A y \in Readers : StaleRead(y)' =>
                 StaleRead(y) /\ read'[y].user = read[y].user /\ read'[y].view = read[y].view
    BY <1>1, <2>3 DEF StaleRead, ReadAt, Query
  <2>4. ASSUME NEW u, MarkRaced(u) PROVE \A y \in Readers : StaleRead(y)' =>
                 StaleRead(y) /\ read'[y].user = read[y].user /\ read'[y].view = read[y].view
    <3> SUFFICES ASSUME NEW y \in Readers, StaleRead(y)'
                 PROVE  StaleRead(y) /\ read'[y].user = read[y].user /\ read'[y].view = read[y].view
      OBVIOUS
    <3>1. CASE StaleRead(y) /\ read[y].user = u
      <4>1. read[y] \in ReadRequest
        BY <1>1, <3>1 DEF IInv, TypeOK, StaleRead, ReadAt
      <4> QED
        BY <2>4, <3>1, <4>1 DEF MarkRaced, ReadRequest
    <3>2. CASE ~(StaleRead(y) /\ read[y].user = u)
      <4>1. read'[y] = read[y]
        BY <2>4, <3>2 DEF MarkRaced
      <4> QED
        BY <1>1, <4>1 DEF StaleRead, ReadAt, Query
    <3> QED
      BY <3>1, <3>2
  <2>5. ASSUME NEW r \in Writers, WriterStarts(r) \/ WriterStep(r) \/ WriterDies(r)
        PROVE  Accurate(k)'
    <3>1. UNCHANGED read \/ \E u \in Users : MarkRaced(u)
      <4>1. write[r] = None \/ write[r] \in WriteRequest
        BY <1>1 DEF IInv, TypeOK
      <4> QED
        BY <2>5, <4>1 DEF WriterStarts, StartCreate, StartUpdate, StartDelete, StartWrite, WriterStep,
          CheckTitle, Insert, CheckOwner, Update, Delete, Refresh, FindKeys, FindKeysFails,
          DeleteKeys, DeleteKeysFails, Publish, WriterDies, WriteRequest
    <3>2. cache'[k] \in {cache[k], None}
      BY <2>5 DEF WriterStarts, StartCreate, StartUpdate, StartDelete, StartWrite, WriterStep,
        CheckTitle, Insert, CheckOwner, Update, Delete, Refresh, FindKeys, FindKeysFails,
        DeleteKeys, DeleteKeysFails, Publish, WriterDies
    <3> QED
      BY <2>2, <2>3, <2>4, <3>1, <3>2
  <2>6. CASE \E e \in Keys : Expire(e)
    <3>1. UNCHANGED read /\ cache'[k] \in {cache[k], None}
      BY <1>1, <2>6 DEF Expire, IInv, TypeOK
    <3> QED
      BY <2>2, <2>3, <3>1
  <2>7. CASE UNCHANGED vars
    BY <2>2, <2>3, <2>7 DEF vars
  <2> QED
    BY <1>1, <2>1, <2>5, <2>6, <2>7 DEF Next
<1>2. IInv /\ [Next]_vars => [\A k \in Keys : UNCHANGED db /\ Accurate(k) => Accurate(k)']_vars
  BY <1>1
<1> QED
  BY <1>2, Invariance, PTL DEF Spec, FreshStaysFresh

-----------------------------------------------------------------------------
(* TaskService implements TaskStore.  The ownership query of an update is  *)
(* the step that meets columns, commits are the steps with an effect, and  *)
(* all that follows a commit is invisible to the table.                    *)

InPending(r) == write[r] # None /\ write[r].at \in {"check", "commit"}

LEMMA StillAskedType ==
  ASSUME TypeOK, NEW r \in Writers, write[r] # None
  PROVE  StillAsked(r) \in StoreRequest
<1>1. write[r] \in WriteRequest
  BY DEF TypeOK
<1>2. write[r].want \in Fields
  BY <1>1 DEF WriteRequest
<1>3. [title |-> IF "title" \in Changes(r) THEN write[r].want.title ELSE None,
       status |-> IF "status" \in Changes(r) THEN write[r].want.status ELSE None] \in Fields
  BY <1>2 DEF Fields
<1> QED
  BY <1>1, <1>2, <1>3 DEF StillAsked, StoreRequest, WriteRequest

(* A request in progress up to its commit is pending, and no other is. *)
LEMMA PendingHas ==
  ASSUME TypeOK, NEW r \in Writers
  PROVE  /\ InPending(r) => Pending[r] = StillAsked(r) /\ Pending[r] # None
         /\ ~InPending(r) => Pending[r] = None
BY StillAskedType, NoneAssumption DEF Pending, InPending

(* A step of one request changes what is pending of that request only. *)
LEMMA PendingStep ==
  ASSUME NEW r \in Writers, \A x \in Writers : x # r => write'[x] = write[x]
  PROVE  Pending' = [Pending EXCEPT ![r] = Pending'[r]]
<1>1. ASSUME NEW x \in Writers, x # r
      PROVE  Pending'[x] = Pending[x]
  BY <1>1 DEF Pending, StillAsked, Changes, WriteAt
<1>2. DOMAIN Pending = Writers /\ DOMAIN Pending' = Writers
  BY DEF Pending
<1>3. Pending = [x \in Writers |-> Pending[x]] /\ Pending' = [x \in Writers |-> Pending'[x]]
  BY DEF Pending
<1> QED
  BY <1>1, <1>2, <1>3

LEMMA PendingSame ==
  ASSUME UNCHANGED write
  PROVE  Pending' = Pending
BY DEF Pending, StillAsked, Changes, WriteAt

(* A request that is over or past its commit is not pending. *)
LEMMA SettledEffect ==
  ASSUME NEW r \in Writers, \A x \in Writers : x # r => write'[x] = write[x],
         write'[r] = None \/ write'[r].at \notin {"check", "commit"}
  PROVE  Store!Settled(r)
<1>1. Pending'[r] = None
  BY DEF Pending
<1> QED
  BY <1>1, PendingStep DEF Store!Settled

(* Ending without an effect on the rows is a refusal or nothing at all. *)
LEMMA EndRefines ==
  ASSUME TypeOK, NEW r \in Writers, UNCHANGED <<db, nextId>>,
         \A x \in Writers : x # r => write'[x] = write[x],
         write'[r] = None \/ write'[r].at \notin {"check", "commit"}
  PROVE  Store!Refuse(r) \/ UNCHANGED <<db, nextId, Pending>>
<1>1. CASE InPending(r)
  BY <1>1, SettledEffect, PendingHas DEF Store!Refuse
<1>2. CASE ~InPending(r)
  <2>1. Pending[r] = None /\ Pending'[r] = None
    BY <1>2, PendingHas DEF Pending
  <2>2. Pending' = [Pending EXCEPT ![r] = Pending[r]]
    BY <2>1, PendingStep
  <2>3. [Pending EXCEPT ![r] = Pending[r]] = Pending
    BY DEF Pending
  <2> QED
    BY <2>2, <2>3
<1> QED
  BY <1>1, <1>2

-----------------------------------------------------------------------------
LEMMA ArrivalRefines ==
  ASSUME TypeOK, NEW r \in Writers, WriterStarts(r)
  PROVE  Store!Ask(r)
<1>1. ASSUME NEW op \in {"create", "update", "delete"}, NEW u \in Users, NEW i \in Ids \cup {0},
             NEW fields \in Fields, StartWrite(r, op, u, i, fields)
      PROVE  Store!Ask(r)
  <2>1. write'[r] = [at |-> "check", op |-> op, user |-> u, id |-> i, want |-> fields,
                     loaded |-> None, keys |-> {}]
    BY <1>1 DEF StartWrite, TypeOK
  <2>2. \A x \in Writers : x # r => write'[x] = write[x]
    BY <1>1 DEF StartWrite, TypeOK
  <2>3. write'[r] # None
    <3>1. write'[r] \in WriteRequest
      BY <2>1 DEF WriteRequest
    <3> QED
      BY <3>1, NoneAssumption
  <2>4. Pending'[r] = [op |-> op, user |-> u, id |-> i, want |-> fields]
    BY <2>1, <2>3 DEF Pending, StillAsked, WriteAt
  <2>5. Pending[r] = None
    BY <1>1 DEF StartWrite, Pending
  <2>6. fields \in Store!Wanted /\ i \in Store!Ids \cup {0}
    BY DEF Store!Wanted, Fields, Store!Ids, Ids
  <2> QED
    BY <1>1, <2>2, <2>4, <2>5, <2>6, PendingStep DEF Store!Ask, StartWrite
<1>2. [title : Titles, status : Statuses] \subseteq Fields
  BY DEF Fields
<1>3. CASE StartCreate(r)
  BY <1>1, <1>2, <1>3 DEF StartCreate
<1>4. CASE StartUpdate(r)
  BY <1>1, <1>4 DEF StartUpdate
<1>5. CASE StartDelete(r)
  BY <1>1, <1>5, ConstantTypes DEF StartDelete
<1> QED
  BY <1>3, <1>4, <1>5 DEF WriterStarts

(* The title check leaves a create as it was asked. *)
LEMMA CheckTitleRefines ==
  ASSUME TypeOK, NEW r \in Writers, CheckTitle(r)
  PROVE  Store!Refuse(r) \/ UNCHANGED <<db, nextId, Pending>>
<1>1. write[r] # None /\ write[r].op = "create" /\ write[r].at = "check" /\ UNCHANGED <<db, nextId>>
  BY DEF CheckTitle, WriteAt
<1>2. CASE WriteEnds(r)
  BY <1>1, <1>2, EndsEffect, EndRefines
<1>3. CASE WriteGoes(r, "commit")
  <2>1. /\ write'[r].at = "commit" /\ write'[r].op = "create"
        /\ write'[r].user = write[r].user /\ write'[r].id = write[r].id
        /\ write'[r].want = write[r].want
        /\ \A x \in Writers : x # r => write'[x] = write[x]
    BY <1>1, <1>3, GoesEffect
  <2>2. write'[r] # None
    <3>1. write[r] \in WriteRequest /\ write'[r] = [write[r] EXCEPT !.at = "commit"]
      BY <1>1, <1>3 DEF WriteGoes, TypeOK
    <3>2. write'[r] \in WriteRequest
      BY <3>1 DEF WriteRequest
    <3> QED
      BY <3>2, NoneAssumption
  <2>3. Pending'[r] = Pending[r]
    BY <1>1, <2>1, <2>2 DEF Pending, StillAsked, WriteAt
  <2>4. [Pending EXCEPT ![r] = Pending[r]] = Pending
    BY DEF Pending
  <2> QED
    BY <1>1, <2>1, <2>3, <2>4, PendingStep
<1> QED
  BY <1>2, <1>3 DEF CheckTitle

LEMMA InsertRefines ==
  ASSUME TypeOK, NEW r \in Writers, Insert(r)
  PROVE  Store!Create(r)
<1>1. write[r] # None /\ write[r].op = "create" /\ write[r].at = "commit"
  BY DEF Insert, WriteAt
<1>2. Pending[r] = StillAsked(r) /\ Pending[r] # None
  BY <1>1, PendingHas DEF InPending
<1>3. /\ Pending[r].op = "create" /\ Pending[r].user = write[r].user
      /\ Pending[r].want = write[r].want
  BY <1>1, <1>2 DEF StillAsked, WriteAt
<1>4. Store!Settled(r)
  BY <1>1, CommitsEffect, SettledEffect DEF Insert
<1> QED
  BY <1>2, <1>3, <1>4 DEF Store!Create, Store!Asks, Insert

-----------------------------------------------------------------------------
(* The ownership query: what the loaded row already has is met. *)
LEMMA CheckOwnerRefines ==
  ASSUME TypeOK, Requests, NEW r \in Writers, CheckOwner(r)
  PROVE  Store!Meet(r) \/ Store!Refuse(r) \/ UNCHANGED <<db, nextId, Pending>>
<1>1. /\ write[r] # None /\ write[r].op \in {"update", "delete"} /\ write[r].at = "check"
      /\ UNCHANGED <<db, nextId>>
  BY DEF CheckOwner, WriteAt
<1>2. write[r] \in WriteRequest
  BY <1>1 DEF TypeOK
<1>3. CASE ~Owned(write[r].user, write[r].id)
  BY <1>1, <1>3, EndsEffect, EndRefines DEF CheckOwner
<1>4. CASE Owned(write[r].user, write[r].id)
  <2> DEFINE row == db[write[r].id]
             want == write[r].want
  <2>1. write' = [write EXCEPT ![r].at = "commit", ![r].loaded = row]
    BY <1>4 DEF CheckOwner
  <2>2. write'[r] = [write[r] EXCEPT !.at = "commit", !.loaded = row]
    BY <2>1 DEF TypeOK
  <2>3. /\ write'[r].at = "commit" /\ write'[r].loaded = row /\ write'[r].op = write[r].op
        /\ write'[r].user = write[r].user /\ write'[r].id = write[r].id
        /\ write'[r].want = want
    BY <1>2, <2>2 DEF WriteRequest
  <2>4. write'[r] # None
    <3>1. write[r].id \in Ids
      BY <1>1 DEF Requests, TasksNamed, NamesTask, WriteAt
    <3>2. row \in Row
      BY <1>4, <3>1 DEF TypeOK, Result, Owned
    <3>3. write'[r] \in WriteRequest
      BY <1>2, <2>2, <3>2 DEF WriteRequest
    <3> QED
      BY <3>3, NoneAssumption
  <2>5. \A x \in Writers : x # r => write'[x] = write[x]
    BY <2>1 DEF TypeOK
  <2>6. Pending[r] = [op |-> write[r].op, user |-> write[r].user, id |-> write[r].id,
                      want |-> want] /\ Pending[r] # None
    <3>1. Pending[r] = StillAsked(r) /\ Pending[r] # None
      BY <1>1, PendingHas DEF InPending
    <3> QED
      BY <1>1, <3>1 DEF StillAsked, WriteAt
  <2>7. CASE write[r].op = "delete"
    <3>1. Pending'[r] = Pending[r]
      BY <2>3, <2>4, <2>6, <2>7 DEF Pending, StillAsked, WriteAt
    <3>2. [Pending EXCEPT ![r] = Pending[r]] = Pending
      BY DEF Pending
    <3> QED
      BY <1>1, <2>5, <3>1, <3>2, PendingStep
  <2>8. CASE write[r].op = "update"
    <3> DEFINE left == [title |-> IF want.title = row.title THEN None ELSE want.title,
                        status |-> IF want.status = row.status THEN None ELSE want.status]
    <3>1. /\ ("title" \in Changes(r))' <=> want.title \notin {None, row.title}
          /\ ("status" \in Changes(r))' <=> want.status \notin {None, row.status}
      BY <2>3 DEF Changes
    <3>2. StillAsked(r)' = [op |-> "update", user |-> write[r].user, id |-> write[r].id,
                            want |-> left]
      BY <2>3, <2>4, <2>8, <3>1 DEF StillAsked, WriteAt
    <3>3. Pending'[r] = [Pending[r] EXCEPT !.want = left]
      BY <2>3, <2>4, <2>6, <2>8, <3>2 DEF Pending
    <3>4. Pending' = [Pending EXCEPT ![r].want = left]
      BY <2>5, <3>3, PendingStep DEF Pending
    <3>5. Store!Asks(r, "update") /\ Store!Mine(r)
      BY <1>4, <2>6, <2>8 DEF Store!Asks, Store!Mine, Owned
    <3>6. db[Pending[r].id] = row /\ Pending[r].want = want
      BY <2>6
    <3> QED
      BY <1>1, <3>4, <3>5, <3>6 DEF Store!Meet
  <2> QED
    BY <1>1, <2>7, <2>8
<1> QED
  BY <1>3, <1>4

(* The commit of an update writes what is left, or finds no row. *)
LEMMA UpdateRefines ==
  ASSUME TypeOK, Requests, NEW r \in Writers, Update(r)
  PROVE  Store!Change(r) \/ Store!Refuse(r) \/ UNCHANGED <<db, nextId, Pending>>
<1>1. write[r] # None /\ write[r].op = "update" /\ write[r].at = "commit" /\ nextId' = nextId
  BY DEF Update, WriteAt
<1> DEFINE id == write[r].id
           left == [title |-> IF "title" \in Changes(r) THEN write[r].want.title ELSE None,
                    status |-> IF "status" \in Changes(r) THEN write[r].want.status ELSE None]
<1>2. Pending[r] = [op |-> "update", user |-> write[r].user, id |-> id, want |-> left]
      /\ Pending[r] # None
  <2>1. Pending[r] = StillAsked(r) /\ Pending[r] # None
    BY <1>1, PendingHas DEF InPending
  <2> QED
    BY <1>1, <2>1 DEF StillAsked, WriteAt
<1>3. Store!Asks(r, "update") /\ Pending[r].want = left /\ Pending[r].id = id
  BY <1>2 DEF Store!Asks
<1>4. ASSUME Commits(r, "refresh", id) PROVE Store!Settled(r)
  BY <1>1, <1>4, CommitsEffect, SettledEffect
<1>5. CASE Changes(r) = {} /\ UNCHANGED db /\ Commits(r, "refresh", id)
  <2>1. left = Store!Nothing
    BY <1>5 DEF Store!Nothing
  <2> QED
    BY <1>1, <1>3, <1>4, <1>5, <2>1 DEF Store!Change
<1>6. CASE /\ db[id] # None /\ db' = [db EXCEPT ![id] = Updated(r, @)]
           /\ Commits(r, "refresh", id)
  <2>1. Store!Mine(r)
    <3>1. db[id].owner = write[r].user
      BY <1>1, <1>6 DEF Requests, ActsOnOwn, ActsOnTask, WriteAt
    <3> QED
      BY <1>2, <1>6, <3>1 DEF Store!Mine
  <2>2. Updated(r, db[id]) =
          [owner |-> db[id].owner,
           title |-> IF left.title = None THEN db[id].title ELSE left.title,
           status |-> IF left.status = None THEN db[id].status ELSE left.status]
    <3>1. /\ left.title = None <=> "title" \notin Changes(r)
          /\ left.status = None <=> "status" \notin Changes(r)
      BY DEF Changes
    <3> QED
      BY <3>1 DEF Updated
  <2> QED
    BY <1>1, <1>3, <1>4, <1>6, <2>1, <2>2 DEF Store!Change
<1>7. CASE UNCHANGED db /\ WriteEnds(r)
  BY <1>1, <1>7, EndsEffect, EndRefines
<1> QED
  BY <1>5, <1>6, <1>7 DEF Update

LEMMA DeleteRefines ==
  ASSUME TypeOK, Requests, NEW r \in Writers, Delete(r)
  PROVE  Store!Remove(r)
<1>1. write[r] # None /\ write[r].op = "delete" /\ write[r].at = "commit"
  BY DEF Delete, WriteAt
<1>2. Pending[r] # None /\ Pending[r].op = "delete" /\ Pending[r].id = write[r].id
      /\ Pending[r].user = write[r].user
  <2>1. Pending[r] = StillAsked(r) /\ Pending[r] # None
    BY <1>1, PendingHas DEF InPending
  <2> QED
    BY <1>1, <2>1 DEF StillAsked
<1>3. Store!Mine(r) \/ db[Pending[r].id] = None
  BY <1>1, <1>2 DEF Requests, ActsOnOwn, ActsOnTask, WriteAt, Store!Mine
<1>4. Store!Settled(r)
  BY <1>1, CommitsEffect, SettledEffect DEF Delete
<1> QED
  BY <1>2, <1>3, <1>4 DEF Store!Remove, Store!Asks, Delete

-----------------------------------------------------------------------------
(* After the commit nothing of a request concerns the table any more. *)
LEMMA LaterRefines ==
  ASSUME TypeOK, NEW r \in Writers,
         Refresh(r) \/ FindKeys(r) \/ FindKeysFails(r) \/ DeleteKeys(r) \/ DeleteKeysFails(r)
           \/ Publish(r) \/ WriterDies(r)
  PROVE  Store!Refuse(r) \/ UNCHANGED <<db, nextId, Pending>>
<1>1. write[r] # None /\ write[r] \in WriteRequest /\ UNCHANGED <<db, nextId>>
  BY WriterType DEF Refresh, WriteAt, FindKeys, FindKeysFails, DeleteKeys, DeleteKeysFails,
                    Publish, WriterDies
<1>2. /\ \A x \in Writers : x # r => write'[x] = write[x]
      /\ write'[r] = None \/ write'[r].at \notin {"check", "commit"}
  <2>1. CASE WriteEnds(r)
    BY <2>1, EndsEffect
  <2>2. CASE Commits(r, "keys", 0)
    BY <1>1, <2>2, CommitsEffect
  <2>3. CASE WriteGoes(r, "publish")
    BY <1>1, <2>3, GoesEffect
  <2>4. ASSUME NEW p \in {"delete", "publish"}, NEW ks,
               write' = [write EXCEPT ![r].at = p, ![r].keys = ks]
        PROVE  /\ \A x \in Writers : x # r => write'[x] = write[x]
               /\ write'[r].at \notin {"check", "commit"}
    BY <1>1, <2>4 DEF TypeOK, WriteRequest
  <2>5. CASE FindKeys(r)
    BY <2>4, <2>5 DEF FindKeys
  <2>6. CASE DeleteKeys(r) \/ DeleteKeysFails(r)
    BY <2>4, <2>6 DEF DeleteKeys, DeleteKeysFails
  <2> QED
    BY <2>1, <2>2, <2>3, <2>5, <2>6 DEF Refresh, FindKeysFails, Publish, WriterDies
<1> QED
  BY <1>1, <1>2, EndRefines

LEMMA StoreInit == Init => Store!Init
<1> SUFFICES ASSUME Init PROVE Store!Init
  OBVIOUS
<1>1. Pending = [r \in Writers |-> None]
  BY DEF Init, Pending
<1> QED
  BY <1>1 DEF Init, Store!Init, NoRows, Ids, Store!Ids

LEMMA StoreNext == IInv /\ [Next]_vars => [Store!Next]_<<db, nextId, Pending>>
<1> SUFFICES ASSUME IInv, [Next]_vars
             PROVE  Store!Next \/ UNCHANGED <<db, nextId, Pending>>
  OBVIOUS
<1>0. TypeOK /\ Requests
  BY DEF IInv
<1>1. ASSUME NEW r \in Writers, WriterStarts(r)
      PROVE  Store!Next
  BY <1>0, <1>1, ArrivalRefines DEF Store!Next
<1>2. ASSUME NEW r \in Writers, WriterStep(r) \/ WriterDies(r)
      PROVE  Store!Next \/ UNCHANGED <<db, nextId, Pending>>
  <2>1. CASE CheckTitle(r)
    BY <1>0, <2>1, CheckTitleRefines DEF Store!Next
  <2>2. CASE Insert(r)
    BY <1>0, <2>2, InsertRefines DEF Store!Next
  <2>3. CASE CheckOwner(r)
    BY <1>0, <2>3, CheckOwnerRefines DEF Store!Next
  <2>4. CASE Update(r)
    BY <1>0, <2>4, UpdateRefines DEF Store!Next
  <2>5. CASE Delete(r)
    BY <1>0, <2>5, DeleteRefines DEF Store!Next
  <2>6. CASE Refresh(r) \/ FindKeys(r) \/ FindKeysFails(r) \/ DeleteKeys(r)
               \/ DeleteKeysFails(r) \/ Publish(r) \/ WriterDies(r)
    BY <1>0, <2>6, LaterRefines DEF Store!Next
  <2> QED
    BY <1>2, <2>1, <2>2, <2>3, <2>4, <2>5, <2>6 DEF WriterStep
<1>3. ASSUME UNCHANGED <<db, nextId, write>>
      PROVE  UNCHANGED <<db, nextId, Pending>>
  BY <1>3, PendingSame
<1>4. CASE \E q \in Readers : StartList(q) \/ ReaderStep(q) \/ ReaderDies(q)
  BY <1>3, <1>4 DEF StartList, ReaderStep, GetCache, Select, SetCache, ReaderDies
<1>5. CASE \E k \in Keys : Expire(k)
  BY <1>3, <1>5 DEF Expire
<1>6. CASE UNCHANGED vars
  BY <1>3, <1>6 DEF vars
<1> QED
  BY <1>1, <1>2, <1>4, <1>5, <1>6 DEF Next

(* To the table, interleaved requests that may die anywhere are atomic: no *)
(* update is lost or half done and no column is skipped that the ownership *)
(* query did not see with the wanted value.                                *)
THEOREM Refinement == Spec => ImplementsStore
<1> QED
  BY StoreInit, StoreNext, Invariance, PTL
     DEF Spec, ImplementsStore, Store!Spec, Store!storeVars
=============================================================================
