---------------------------- MODULE TaskService ----------------------------
(***************************************************************************)
(* Task requests (app/services/task_service.py over                        *)
(* app/repositories/task_repository.py): rows in PostgreSQL and, in Redis, *)
(* cached list results per user and filter.  A request runs from one await *)
(* on the database or on Redis to the next; a query reads the latest       *)
(* commit (READ COMMITTED).  A Redis command may fail, with or without     *)
(* having taken effect, and a request may die at any await (a database     *)
(* error, the end of the process).                                         *)
(*                                                                         *)
(* A row keeps its owner, its title and one filterable column; a view      *)
(* stands for the filters of a list request, and its result is the set of  *)
(* rows they select (the order of the rows and the page are left out).     *)
(***************************************************************************)
EXTENDS Naturals, FiniteSets

CONSTANTS
  Users, Titles, Statuses,
  Filters,  \* texts that list requests filter by, statuses or not
  Writers,  \* create, update and delete requests in progress at a time
  Readers,  \* list requests in progress at a time
  MaxId,    \* bound: tasks ever created
  All,      \* the view without a filter
  None      \* absent row, field or cache entry

ASSUME TaskAssumption ==
  /\ MaxId \in Nat
  /\ All \notin Statuses \cup Filters
  /\ None \notin Titles \cup Statuses

Ids == 1 .. MaxId
Views == Filters \cup {All}
Keys == Users \X Views

Row == [owner : Users, title : Titles, status : Statuses]
Result == [Ids -> Row \cup {None}]
Fields == [title : Titles \cup {None}, status : Statuses \cup {None}]

VARIABLES
  db,       \* the tasks table
  nextId,   \* its id sequence
  cache,    \* cached list results
  tainted,  \* history: entries that escaped an invalidation
  write,    \* create, update and delete requests
  read      \* list requests

vars == <<db, nextId, cache, tainted, write, read>>

WriteRequest ==
  [at : {"check", "commit", "refresh", "keys", "delete", "publish"},
   op : {"create", "update", "delete"},
   user : Users,
   id : Ids \cup {0},         \* the task it is about, if known and still used
   want : Fields,             \* the fields of the payload, until the commit
   loaded : Row \cup {None},  \* the row loaded by the check, until the commit
   keys : SUBSET Keys]        \* what KEYS returned

ReadRequest ==
  [at : {"get", "select", "set"},
   user : Users,
   view : Views,
   rows : Result,             \* what the query returned
   raced : BOOLEAN]           \* history: rows missed an invalidation

(* What an abstract store knows of a request. *)
StoreRequest ==
  [op : {"create", "update", "delete"}, user : Users, id : Ids \cup {0}, want : Fields]

ASSUME NoneAssumption ==
  /\ None \notin Row /\ None \notin StoreRequest
  /\ None \notin WriteRequest /\ None \notin ReadRequest

NoRows == [i \in Ids |-> None]
NoFields == [title |-> None, status |-> None]

TypeOK ==
  /\ db \in Result
  /\ nextId \in 1 .. MaxId + 1
  /\ cache \in [Keys -> Result \cup {None}]
  /\ tainted \in SUBSET Keys
  /\ write \in [Writers -> WriteRequest \cup {None}]
  /\ read \in [Readers -> ReadRequest \cup {None}]

Init ==
  /\ db = NoRows
  /\ nextId = 1
  /\ cache = [k \in Keys |-> None]
  /\ tainted = {}
  /\ write = [r \in Writers |-> None]
  /\ read = [q \in Readers |-> None]

-----------------------------------------------------------------------------
(* get_all_tasks: the owner's rows that pass the filter. *)
Query(u, v) ==
  [i \in Ids |->
     IF db[i] # None /\ db[i].owner = u /\ v \in {All, db[i].status} THEN db[i] ELSE None]

(* get_task_by_title_and_owner and get_task_by_id_and_owner. *)
WithTitle(u, t) == {i \in Ids : db[i] # None /\ db[i].owner = u /\ db[i].title = t}
Owned(u, i) == db[i] # None /\ db[i].owner = u

WriteAt(r, ops, place) == write[r] # None /\ write[r].op \in ops /\ write[r].at = place
ReadAt(q, place) == read[q] # None /\ read[q].at = place

WriteGoes(r, place) == write' = [write EXCEPT ![r].at = place]
WriteEnds(r) == write' = [write EXCEPT ![r] = None]

(* After the commit only the row's id matters, after the refresh not even it. *)
Commits(r, place, id) ==
  write' = [write EXCEPT ![r].at = place, ![r].id = id, ![r].want = NoFields, ![r].loaded = None]

Stale(k) == cache[k] # None /\ cache[k] # Query(k[1], k[2])
StaleRead(q) == ReadAt(q, "set") /\ read[q].rows # Query(read[q].user, read[q].view)

(* An invalidation of user u's entries comes too late for what is being    *)
(* read, or is lost for what is cached too.                                *)
MarkRaced(u) ==
  read' = [q \in Readers |-> IF StaleRead(q) /\ read[q].user = u
                             THEN [read[q] EXCEPT !.raced = TRUE] ELSE read[q]]

Taint(keys) == tainted' = tainted \cup {k \in keys : Stale(k)}

KeysOf(u) == {k \in Keys : k[1] = u}

-----------------------------------------------------------------------------
(* A request arrives, with a payload its schema lets through. *)
StartWrite(r, op, u, i, fields) ==
  /\ write[r] = None
  /\ write' = [write EXCEPT ![r] =
       [at |-> "check", op |-> op, user |-> u, id |-> i, want |-> fields,
        loaded |-> None, keys |-> {}]]
  /\ UNCHANGED <<db, nextId, cache, tainted, read>>

StartCreate(r) ==
  \E u \in Users, fields \in [title : Titles, status : Statuses] :
    StartWrite(r, "create", u, 0, fields)

StartUpdate(r) ==
  \E u \in Users, i \in Ids, fields \in Fields : StartWrite(r, "update", u, i, fields)

StartDelete(r) ==
  \E u \in Users, i \in Ids : StartWrite(r, "delete", u, i, NoFields)

(* Create: one row with the title ends it with 400, several with an        *)
(* exception of scalar_one_or_none.                                        *)
CheckTitle(r) ==
  /\ WriteAt(r, {"create"}, "check")
  /\ IF WithTitle(write[r].user, write[r].want.title) = {}
     THEN WriteGoes(r, "commit") ELSE WriteEnds(r)
  /\ UNCHANGED <<db, nextId, cache, tainted, read>>

(* Faulty: the id is taken from the sequence after it moved on. *)
InsertWrongId(r) ==
  /\ WriteAt(r, {"create"}, "commit")
  /\ nextId <= MaxId
  /\ db' = [db EXCEPT ![nextId] = [owner |-> write[r].user, title |-> write[r].want.title,
                                   status |-> write[r].want.status]]
  /\ nextId' = nextId + 1
  /\ Commits(r, "refresh", nextId + 1)
  /\ UNCHANGED <<cache, tainted, read>>

Insert(r) ==
  /\ WriteAt(r, {"create"}, "commit")
  /\ nextId <= MaxId
  /\ db' = [db EXCEPT ![nextId] = [owner |-> write[r].user, title |-> write[r].want.title,
                                   status |-> write[r].want.status]]
  /\ nextId' = nextId + 1
  /\ Commits(r, "refresh", nextId)
  /\ UNCHANGED <<cache, tainted, read>>

(* Faulty: the row is looked up by id only. *)
CheckExists(r) ==
  /\ WriteAt(r, {"update", "delete"}, "check")
  /\ IF db[write[r].id] # None
     THEN write' = [write EXCEPT ![r].at = "commit", ![r].loaded = db[write[r].id]]
     ELSE WriteEnds(r)
  /\ UNCHANGED <<db, nextId, cache, tainted, read>>

(* Update and delete: the ownership query, 403 when it finds nothing. *)
CheckOwner(r) ==
  /\ WriteAt(r, {"update", "delete"}, "check")
  /\ IF Owned(write[r].user, write[r].id)
     THEN write' = [write EXCEPT ![r].at = "commit", ![r].loaded = db[write[r].id]]
     ELSE WriteEnds(r)
  /\ UNCHANGED <<db, nextId, cache, tainted, read>>

(* db.get returns the row loaded by the check, so the UPDATE names only    *)
(* columns that differ from it, and none is sent when there are none.  An  *)
(* UPDATE that matches no row raises (StaleDataError).                     *)
Changes(r) == {f \in {"title", "status"} : write[r].want[f] \notin {None, write[r].loaded[f]}}

(* Faulty: the other columns are written back as they were loaded. *)
UpdatedFromLoaded(r, row) ==
  [owner |-> row.owner,
   title |-> IF "title" \in Changes(r) THEN write[r].want.title ELSE write[r].loaded.title,
   status |-> IF "status" \in Changes(r) THEN write[r].want.status ELSE write[r].loaded.status]

Updated(r, row) ==
  [owner |-> row.owner,
   title |-> IF "title" \in Changes(r) THEN write[r].want.title ELSE row.title,
   status |-> IF "status" \in Changes(r) THEN write[r].want.status ELSE row.status]

(* Faulty: an upsert of the loaded row instead of an UPDATE. *)
UpdateUpserts(r) ==
  /\ WriteAt(r, {"update"}, "commit")
  /\ db' = [db EXCEPT ![write[r].id] = Updated(r, write[r].loaded)]
  /\ Commits(r, "refresh", write[r].id)
  /\ UNCHANGED <<nextId, cache, tainted, read>>

Update(r) ==
  /\ WriteAt(r, {"update"}, "commit")
  /\ \/ /\ Changes(r) = {}
        /\ UNCHANGED db
        /\ Commits(r, "refresh", write[r].id)
     \/ /\ Changes(r) # {} /\ db[write[r].id] # None
        /\ db' = [db EXCEPT ![write[r].id] = Updated(r, @)]
        /\ Commits(r, "refresh", write[r].id)
     \/ /\ Changes(r) # {} /\ db[write[r].id] = None
        /\ UNCHANGED db
        /\ WriteEnds(r)
  /\ UNCHANGED <<nextId, cache, tainted, read>>

(* Faulty: no invalidation after a delete. *)
DeleteKeepsCache(r) ==
  /\ WriteAt(r, {"delete"}, "commit")
  /\ db' = [db EXCEPT ![write[r].id] = None]
  /\ Commits(r, "publish", 0)
  /\ UNCHANGED <<nextId, cache, tainted, read>>

(* Deleting a row that is gone only logs a warning. *)
Delete(r) ==
  /\ WriteAt(r, {"delete"}, "commit")
  /\ db' = [db EXCEPT ![write[r].id] = None]
  /\ Commits(r, "keys", 0)
  /\ UNCHANGED <<nextId, cache, tainted, read>>

(* db.refresh raises when the row is gone: no invalidation, no event. *)
Refresh(r) ==
  /\ WriteAt(r, {"create", "update"}, "refresh")
  /\ IF db[write[r].id] = None THEN WriteEnds(r) ELSE Commits(r, "keys", 0)
  /\ UNCHANGED <<db, nextId, cache, tainted, read>>

-----------------------------------------------------------------------------
(* invalidate_user_tasks_list_cache: KEYS, then DELETE of what it found. *)
(* Faulty: the pattern matches the unfiltered lists only. *)
FindUnfilteredKeys(r) ==
  /\ write[r] # None /\ write[r].at = "keys"
  /\ LET found == {k \in KeysOf(write[r].user) : cache[k] # None /\ k[2] = All}
     IN write' = [write EXCEPT ![r].at = IF found = {} THEN "publish" ELSE "delete",
                               ![r].keys = found]
  /\ MarkRaced(write[r].user)
  /\ UNCHANGED <<db, nextId, cache, tainted>>

FindKeys(r) ==
  /\ write[r] # None /\ write[r].at = "keys"
  /\ LET found == {k \in KeysOf(write[r].user) : cache[k] # None}
     IN write' = [write EXCEPT ![r].at = IF found = {} THEN "publish" ELSE "delete",
                               ![r].keys = found]
  /\ MarkRaced(write[r].user)
  /\ UNCHANGED <<db, nextId, cache, tainted>>

FindKeysFails(r) ==
  /\ write[r] # None /\ write[r].at = "keys"
  /\ WriteGoes(r, "publish")
  /\ MarkRaced(write[r].user)
  /\ Taint(KeysOf(write[r].user))
  /\ UNCHANGED <<db, nextId, cache>>

DeleteKeys(r) ==
  /\ write[r] # None /\ write[r].at = "delete"
  /\ cache' = [k \in Keys |-> IF k \in write[r].keys THEN None ELSE cache[k]]
  /\ tainted' = tainted \ write[r].keys
  /\ write' = [write EXCEPT ![r].at = "publish", ![r].keys = {}]
  /\ UNCHANGED <<db, nextId, read>>

DeleteKeysFails(r) ==
  /\ write[r] # None /\ write[r].at = "delete"
  /\ Taint(write[r].keys)
  /\ write' = [write EXCEPT ![r].at = "publish", ![r].keys = {}]
  /\ UNCHANGED <<db, nextId, cache, read>>

(* publish_task_update, delivered or not, and the response. *)
Publish(r) ==
  /\ write[r] # None /\ write[r].at = "publish"
  /\ WriteEnds(r)
  /\ UNCHANGED <<db, nextId, cache, tainted, read>>

(* A request dies.  After its commit the invalidation is lost. *)
WriterDies(r) ==
  /\ write[r] # None
  /\ WriteEnds(r)
  /\ IF write[r].at \in {"refresh", "keys", "delete"}
     THEN MarkRaced(write[r].user) /\ Taint(KeysOf(write[r].user))
     ELSE UNCHANGED <<tainted, read>>
  /\ UNCHANGED <<db, nextId, cache>>

-----------------------------------------------------------------------------
(* List: a hit is the answer; a miss or a Redis error goes to the database *)
(* and tries to cache what it found.                                       *)
StartList(q) ==
  /\ read[q] = None
  /\ \E u \in Users, v \in Views :
       read' = [read EXCEPT ![q] =
         [at |-> "get", user |-> u, view |-> v, rows |-> NoRows, raced |-> FALSE]]
  /\ UNCHANGED <<db, nextId, cache, tainted, write>>

GetCache(q) ==
  /\ ReadAt(q, "get")
  /\ \/ cache[<<read[q].user, read[q].view>>] # None /\ read' = [read EXCEPT ![q] = None]
     \/ read' = [read EXCEPT ![q].at = "select"]
  /\ UNCHANGED <<db, nextId, cache, tainted, write>>

Select(q) ==
  /\ ReadAt(q, "select")
  /\ read' = [read EXCEPT ![q].at = "set", ![q].rows = Query(read[q].user, read[q].view)]
  /\ UNCHANGED <<db, nextId, cache, tainted, write>>

SetCache(q) ==
  /\ ReadAt(q, "set")
  /\ LET k == <<read[q].user, read[q].view>>
     IN \/ /\ cache' = [cache EXCEPT ![k] = read[q].rows]
           /\ tainted' = IF read[q].raced THEN tainted \cup {k} ELSE tainted \ {k}
        \/ UNCHANGED <<cache, tainted>>
  /\ read' = [read EXCEPT ![q] = None]
  /\ UNCHANGED <<db, nextId, write>>

ReaderDies(q) ==
  /\ read[q] # None
  /\ read' = [read EXCEPT ![q] = None]
  /\ UNCHANGED <<db, nextId, cache, tainted, write>>

(* Faulty: the entries are set without a time to live. *)
NeverExpire(k) == cache[k] # None /\ UNCHANGED vars

(* The time to live of an entry is over (300 s). *)
Expire(k) ==
  /\ cache[k] # None
  /\ cache' = [cache EXCEPT ![k] = None]
  /\ tainted' = tainted \ {k}
  /\ UNCHANGED <<db, nextId, write, read>>

-----------------------------------------------------------------------------
WriterStarts(r) == StartCreate(r) \/ StartUpdate(r) \/ StartDelete(r)

WriterStep(r) ==
  \/ CheckTitle(r) \/ Insert(r) \/ CheckOwner(r) \/ Update(r) \/ Delete(r) \/ Refresh(r)
  \/ FindKeys(r) \/ FindKeysFails(r) \/ DeleteKeys(r) \/ DeleteKeysFails(r) \/ Publish(r)

ReaderStep(q) == GetCache(q) \/ Select(q) \/ SetCache(q)

Next ==
  \/ \E r \in Writers : WriterStarts(r) \/ WriterStep(r) \/ WriterDies(r)
  \/ \E q \in Readers : StartList(q) \/ ReaderStep(q) \/ ReaderDies(q)
  \/ \E k \in Keys : Expire(k)

Spec == Init /\ [][Next]_vars

(* Entries expire.  Nothing makes requests arrive or go on, or Redis        *)
(* commands succeed.                                                       *)
Fairness == \A k \in Keys : WF_vars(Expire(k))

FairSpec == Spec /\ Fairness

-----------------------------------------------------------------------------
(* Writer r has committed and its KEYS is still to come.  A create or      *)
(* update whose row is gone at the refresh never gets there.               *)
BeforeKeys(r, u) ==
  /\ write[r] # None /\ write[r].user = u
  /\ \/ write[r].at = "keys"
     \/ write[r].at = "refresh" /\ db[write[r].id] # None

WillInvalidate(r, k) ==
  \/ BeforeKeys(r, k[1])
  \/ write[r] # None /\ write[r].at = "delete" /\ k \in write[r].keys

(* A list answered from the cache is up to date, up to writes whose own    *)
(* response is still to come: in particular users read what they wrote     *)
(* once they were told so.  The exceptions are the entries that a lost     *)
(* invalidation or a query racing one left behind, and only those.         *)
CacheCoherent ==
  \A k \in Keys :
    Stale(k) => k \in tainted \/ \E r \in Writers : WillInvalidate(r, k)

(* The same for results on their way into the cache: an out-of-date one    *)
(* that no KEYS still to come will find is known to have raced.            *)
FillsCoherent ==
  \A q \in Readers :
    StaleRead(q) => read[q].raced \/ \E r \in Writers : BeforeKeys(r, read[q].user)

(* A row changes or disappears only through a request of its owner, though *)
(* the UPDATE and DELETE name it by id only, after the ownership query.    *)
OnlyOwnerChanges ==
  [][\A i \in Ids : db[i] # None /\ db'[i] # db[i] =>
       /\ \E r \in Writers : /\ WriteAt(r, {"update", "delete"}, "commit")
                             /\ write[r].user = db[i].owner /\ write[r].id = i
                             /\ write'[r] # write[r]
       /\ db'[i] # None => db'[i].owner = db[i].owner]_vars

(* A deleted task stays deleted, whatever updates of it were in progress. *)
DeletedStaysDeleted ==
  [][\A i \in Ids : i < nextId /\ db[i] = None => db'[i] = None]_vars

(* Once the rows stop changing the whole cache becomes and stays accurate, *)
(* however many invalidations were lost or overtaken before.               *)
EventuallyFresh ==
  []<><<db' # db>>_vars \/ <>[](\A k \in Keys : ~Stale(k))

(* The request still to have an effect: after the ownership query only the *)
(* columns that differed from the loaded row are left to write.            *)
StillAsked(r) ==
  [op |-> write[r].op, user |-> write[r].user, id |-> write[r].id,
   want |-> IF WriteAt(r, {"update"}, "commit")
            THEN [title |-> IF "title" \in Changes(r) THEN write[r].want.title ELSE None,
                  status |-> IF "status" \in Changes(r) THEN write[r].want.status ELSE None]
            ELSE write[r].want]

Pending ==
  [r \in Writers |->
     IF write[r] # None /\ write[r].at \in {"check", "commit"} THEN StillAsked(r) ELSE None]

Store == INSTANCE TaskStore WITH table <- db, next <- nextId, asked <- Pending

(* To the table, requests whose queries, commits and deaths interleave are *)
(* atomic: no update is lost or half done, none happens twice, and a       *)
(* column asked for is skipped only if the ownership query saw it there.   *)
ImplementsStore == Store!Spec

(* "A task with this title already exists" (task_service.py:126): two      *)
(* tasks of a user never have the same title.  The code does not ensure it.*)
TitlesUnique ==
  \A u \in Users, t \in Titles : Cardinality(WithTitle(u, t)) <= 1
=============================================================================
