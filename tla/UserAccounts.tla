---------------------------- MODULE UserAccounts ----------------------------
(***************************************************************************)
(* Accounts and authentication: registration (app/services/auth_service.py *)
(* and the /auth/register route), login, and the current user of every     *)
(* authenticated request with its snapshot cached in Redis                 *)
(* (app/services/user_service.py, app/api/deps.py).  The code has no       *)
(* operation that deletes a user; an operator may delete the row in the    *)
(* database.  Redis may fail any command and a request may die at an await.*)
(***************************************************************************)
EXTENDS Naturals

CONSTANTS
  Emails,
  Requests,  \* requests in progress at a time
  MaxId,     \* bound: ids ever taken from the sequence
  None

ASSUME AccountAssumption == MaxId \in Nat /\ None \notin Emails

Ids == 1 .. MaxId

VARIABLES
  users,     \* the users table: email by id
  nextId,    \* its id sequence
  snapshots, \* cached snapshots (user:auth:<id>)
  welcomes,  \* history: welcome emails enqueued, as <<id, email>>
  accounts,  \* history: accounts ever committed, as <<id, email>>
  request    \* requests in progress

vars == <<users, nextId, snapshots, welcomes, accounts, request>>

Request ==
  [at : {"check", "commit", "refresh", "get", "select", "lookup", "set", "admitted"},
   email : Emails \cup {None},
   id : Ids \cup {0},
   existed : BOOLEAN]  \* history: the user existed when the request arrived

TypeOK ==
  /\ users \in [Ids -> Emails \cup {None}]
  /\ nextId \in 1 .. MaxId + 1
  /\ snapshots \in [Ids -> Emails \cup {None}]
  /\ welcomes \in SUBSET (Ids \X Emails)
  /\ accounts \in SUBSET (Ids \X Emails)
  /\ request \in [Requests -> Request \cup {None}]

Init ==
  /\ users = [i \in Ids |-> None]
  /\ nextId = 1
  /\ snapshots = [i \in Ids |-> None]
  /\ welcomes = {}
  /\ accounts = {}
  /\ request = [r \in Requests |-> None]

At(r, place) == request[r] # None /\ request[r].at = place
Goes(r, place) == request' = [request EXCEPT ![r].at = place]
Ends(r) == request' = [request EXCEPT ![r] = None]

ByEmail(e) == {i \in Ids : users[i] = e}

Arrives(r, place, e, i, existed) ==
  /\ request[r] = None
  /\ request' = [request EXCEPT ![r] =
       [at |-> place, email |-> e, id |-> i, existed |-> existed]]
  /\ UNCHANGED <<users, nextId, snapshots, welcomes, accounts>>

-----------------------------------------------------------------------------
(* Registration: the email is looked up, then inserted; the unique index   *)
(* turns a second insert into a rollback, which still consumes an id.      *)
Register(r) == \E e \in Emails : Arrives(r, "check", e, 0, FALSE)

CheckEmail(r) ==
  /\ At(r, "check")
  /\ IF ByEmail(request[r].email) = {} THEN Goes(r, "commit") ELSE Ends(r)
  /\ UNCHANGED <<users, nextId, snapshots, welcomes, accounts>>

(* Faulty: no unique index behind the check. *)
CommitAnyway(r) ==
  /\ At(r, "commit") /\ nextId <= MaxId
  /\ nextId' = nextId + 1
  /\ users' = [users EXCEPT ![nextId] = request[r].email]
  /\ accounts' = accounts \cup {<<nextId, request[r].email>>}
  /\ request' = [request EXCEPT ![r].at = "refresh", ![r].id = nextId]
  /\ UNCHANGED <<snapshots, welcomes>>

(* Faulty: the email is enqueued before the outcome of the commit is known. *)
CommitWelcomesFirst(r) ==
  /\ At(r, "commit") /\ nextId <= MaxId
  /\ nextId' = nextId + 1
  /\ welcomes' = welcomes \cup {<<nextId, request[r].email>>}
  /\ IF ByEmail(request[r].email) = {}
     THEN /\ users' = [users EXCEPT ![nextId] = request[r].email]
          /\ accounts' = accounts \cup {<<nextId, request[r].email>>}
          /\ request' = [request EXCEPT ![r].at = "refresh", ![r].id = nextId]
     ELSE UNCHANGED <<users, accounts>> /\ Ends(r)
  /\ UNCHANGED snapshots

(* Faulty: the route continues with the id that comes after the row's. *)
CommitWrongId(r) ==
  /\ At(r, "commit") /\ nextId <= MaxId
  /\ nextId' = nextId + 1
  /\ \/ /\ ByEmail(request[r].email) = {}
        /\ users' = [users EXCEPT ![nextId] = request[r].email]
        /\ accounts' = accounts \cup {<<nextId, request[r].email>>}
        /\ request' = [request EXCEPT ![r].at = "refresh", ![r].id = nextId + 1]
     \/ /\ ByEmail(request[r].email) # {}
        /\ UNCHANGED <<users, accounts>>
        /\ Ends(r)
  /\ UNCHANGED <<snapshots, welcomes>>

(* One statement of the database: both outcomes consume an id.             *)
Commit(r) ==
  /\ At(r, "commit") /\ nextId <= MaxId
  /\ nextId' = nextId + 1
  /\ \/ /\ ByEmail(request[r].email) = {}
        /\ users' = [users EXCEPT ![nextId] = request[r].email]
        /\ accounts' = accounts \cup {<<nextId, request[r].email>>}
        /\ request' = [request EXCEPT ![r].at = "refresh", ![r].id = nextId]
     \/ /\ ByEmail(request[r].email) # {}
        /\ UNCHANGED <<users, accounts>>
        /\ Ends(r)
  /\ UNCHANGED <<snapshots, welcomes>>

(* refresh raises when the row is gone.  Otherwise the route enqueues the  *)
(* welcome email without an await; a broker error is logged only.          *)
Refresh(r) ==
  /\ At(r, "refresh")
  /\ \/ /\ users[request[r].id] # None
        /\ welcomes' = welcomes \cup {<<request[r].id, request[r].email>>}
     \/ UNCHANGED welcomes
  /\ Ends(r)
  /\ UNCHANGED <<users, nextId, snapshots, accounts>>

-----------------------------------------------------------------------------
(* Login with the right password: the row found by email is cached. *)
Login(r) == \E e \in Emails : Arrives(r, "lookup", e, 0, FALSE)

(* Faulty: the query lost its WHERE, so any row may come back. *)
LookupUnfiltered(r) ==
  /\ At(r, "lookup")
  /\ \/ /\ \A i \in Ids : users[i] = None
        /\ Ends(r)
     \/ \E i \in {j \in Ids : users[j] # None} :
          request' = [request EXCEPT ![r].at = "set", ![r].id = i, ![r].existed = TRUE]
  /\ UNCHANGED <<users, nextId, snapshots, welcomes, accounts>>

Lookup(r) ==
  /\ At(r, "lookup")
  /\ \/ /\ ByEmail(request[r].email) = {}
        /\ Ends(r)
     \/ \E i \in ByEmail(request[r].email) :
          request' = [request EXCEPT ![r].at = "set", ![r].id = i, ![r].existed = TRUE]
  /\ UNCHANGED <<users, nextId, snapshots, welcomes, accounts>>

(* An authenticated request: its token names a user that once logged in.   *)
Authenticate(r) ==
  \E a \in accounts : Arrives(r, "get", None, a[1], users[a[1]] # None)

(* Faulty: a hit renews the entry. *)
GetSnapshotSliding(r) ==
  /\ At(r, "get")
  /\ IF snapshots[request[r].id] # None
     THEN request' = [request EXCEPT ![r].at = "set", ![r].email = snapshots[request[r].id]]
     ELSE Goes(r, "select")
  /\ UNCHANGED <<users, nextId, snapshots, welcomes, accounts>>

(* A hit admits the request without a query; a miss or a Redis error does  *)
(* the query.                                                              *)
GetSnapshot(r) ==
  /\ At(r, "get")
  /\ \/ snapshots[request[r].id] # None /\ Goes(r, "admitted")
     \/ Goes(r, "select")
  /\ UNCHANGED <<users, nextId, snapshots, welcomes, accounts>>

SelectUser(r) ==
  /\ At(r, "select")
  /\ IF users[request[r].id] = None
     THEN Ends(r)
     ELSE request' = [request EXCEPT ![r].at = "set", ![r].email = users[request[r].id]]
  /\ UNCHANGED <<users, nextId, snapshots, welcomes, accounts>>

SetSnapshot(r) ==
  /\ At(r, "set")
  /\ \/ snapshots' = [snapshots EXCEPT ![request[r].id] = request[r].email]
     \/ UNCHANGED snapshots
  /\ Goes(r, "admitted")
  /\ UNCHANGED <<users, nextId, welcomes, accounts>>

(* What the route does with the user is the business of other modules. *)
Respond(r) ==
  /\ At(r, "admitted")
  /\ Ends(r)
  /\ UNCHANGED <<users, nextId, snapshots, welcomes, accounts>>

-----------------------------------------------------------------------------
(* A database error or the end of the process. *)
Dies(r) ==
  /\ request[r] # None
  /\ Ends(r)
  /\ UNCHANGED <<users, nextId, snapshots, welcomes, accounts>>

Expire(i) ==
  /\ snapshots[i] # None
  /\ snapshots' = [snapshots EXCEPT ![i] = None]
  /\ UNCHANGED <<users, nextId, welcomes, accounts, request>>

(* The operator's DELETE, outside the application. *)
DeleteUser(i) ==
  /\ users[i] # None
  /\ users' = [users EXCEPT ![i] = None]
  /\ UNCHANGED <<nextId, snapshots, welcomes, accounts, request>>

Arrival(r) == Register(r) \/ Login(r) \/ Authenticate(r)

Step(r) ==
  \/ CheckEmail(r) \/ Commit(r) \/ Refresh(r)
  \/ Lookup(r) \/ GetSnapshot(r) \/ SelectUser(r) \/ SetSnapshot(r) \/ Respond(r)

Next ==
  \/ \E r \in Requests : Arrival(r) \/ Step(r) \/ Dies(r)
  \/ \E i \in Ids : Expire(i) \/ DeleteUser(i)

Spec == Init /\ [][Next]_vars

Fairness ==
  /\ \A r \in Requests : WF_vars(Step(r))
  /\ \A i \in Ids : WF_vars(Expire(i))

FairSpec == Spec /\ Fairness

-----------------------------------------------------------------------------
(* Two users never share an email, although registration checks and        *)
(* inserts in separate statements.                                         *)
EmailsUnique ==
  \A i, j \in Ids : users[i] # None /\ users[i] = users[j] => i = j

(* A welcome email goes to an account that was committed, at the address   *)
(* it registered with: never for a registration that ended in 409.         *)
WelcomesAreAccounts == welcomes \subseteq accounts

(* A cached snapshot shows what its user registered with.                  *)
SnapshotsAreAccounts ==
  \A i \in Ids : snapshots[i] # None => <<i, snapshots[i]>> \in accounts

(* A deleted user is locked out in the end: the snapshot goes and does not *)
(* come back, whatever requests and logins were in progress.               *)
DeletedLockedOut ==
  \A i \in Ids : (i < nextId /\ users[i] = None) ~> [](snapshots[i] = None)

(* "A DB query loads User by id; missing user -> 401"                      *)
(* (REQUEST_AND_AUTH_FLOW.md:49): a request is admitted only if its user   *)
(* still existed when it arrived.  A cached snapshot admits a deleted one. *)
AdmittedExisted == \A r \in Requests : At(r, "admitted") => request[r].existed
=============================================================================
