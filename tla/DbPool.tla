------------------------------- MODULE DbPool -------------------------------
(***************************************************************************)
(* Database sessions (app/db/session.py) over the bounded pool of the      *)
(* engine.  A session takes a connection at its first statement and gives  *)
(* it back at a commit, a rollback or its close; the next statement takes  *)
(* one again.  One session serves a whole request: FastAPI resolves get_db *)
(* once, for get_current_user and the route alike.  The readiness probe    *)
(* opens a session of its own.  A session that finds the pool exhausted    *)
(* waits; a connection that comes back goes to whoever asks first, waiting *)
(* or not, and after 30 s a wait raises.                                   *)
(***************************************************************************)
EXTENDS Naturals, Sequences, FiniteSets

CONSTANTS
  Actors,    \* requests and websockets in progress at a time
  Capacity,  \* connections: pool_size 5 and max_overflow 10 by default
  None       \* no request

ASSUME PoolAssumption ==
  /\ IsFiniteSet(Actors)
  /\ Capacity \in Nat \ {0}

VARIABLES
  actor,  \* the request of each actor, and what it still does with the database
  out     \* the sessions that have a connection

vars == <<actor, out>>

Kinds == {"read", "save", "delete", "ready", "socket"}
Statement == [does : {"query", "release"}, by : {"auth", "route", "probe"}]
Actor == [kind : Kinds, todo : Seq(Statement), waits : BOOLEAN]

ASSUME ActorAssumption == None \notin Actor

(* Faulty: every dependency on get_db opens a session. *)
SessionPerDependency(a, by) == <<a, by>>

SessionOf(a, by) == IF by = "probe" THEN <<a, "probe">> ELSE <<a, "request">>

Sessions == Actors \X {"auth", "route", "probe", "request"}

TypeOK ==
  /\ actor \in [Actors -> Actor \cup {None}]
  /\ out \in SUBSET Sessions
  /\ Cardinality(out) <= Capacity

Init ==
  /\ actor = [a \in Actors |-> None]
  /\ out = {}

-----------------------------------------------------------------------------
Asks(by) == [does |-> "query", by |-> by]
Releases(by) == [does |-> "release", by |-> by]

(* check_database closes its session while the other checks go on. *)
Probe == <<Asks("probe"), Releases("probe")>>

(* Lists, single tasks and logins only query.  Creates, updates and        *)
(* registrations query, commit and refresh; a delete ends with its commit. *)
(* A socket needs the database for nothing but its user.                   *)
Script(kind) ==
  CASE kind = "read"   -> <<Asks("route")>>
    [] kind = "save"   -> <<Asks("route"), Releases("route"), Asks("route")>>
    [] kind = "delete" -> <<Asks("route"), Releases("route")>>
    [] kind = "ready"  -> Probe
    [] kind = "socket" -> <<>>

(* The user is looked up first unless a snapshot has it, or the route has  *)
(* no user.                                                                *)
Starts(a) ==
  /\ actor[a] = None
  /\ \E kind \in Kinds, lookup \in {<<>>, <<Asks("auth")>>} :
       /\ kind = "ready" => lookup = <<>>
       /\ actor' = [actor EXCEPT ![a] =
            [kind |-> kind, todo |-> lookup \o Script(kind), waits |-> FALSE]]
  /\ UNCHANGED out

NextIs(a, does) ==
  actor[a] # None /\ actor[a].todo # <<>> /\ Head(actor[a].todo).does = does

Session(a) == SessionOf(a, Head(actor[a].todo).by)
Idle == Cardinality(out) < Capacity

Done(a) == actor' = [actor EXCEPT ![a].todo = Tail(@), ![a].waits = FALSE]

(* Faulty: one connection more than there are. *)
QueryOverflows(a) ==
  /\ NextIs(a, "query")
  /\ Session(a) \in out \/ Cardinality(out) <= Capacity
  /\ out' = out \cup {Session(a)}
  /\ Done(a)

(* A statement, on the connection the session has or takes. *)
Query(a) ==
  /\ NextIs(a, "query")
  /\ Session(a) \in out \/ Idle
  /\ out' = out \cup {Session(a)}
  /\ Done(a)

Waits(a) ==
  /\ NextIs(a, "query") /\ ~actor[a].waits
  /\ Session(a) \notin out /\ ~Idle
  /\ actor' = [actor EXCEPT ![a].waits = TRUE]
  /\ UNCHANGED out

(* A commit, a rollback or the end of the probe's session. *)
Release(a) ==
  /\ NextIs(a, "release")
  /\ out' = out \ {Session(a)}
  /\ Done(a)

(* The exit of get_db and of the probe's block, whatever the way out. *)
Close(a) == out' = {s \in out : s[1] # a}

Ends(a) == actor' = [actor EXCEPT ![a] = None] /\ Close(a)

Finish(a) ==
  /\ actor[a] # None /\ actor[a].todo = <<>> /\ actor[a].kind # "socket"
  /\ Ends(a)

(* An early answer (cached list, 403, 404, 409), an exception, the end of  *)
(* a websocket.                                                            *)
Leaves(a) ==
  /\ actor[a] # None /\ ~actor[a].waits
  /\ Ends(a)

WaitTimesOut(a) ==
  /\ actor[a] # None /\ actor[a].waits
  /\ Ends(a)

Step(a) == Query(a) \/ Waits(a) \/ Release(a) \/ Finish(a)

Next == \E a \in Actors : Starts(a) \/ Step(a) \/ Leaves(a) \/ WaitTimesOut(a)

Spec == Init /\ [][Next]_vars

(* Requests run on.  Nothing makes websockets close, and no one counts on  *)
(* errors or on timeouts.                                                  *)
FairSpec == Spec /\ \A a \in Actors : WF_vars(Step(a))

-----------------------------------------------------------------------------
Holds(a) == \E s \in out : s[1] = a

(* Whoever waits for a connection holds none, so waiting cannot be mutual. *)
NoHoldAndWait == \A a \in Actors : actor[a] # None /\ actor[a].waits => ~Holds(a)

(* An exhausted pool frees a connection by itself, without a wait timing   *)
(* out, unless it is all in the hands of open websockets.                  *)
OnlySocketsExhaust ==
  ~Idle ~> Idle \/ \A s \in out : actor[s[1]].kind = "socket"
=============================================================================
