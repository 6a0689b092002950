# Verification of the task-management backend

TLA+ models, TLC runs and TLAPS proofs for the FastAPI service in `app/`
(users, tasks with a cached list, live updates over a websocket).  Paths below
are relative to the repository; line numbers are in `PROJECT.json`, which maps
every definition of the models to the code it stands for.

Everything runs on one asyncio event loop per process, so a piece of code
between two `await`s is atomic and any other task may run at an `await`.  That
is the grain of every model here: one action per stretch of code between two
awaits that suspend, one action per database statement and Redis command.

## 1. Inventory

| Part | Code | State | Operations | Hard behaviour |
|---|---|---|---|---|
| Connection manager | `core/connection_manager.py` | sockets by user, a send lock per socket | connect, disconnect, send_to_connection, send_to_user, broadcast | sends compete for a lock while their socket is disconnected; fan-outs iterate over copies that age |
| Websocket session | `api/websocket.py` | one handler, three tasks (events, client messages, heartbeat), pong event, Redis subscription | authenticate, greet, subscribe, run until the first task ends, clean up | cancellation inside a send, exceptions while reaping, timeout against a late pong, every exit path |
| Tasks and list cache | `services/task_service.py`, `repositories/task_repository.py` | `tasks` table, Redis entry per user and filter (300 s) | create, update, delete, get, list | check-then-act, cache fill racing invalidation, lost invalidation |
| Rate limiter | `core/security.py` | a counter with a deadline per key in Redis | check_rate_limit | INCR and EXPIRE are two commands |
| Accounts | `services/auth_service.py`, `services/user_service.py`, `api/auth.py`, `api/deps.py` | `users` table, snapshot per user in Redis | register, login, current user | two registrations of one email, stale snapshot, enqueue after commit |
| Live updates | `publish_task_update`, Redis pub/sub, `_forward_events` | events on their way, subscriptions | publish, deliver, greet, subscribe, forward | events out of the order of their commits, lost, or published before the subscription |
| List cache keys | `_generate_tasks_list_cache_key`, `invalidate_user_tasks_list_cache` | texts of keys | cache, look up, match a pattern | free texts of clients inside a key |
| Database sessions | `db/session.py`, `api/deps.py` | connection pool | first statement, commit, close, wait | several sessions per request would wait for one another; a socket keeps its connection |
| Health | `services/health_service.py` | none | live, ready | its database session is a user of the pool |
| Email worker | `core/celery_app.py`, `tasks/email_tasks.py` | broker queue | send_welcome_email | none that changes state |
| Logging, errors | `middleware/`, `core/log_context.py`, `core/error_logging.py`, `core/exception_handlers.py` | context variables of a request | | not modelled |
| Settings, wiring, migrations | `main.py`, `core/config.py`, `alembic/` | | | not modelled |

How they interact.  A task request authenticates (accounts), reads or writes
the table and the list cache, and publishes an event on the channel of its user.
Each websocket session of that user subscribes to the channel and forwards what
arrives with `send_to_connection`; the client-message task and the heartbeat
use the same operation on the same socket, so the manager's lock orders all
frames of a socket.  Registration and login pass the rate limiter first.

What makes each part correct:

- manager: the two dictionaries agree; a frame starts only on a registered
  socket and never inside another frame; every call returns;
- session: when the handler is over no task, registration, lock or subscription
  is left; it ends when the peer is gone, silent or dropped;
- tasks: a row changes only for its owner; deleted stays deleted; a cached list
  that is out of date is explained by something still to come or by a loss;
- rate limiter: at most the limit passes in a window; a block ends;
- accounts: emails are unique; nobody is welcomed without an account; a deleted
  user is locked out in the end;
- the table: requests that interleave at every await write it as if each were one
  step, and only the columns asked for;
- live updates: what a client shows is right, up to events still to come and to
  the losses the code accepts; nobody is sent another user's tasks;
- list keys: requests that share a key ask for the same list, but for named texts;
- pool: nobody waits for a connection while holding one.

## 2. Modules

| Module | Stands for |
|---|---|
| `ConnectionRegistry` | the manager's two dictionaries, the FIFO send locks and the wires, as fragments that say how each operation changes them |
| `ConnectionManager` | the manager driven by arbitrary callers: connects, disconnects, sends, fan-outs, cancellations in any order. Composes `ConnectionRegistry` |
| `SocketRegistry` | the abstract promise: registered sockets and the one being written to, without locks or queues |
| `WebSocketSession` | one `/ws` session against its peer and Redis. Composes `ConnectionRegistry` and is shown to implement `SocketRegistry` too |
| `TaskService` | task requests, the table and the list cache |
| `TaskStore` | the abstract promise of the table: requests with one atomic effect |
| `LiveUpdates` | task requests with their events, Redis pub/sub and the sessions that forward. Composes with `TaskService` |
| `ListCacheKeys` | the texts of the cache keys and the pattern of the invalidation |
| `DbPool` | requests, sockets and probes over the connection pool |
| `RateLimiter` | one key of the limiter |
| `UserAccounts` | registration, login, authenticated requests, snapshots |
| `ConnectionManagerProofs`, `WebSocketSessionProofs`, `TaskServiceProofs`, `LiveUpdatesProofs`, `ListCacheKeysProofs`, `RateLimiterProofs`, `UserAccountsProofs`, `DbPoolProofs` | the proofs about the module of that name |
| `MC*` | constants, constraints and symmetry for TLC |

### ConnectionRegistry, ConnectionManager, SocketRegistry

`activeConnections` and `sendLocks` are the dictionaries of the class;
`holder` and `waiters` are the `asyncio.Lock` of each socket with its FIFO of
waiters; `wire` is the state of the socket itself.  `send_to_connection` is
split at its two suspensions: acquiring the lock (`SendBegins`, `SendGranted`,
`SendTooLate` for the second look at the registry) and the write
(`SendCompletes`, `SendFails`).  An uncontended lock does not suspend, so the
first look, the acquisition and the second look are then one step; a lock that
is free but has waiters is not taken by a newcomer, as in CPython 3.12.
`Disconnect` is reached from the code's failing send and from the session.

`send_to_user` and `broadcast` keep what is left of their copied lists
(`todoSockets`, `todoUsers`); a socket that left in the meantime makes its send
return false.  Nothing in the repository calls `broadcast` today; it is
modelled since it is part of the class.

The refinement mapping reads the set of registered sockets from
`activeConnections` and the writer of a socket from `holder`.  The abstract
specification allows a write to start only on a registered socket that nobody
writes to; that every step of the manager is one of its steps, or none, is the
safety of the manager.

### WebSocketSession

`handler` is the place in `websocket_endpoint`; `task` the place of each of the
three tasks; `done`, `pending` and `victim` are the variables of the
`asyncio.wait(FIRST_COMPLETED)` and of the loops that cancel and reap; `pong`
is the event; `subscribed` the subscription.  The peer may leave, answer, stay silent
or send garbage at any moment and Redis may fail any command.  Cancellation of
the handler itself (a forced shutdown) is not modelled.

### TaskService

`db` is the table (owner, title and one filterable column per row), `cache` the
Redis entries, `write` and `read` the requests in progress.  A view stands for
the filters of a list request; order and pages are left out.  `tainted` and
`raced` are history: the entries whose invalidation was lost and the results
that one overtook.  They never influence a step.  The races they record happen in
the code, and `CacheCoherent` and `FillsCoherent` do not deny them: they say that
there is *no other* way to a stale list.  A Redis
command may fail with or without effect; a request may die at any await.
`Update` follows the SQLAlchemy unit of work: the row loaded by the ownership
query is in the identity map, so only the differing columns are written, by
id, and an UPDATE of no row raises.
`Insert` takes the id and commits in one step, so the ids below `nextId` are those
of rows that were created.  In PostgreSQL the sequence moves before the commit, and
a row may become visible after one with a larger id; such a row is new and was never
deleted, so `DeletedStaysDeleted` says of the code what it says of the model.

### TaskStore

The refinement mapping reads the abstract table from `db` and `nextId`, and
a pending request from one of `write` that is not past its commit.  `Create`,
`Change` and `Remove` are the commits; `Meet` is the ownership query of an
update, which fixes the columns still to be written: one that already has the
wanted value is dropped from the UPDATE, and a concurrent request may change
it before the commit.  The abstract store allows just that, and no other
way of losing a column.  `Refuse` is every end without an effect: 403, a taken
title, an exception, the death of the request.  What follows a commit is
invisible to the table.

### LiveUpdates

The task requests are those of `TaskService`; each step is conjoined with what
it does to `payload`, the event its request will publish: the row as
the refresh reads it, or the id alone for a delete.  `session` is where a
websocket session stands (closed, told that it is connected, subscribed), `inbox`
what its subscription received and it has not forwarded, `view` what its client
knows: the rows as it read them when it was told that it is connected, and the
events it applied since.  Redis pub/sub is external: it hands a message once, in
order, to the subscriptions of that moment, or loses it.  A lost connection of
a subscription raises in `_forward_events` (the client library is given a pool
without retries), so the session ends; it never skips an event and goes on.

`doubt` and `missed` are history.  A task is in doubt when its row changed while
another event about it was on its way, or an event about it was lost; a
session has missed a task whose event was published between its greeting and its
subscription.  An event that carries the row as it is, with no other on its
way, ends both.  The code does publish concurrent events out of the order of their
commits, and does lose events: the histories record it, and `ViewsExplained`,
`EventsCurrent` and `ViewsSettle` say that a client is out of date in *no other* way.
Lists neither write nor publish and are left out: a client's first read is of the
table and not through the list cache.

### ListCacheKeys

A key is the sequence of its segments between colons, a filter a sequence of one
or more (clients choose the text freely).  Requests run one after the other
here; `TaskService` has the interleavings and takes for granted what this
module is about.

### DbPool

`actor` holds, for each request, socket or probe, the statements still to come;
`out` the sessions with a connection.  FastAPI resolves `get_db` once per
request, so `get_current_user` and the route share a session.  It takes a
connection at the first statement and gives it back at commit, rollback or close;
a save takes one again for its refresh.  A websocket whose user was not cached
has run a query and no commit, and keeps its connection until it closes.  A
connection that comes back goes to whoever asks first (`QueuePool` makes no
promise to the one that waits longest), and a wait raises after 30 s.

### RateLimiter

`count` and `ttl` are the key, `client` the requests.  Time is a tick.  `lost`
is history: the EXPIRE of the present key was lost (failed without effect, or
its request died or never learnt that its INCR was the first).

### UserAccounts

`users` and `nextId` are the table (its unique index is part of `Commit`; the
sequence advances even when the insert is rolled back), `snapshots` the cache,
`welcomes` and `accounts` history.  Passwords and tokens are library calls
without state: a login here has the right password, a token is the id in it.
The repository never deletes a user; `DeleteUser` is the operator's DELETE
that the documentation foresees ("valid token but deleted user").

## 3. Runs

| Run | Instance | Shows |
|---|---|---|
| `manager` | 2 users, 3 sockets, 2 callers | agreeing dictionaries, refinement of `SocketRegistry`, every call ends, the lock of a dropped socket is freed |
| `session` | one session | no orphan task, clean end, no write on a closed wire, refinement of `SocketRegistry`, endings |
| `tasks` | 2 writers, 1 reader, 1 task, 2 views | every stale list is explained; the cache becomes accurate once the rows are at rest |
| `task_store` | 2 writers, 2 users, 1 task, 2 titles, 2 statuses | owners, no resurrection, refinement of `TaskStore` |
| `task_titles` | 2 creates | **violated**: two tasks of one title |
| `live` | 2 writers of 2 users, 1 session, 1 task | views explained and settling, events current, channels apart |
| `list_keys` | 9 requests of 2 users | own and fresh lists; mix-ups only by ambiguous texts |
| `rate_limiter` | 3 requests, limit 2, 2 ticks, 5 INCRs | at most the limit passes, blocks end |
| `rate_lockout` | the same | **violated**: a lost EXPIRE blocks for ever |
| `accounts` | 2 requests, 2 emails, 2 ids | unique emails, welcomes, snapshots; a deleted user is locked out in the end |
| `user_deleted` | 1 request | **violated**: a snapshot admits a deleted user |
| `db_pool` | 3 requests, 2 connections | nobody holds and waits; only open sockets exhaust the pool |

The three violated runs are disagreements between the code and what its own
comments, messages or documents say; `findings` in `PROJECT.json` quotes them.

**Bounds.**  Each race in the code is between two actors, at times with a third
that waits: a holder of a lock that drops its socket and a waiter that learns of it
too late, two writers and a reader of one cache entry, two registrations of one email, two waiting
requests and a socket on two connections.  The instances have just these, and
what they leave out in size the proofs cover: all safety properties of the passing
runs are proved for any number of actors.  Named bounds: `MaxId` (ids
ever taken), `MaxCount` (INCRs of one key, two above the limit so that rejected
requests count too), `MaxBacklog` (events a subscription holds: two, so that
their order matters; a publish waits for room, as no client is that slow
in the instance), `MaxVersion` (writes of one user: one, after which a list
cached before it would be out of date).  The limit of the limiter (50 in 60 s) is 2 in
2 ticks: one request that sets the deadline, one that does not, and those above.
`list_keys` has one request for each kind of text (plain, empty, `None`,
with colons) and a user id that another one begins with.  Symmetry (of the slots
for writers) is used only in `task_store` and `task_titles`, which have no
liveness property.  The runs whose exhausted bound stops the system turn deadlock
checking off, and so does `session`, which ends.

**Fairness.**  Weak fairness of steps already under way, where a property needs
it: the event loop runs each ready coroutine, a write to a socket
completes or raises (the server closes dead connections), the lock is FIFO,
time passes (`manager`, `session`, `rate_limiter`, `accounts`).  `tasks`
assumes only that cached entries expire, so `EventuallyFresh` does not rest on
invalidations.  `live` assumes that a request past its commit goes on until it
has published, or failed to, and that a session forwards what it received.
`db_pool` assumes that requests run on, and neither that sockets close nor that
waits time out.  Nothing makes a request arrive, a command succeed, a peer answer
or an operator act.

## 4. Proofs

`ConnectionManagerProofs` proves, for any sets of users, sockets and callers:

- `TypeCorrect`: `Spec => []TypeOK`;
- `LocksAgree`: `Spec => []LocksMatchRegistry`, the send locks are exactly the
  registered sockets';
- `Refinement`: `Spec => ImplementsRegistry`, the manager implements
  `SocketRegistry`;
- `NoSendDeadlock`: `Spec => [](OneSend /\ NoCircularWait)`, a coroutine is in
  `send_to_connection` for one socket at a time, and one that holds a send lock
  waits for none;
- `FirstComeFirstServed`: `Spec => NoOvertaking`, the queue of a send lock keeps
  its order whatever is cancelled or disconnected.

The inductive invariant is
`IInv == TypeOK /\ LocksMatchRegistry /\ RegisteredIsAccepted`.  The agreement of
the dictionaries alone is not inductive: that `Connect` keeps it needs that
the socket was not registered before, which follows from the state of its wire,
hence the third conjunct.  Each operation of `ConnectionRegistry` gets a lemma
that it preserves `IInv` and maps to an abstract step or to none; the theorem
about `Next` cites them action by action.  The last two theorems rest on a second
invariant, `LineInv`: nobody is in a queue twice, or in one while holding its
lock.  Its lemmas say what appending to, taking from the front of, and removing
from a queue does to its order; `LineStep` is the one form all steps of a socket's lock have.
Assumptions: those named in `ConnectionRegistry` and `ConnectionManager`, which TLC
evaluates in every run.

`TaskServiceProofs` proves `TypeCorrect`, `CacheCorrect` (`CacheCoherent`),
`FillsCorrect` (`FillsCoherent`), `OwnersOnly` (`OnlyOwnerChanges`) and
`NoResurrection` (`DeletedStaysDeleted`).  None of them is inductive alone:

- `CacheCoherent` needs `FillsCoherent`, since a list request that caches what
  it read moves its staleness into the cache;
- both need to know that a commit disturbs results of one user only, so that
  the invalidation its own request still owes covers them.  That is `ActsOnOwn`
  (from the ownership query on, the task a request names is its user's or gone)
  and `SequenceAhead` (an insert meets no row);
- `ActsOnOwn` also says why a second request's refresh that finds its row gone
  may skip its invalidation: the deleting request is one of the same user and
  still has its own to do;
- `KeysOwn` ties what KEYS returned to the user, so that a lost DELETE taints
  enough; `PayloadsComplete` and `TasksNamed` are the types of a request's
  fields at each place.

`CommitCovered`, `CacheFrame`, `FillsFrame` and `FillsRaced` are the four ways a
step keeps coherence (a commit, a step without one, and the two for results);
each action's lemma cites one.  `RowSteps` says what a step can do to a row and
gives both action properties.

Three more theorems say what this comes to.  `ReadOwnWrites`: with no request of a
user between its commit and the end of its invalidation, every cached list of the
user is the query's answer, but for `tainted` entries; `KeysOwn` is what keeps the
invalidations of others out of it.  `FreshForGood`: while the rows stay as they
are, an accurate entry that no out-of-date result is on its way into stays accurate.
`Refinement` (`ImplementsStore`) rests on the same invariant: `ActsOnOwn` is what
makes the UPDATE and DELETE by id abstract steps on a row of the user's own.

`RateLimiterProofs` proves `TypeCorrect`, `LimitKept` (`AtMostLimitPass`) and
`DeadlineSet` (`OneSetsDeadline`).  The invariant says that at most one request is
about to send EXPIRE, exactly when the key has no deadline and none was lost,
and that those let through were counted; a key that is gone has no deadline
(`FreshStart`), which is why the next INCR meets nobody.  `WindowStep` says how a
step moves a deadline that is set and gives `FixedWindow`: no EXPIRE, however late,
moves it.  `LostForGood` says that a lost EXPIRE is never made up for.

`UserAccountsProofs` proves `TypeCorrect`, `OneUserPerEmail`, `WelcomesCorrect` and
`SnapshotsCorrect`: the pair of id and email a request carries from its commit,
lookup or query was committed (`RequestsCarryAccounts`), and so were the rows
(`RowsAreAccounts`).  `LockedOutForGood` is an action property on top: from the
moment a deleted user's snapshot is gone and no request is left that read the row
(`LockedOut`), no step caches or admits the user, and the id is not given away again.

`WebSocketSessionProofs` proves, for any number of concurrent sessions of any
users, `TypeCorrect`, `NoOrphans` (`NoOrphanTask`), `SendersMatch`
(`SendersMatchTasks`), `CleanEnd` (`EndedIsClean`), `OpenWire`
(`WritesStartOnOpenWire`) and `Refinement` of `SocketRegistry`.  The invariant is
a conjunction over the sockets of `Agrees` (dictionaries, wire and handler),
`Queues` (who is inside `send_to_connection`, each once) and `Phases` (where the
three tasks are in each phase of the handler).  A step concerns one socket, so
each action is looked at for its own (`OneSocket`).  The core of it is the loop that
awaits the cancelled tasks: an exception other than the cancellation would leave
the rest running, and `Phases` says why that cannot be: all but the last of
them end cancelled, since a task is awaited only after it was cancelled and one
had ended before the first was.  Two more theorems follow from the same invariant.
`SlowPeersApart`: the senders of a socket are of its own session (`Queues`).
`SessionsNeverStuck`: until a session has ended, the handler or a task it waits
for has a next step and the send lock it needs (`NeverStuck`); it goes through the
places of `Phases`, and where a task queues for the lock `Queues` leads to whoever
has it or is first in line.

`LiveUpdatesProofs` proves `LiveTypeCorrect`, `ViewsCorrect` (`ViewsExplained`),
`EventsCorrect` (`EventsCurrent`) and `ChannelsCorrect` (`ChannelsApart`).  Each step of
the composition is one of `TaskService` or none, so the invariant there holds
here.  `Explained` extends `ViewsExplained` to sessions not subscribed yet, so
that a subscription inherits it.  `OneOwner` says that whatever is known of a
task anywhere (table, request, subscription, client) is known for one user:
therefore an undisturbed event may clear the doubt about its task though it
reaches the sessions of one user only.  `RequestFrame` and `SessionFrame` are the two ways
a step keeps the invariant; `EventDelivered`, which touches everything, has a
proof of its own.  That the whole does nothing `TaskService` does not is the
theorem `Tasks`, and with it the whole implements `TaskStore` (`LiveRefinement`).
`QuietViews` is what `ViewsExplained` comes to when nothing is under way: a live client
whose events about a task have all arrived shows the row as it is.

`ListCacheKeysProofs` proves `OwnAndFresh` (`ServedOwnAndFresh`) and
`OnlyAmbiguousMixed` (`MixUpsAmbiguous`) for any users and any filter texts.  The
invariant is that whatever is cached or served is the current list of some request
with the same key.  A write keeps it since equal keys begin with the same user
(`tasks:user:<id>:`), so the pattern of a user matches every
key of that user; that two filters without a colon and other than `None` give
different keys is a lemma about where the segments of a key end.  Texts are
sequences of the segments between colons, as in the module.

`DbPoolProofs` proves `TypeCorrect` and `NeverHoldsAndWaits` (`NoHoldAndWait`), for any
number of requests and connections: all statements of a request go through one
session (`Scripted`, `OneSession`), so one that waits has no connection elsewhere.
`ConnectionsComeBack` turns it round: whoever has a connection has one only and runs
on without another, except an open websocket, which keeps that of its user's
lookup for as long as it lives.

Assumptions of all of these: the named ASSUMEs of the modules.  `None` must be
different from the records it stands beside (`NoneAssumption`,
`ActorAssumption`), the limit, the window and the capacity positive, users and
filters of list requests are texts (`RequestsAssumption`).

Only model-checked: liveness, since fairness and ENABLED are out of the prover's
reach.  No safety property of a run is left to TLC alone.  What each liveness
property needs of safety is proved, though, as a theorem that no run states:
`CallsEnd` needs `NoSendDeadlock` and `FirstComeFirstServed`; the end of a session
whose peer is gone needs `SessionsNeverStuck`; `EventuallyFresh` needs `FreshForGood`; `ViewsSettle`
is `QuietViews` once nothing is under way; that blocks end needs `FixedWindow`,
and that they need not is `LostForGood`; that deleted users are locked out needs `LockedOutForGood`;
that the pool is usable again needs `ConnectionsComeBack`.

## 5. Not modelled

- Password hashing and JWT: library functions without state.
- Logging, request context, error formatting: nothing reads them back.
- Settings, wiring and migrations (a linear chain; its result is the tables above).
- The checks of Redis and the workers in the readiness probe, and the worker's
  task itself: they change no state of the program.  The probe's database session is
  in `DbPool`.
- The order and paging of lists, and the columns of a task beyond a title and one
  that lists filter by.  Columns are treated alike, so a second of each kind would
  show nothing new.
- Cancellation of a websocket handler by a forced shutdown of the server: the
  process, and all state the session could leave behind, ends with it.
- The Redis client's own pool: unbounded, created once; its errors are the failing
  commands of the models.
