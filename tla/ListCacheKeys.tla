--------------------------- MODULE ListCacheKeys ---------------------------
(***************************************************************************)
(* The keys of cached task lists (app/services/task_service.py) as texts.  *)
(* A key is split at its colons, so it is a sequence of segments, and a    *)
(* filter, which a client chooses freely, is one or more of them.  One     *)
(* request runs after the other here; TaskService has their interleavings  *)
(* and takes for granted what is looked at here: which requests share a    *)
(* key, and which keys an invalidation finds.  The page and the sorting,   *)
(* whose field is a third free text, follow in the key and are left out.   *)
(***************************************************************************)
EXTENDS Naturals, Sequences, SequencesExt

CONSTANTS
  Requests,   \* the user, its id as digits, and two filters, texts as segments
  Absent,     \* no filter given
  None,       \* nothing cached, nothing answered yet
  MaxVersion  \* bound: writes of one user

Users == {r.user : r \in Requests}

(* A text has one segment more than colons; a request has two filters. *)
Filters == {Absent} \cup (Seq(STRING) \ {<<>>})

ASSUME RequestsAssumption ==
  /\ Absent \notin Seq(STRING)
  /\ \A r \in Requests :
       r.user \in STRING /\ r.status \in Filters /\ r.priority \in Filters

ASSUME MaxVersionAssumption == MaxVersion \in Nat

Lists == [user : Users, status : Filters, priority : Filters, version : Nat]

Answers == [asked : Requests, got : Lists]

(* None is neither a list nor an answer. *)
ASSUME NoneAssumption == None \notin Lists \cup Answers

VARIABLES
  version,  \* writes of each user so far
  cache,    \* the list cached under a key
  served    \* the last request and its answer

vars == <<version, cache, served>>

-----------------------------------------------------------------------------
(* An f-string renders an absent filter as the text None. *)
Rendered(f) == IF f = Absent THEN <<"None">> ELSE f

(* Faulty: the user is not part of the key. *)
KeyOfNobody(r) ==
  <<"tasks", "status">> \o Rendered(r.status) \o <<"priority">> \o Rendered(r.priority)

(* Faulty: absent filters and labels are left out. *)
KeyOfTexts(r) ==
  <<"tasks", "user", r.user>> \o (IF r.status = Absent THEN <<>> ELSE r.status)
    \o (IF r.priority = Absent THEN <<>> ELSE r.priority)

Key(r) ==
  <<"tasks", "user", r.user, "status">> \o Rendered(r.status)
    \o <<"priority">> \o Rendered(r.priority)

(* KEYS tasks:user:{id}:*, in which the id has neither colon nor wildcard. *)
Matches(u, k) == Len(k) > 3 /\ IsPrefix(<<"tasks", "user", u>>, k)

(* An empty text is no filter either, under a key of its own. *)
Applied(f) == IF f = <<"">> THEN Absent ELSE f

(* A list, by the user and the filters that select it and the user's writes. *)
List(r) ==
  [user |-> r.user, status |-> Applied(r.status), priority |-> Applied(r.priority),
   version |-> version[r.user]]

-----------------------------------------------------------------------------
Keys == {Key(r) : r \in Requests}

Init ==
  /\ version = [u \in Users |-> 0]
  /\ cache = [k \in Keys |-> None]
  /\ served = None

(* A hit is answered as it is, a miss from the table, then cached. *)
GetAllTasks(r) ==
  LET list == IF cache[Key(r)] # None THEN cache[Key(r)] ELSE List(r)
  IN /\ served' = [asked |-> r, got |-> list]
     /\ cache' = [cache EXCEPT ![Key(r)] = list]
     /\ UNCHANGED version

(* A create, an update or a delete, and its invalidation. *)
Write(u) ==
  /\ version[u] < MaxVersion
  /\ version' = [version EXCEPT ![u] = @ + 1]
  /\ cache' = [k \in Keys |-> IF Matches(u, k) THEN None ELSE cache[k]]
  /\ served' = None

Next ==
  \/ \E r \in Requests : GetAllTasks(r)
  \/ \E u \in Users : Write(u)

Spec == Init /\ [][Next]_vars

-----------------------------------------------------------------------------
(* Whatever texts clients filter by, a list served is one of the user who  *)
(* asked, as of that user's last write.                                    *)
ServedOwnAndFresh ==
  served # None =>
    served.got.user = served.asked.user /\ served.got.version = version[served.asked.user]

(* A filter that reads like no filter, or like more than one segment. *)
Ambiguous(f) == f # Absent /\ (f = <<"None">> \/ Len(f) > 1)

(* A list of other filters than those asked for is served only if the      *)
(* request, or the one that cached it, had such a filter: the text None    *)
(* shares the key of no filter, and a text with colons may read like       *)
(* another pair of filters.                                                *)
MixUpsAmbiguous ==
  served # None /\ <<served.got.status, served.got.priority>>
                     # <<Applied(served.asked.status), Applied(served.asked.priority)>>
    => \E f \in {served.got.status, served.got.priority,
                 served.asked.status, served.asked.priority} : Ambiguous(f)
=============================================================================
