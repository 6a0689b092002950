---------------------------- MODULE RateLimiter ----------------------------
(***************************************************************************)
(* check_rate_limit (app/core/security.py) for one key: INCR, an EXPIRE    *)
(* after the first, and 429 above the limit.  Requests interleave at the   *)
(* two awaits.  A Redis command may fail with or without having taken      *)
(* effect, which lets the request through; a request may die in between.   *)
(***************************************************************************)
EXTENDS Naturals, FiniteSets

CONSTANTS
  Clients,   \* requests in progress at a time
  Limit,     \* limit
  Seconds,   \* seconds, in ticks
  MaxCount   \* bound: INCRs of one key

ASSUME RateAssumption ==
  /\ Limit \in Nat \ {0}
  /\ Seconds \in Nat \ {0}
  /\ MaxCount \in Nat /\ MaxCount > Limit

NoDeadline == Seconds + 1

VARIABLES
  count,    \* value of the key; 0 when it does not exist
  ttl,      \* ticks until the key expires, or NoDeadline
  client,   \* where each request is, or how the last one ended
  passed,   \* history: requests counted and let through in this window
  lost      \* history: the EXPIRE of this window's key was lost

vars == <<count, ttl, client, passed, lost>>

TypeOK ==
  /\ count \in 0 .. MaxCount
  /\ ttl \in 1 .. NoDeadline
  /\ client \in [Clients -> {"idle", "incr", "expire", "admitted", "rejected"}]
  /\ passed \in 0 .. MaxCount
  /\ lost \in BOOLEAN

Init ==
  /\ count = 0
  /\ ttl = NoDeadline
  /\ client = [c \in Clients |-> "idle"]
  /\ passed = 0
  /\ lost = FALSE

Goes(c, place) == client' = [client EXCEPT ![c] = place]

Request(c) ==
  /\ client[c] \in {"idle", "admitted", "rejected"}
  /\ Goes(c, "incr")
  /\ UNCHANGED <<count, ttl, passed, lost>>

(* Faulty: the comparison is off by one. *)
IncrOffByOne(c) ==
  /\ client[c] = "incr" /\ count < MaxCount
  /\ count' = count + 1
  /\ Goes(c, CASE count = 0          -> "expire"
               [] count \in 1 .. Limit -> "admitted"
               [] OTHER              -> "rejected")
  /\ passed' = IF count \in 1 .. Limit THEN passed + 1 ELSE passed
  /\ UNCHANGED <<ttl, lost>>

(* Faulty: every request below the limit sets the deadline anew. *)
IncrThenExpire(c) ==
  /\ client[c] = "incr" /\ count < MaxCount
  /\ count' = count + 1
  /\ Goes(c, IF count < Limit THEN "expire" ELSE "rejected")
  /\ UNCHANGED <<ttl, passed, lost>>

(* INCR answers the new value: 1 goes on to EXPIRE, more is compared. *)
Incr(c) ==
  /\ client[c] = "incr" /\ count < MaxCount
  /\ count' = count + 1
  /\ Goes(c, CASE count = 0              -> "expire"
               [] count \in 1 .. Limit - 1 -> "admitted"
               [] OTHER                  -> "rejected")
  /\ passed' = IF count \in 1 .. Limit - 1 THEN passed + 1 ELSE passed
  /\ UNCHANGED <<ttl, lost>>

(* The INCR raises: the request fails open, counted or not. *)
IncrFails(c) ==
  /\ client[c] = "incr"
  /\ \/ UNCHANGED <<count, lost>>
     \/ /\ count < MaxCount
        /\ count' = count + 1
        /\ lost' = (lost \/ count = 0)
  /\ Goes(c, "admitted")
  /\ UNCHANGED <<ttl, passed>>

(* Faulty: EXPIRE names another key. *)
ExpireOtherKey(c) ==
  /\ client[c] = "expire"
  /\ Goes(c, "admitted")
  /\ passed' = passed + 1
  /\ UNCHANGED <<count, ttl, lost>>

(* Only the request that saw 1 sets the deadline, however late. *)
Expire(c) ==
  /\ client[c] = "expire"
  /\ ttl' = Seconds
  /\ passed' = passed + 1
  /\ Goes(c, "admitted")
  /\ UNCHANGED <<count, lost>>

ExpireFails(c) ==
  /\ client[c] = "expire"
  /\ \/ ttl' = Seconds /\ UNCHANGED lost
     \/ lost' = TRUE /\ UNCHANGED ttl
  /\ passed' = passed + 1
  /\ Goes(c, "admitted")
  /\ UNCHANGED count

Dies(c) ==
  /\ client[c] \in {"incr", "expire"}
  /\ lost' = (lost \/ client[c] = "expire")
  /\ Goes(c, "idle")
  /\ UNCHANGED <<count, ttl, passed>>

(* Faulty: the key outlives its last tick. *)
TickLate ==
  /\ count > 0 /\ ttl # NoDeadline
  /\ IF ttl > 0
     THEN ttl' = ttl - 1 /\ UNCHANGED <<count, passed, lost>>
     ELSE ttl' = NoDeadline /\ count' = 0 /\ passed' = 0 /\ lost' = FALSE
  /\ UNCHANGED client

(* Time passes; a key whose time is over is gone. *)
Tick ==
  /\ count > 0 /\ ttl # NoDeadline
  /\ IF ttl > 1
     THEN ttl' = ttl - 1 /\ UNCHANGED <<count, passed, lost>>
     ELSE ttl' = NoDeadline /\ count' = 0 /\ passed' = 0 /\ lost' = FALSE
  /\ UNCHANGED client

Step(c) == Incr(c) \/ IncrFails(c) \/ Expire(c) \/ ExpireFails(c)

Next == Tick \/ \E c \in Clients : Request(c) \/ Step(c) \/ Dies(c)

Spec == Init /\ [][Next]_vars

Fairness == WF_vars(Tick) /\ \A c \in Clients : WF_vars(Step(c))

FairSpec == Spec /\ Fairness

-----------------------------------------------------------------------------
(* In one life of the key at most Limit of the requests it counted go      *)
(* through, wherever INCR, EXPIRE and the end of the window fall.          *)
AtMostLimitPass ==
  passed + Cardinality({c \in Clients : client[c] = "expire"}) <= Limit

(* A counted key has a deadline, or one request is about to set it and no  *)
(* second one is, unless the EXPIRE of this key is known to be lost.       *)
OneSetsDeadline ==
  LET setting == {c \in Clients : client[c] = "expire"}
  IN /\ count > 0 /\ ttl = NoDeadline /\ ~lost => Cardinality(setting) = 1
     /\ count = 0 \/ ttl # NoDeadline \/ lost => setting = {}

(* Being blocked ends, unless the EXPIRE of the key was lost. *)
BlocksEnd == (count > Limit) ~> (count <= Limit \/ lost)

(* "Fail open so the API stays usable when Redis is down"                  *)
(* (security.py:87): being blocked always ends.  A Redis failure between   *)
(* INCR and EXPIRE leaves a key without a deadline, and it never ends.     *)
AlwaysUsableAgain == (count > Limit) ~> (count <= Limit)
=============================================================================
