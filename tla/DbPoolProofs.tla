---------------------------- MODULE DbPoolProofs ----------------------------
(***************************************************************************)
(* Proofs about DbPool, for any requests in progress and any capacity.     *)
(* That a waiting request holds nothing rests on its using one session     *)
(* only: all statements of a script go through the same one (Scripted), so *)
(* a request never has a connection in another (OneSession).               *)
(***************************************************************************)
EXTENDS DbPool, FiniteSetTheorems, SequenceTheorems, TLAPS

(* The statements a kind of request may have, and their session. *)
Own(kind) == [does : {"query", "release"}, by : IF kind = "ready" THEN {"probe"} ELSE {"auth", "route"}]
Place(kind) == IF kind = "ready" THEN "probe" ELSE "request"

Scripted == \A a \in Actors : actor[a] # None => actor[a].todo \in Seq(Own(actor[a].kind))

OneSession ==
  \A s \in out : actor[s[1]] # None /\ s = <<s[1], Place(actor[s[1]].kind)>>

IInv == TypeOK /\ IsFiniteSet(out) /\ Scripted /\ OneSession /\ NoHoldAndWait

LEMMA InvInit == Init => IInv
<1> SUFFICES ASSUME Init PROVE IInv
  OBVIOUS
<1>1. IsFiniteSet(out) /\ Cardinality(out) = 0
  BY FS_EmptySet DEF Init
<1>2. TypeOK
  BY <1>1, PoolAssumption DEF Init, TypeOK
<1> QED
  BY <1>1, <1>2 DEF Init, IInv, Scripted, OneSession, NoHoldAndWait

-----------------------------------------------------------------------------
LEMMA ActorType ==
  ASSUME TypeOK, NEW a \in Actors, actor[a] # None
  PROVE  actor[a] \in Actor /\ actor[a].kind \in Kinds /\ actor[a].waits \in BOOLEAN
BY DEF TypeOK, Actor

LEMMA OwnStatements ==
  ASSUME NEW kind \in Kinds
  PROVE  /\ Own(kind) \subseteq Statement
         /\ Seq(Own(kind)) \subseteq Seq(Statement)
         /\ \A a \in Actors, st \in Own(kind) : SessionOf(a, st.by) = <<a, Place(kind)>>
         /\ \A a \in Actors : <<a, Place(kind)>> \in Sessions
<1>1. Own(kind) \subseteq Statement
  BY DEF Own, Statement
<1>2. \A a \in Actors, st \in Own(kind) : SessionOf(a, st.by) = <<a, Place(kind)>>
  BY DEF Own, SessionOf, Place
<1> QED
  BY <1>1, <1>2 DEF Place, Sessions

(* A new request has a script of its kind. *)
LEMMA StartsInv ==
  ASSUME IInv, NEW a \in Actors, Starts(a)
  PROVE  IInv'
<1>1. PICK kind \in Kinds, lookup \in {<<>>, <<Asks("auth")>>} :
        /\ kind = "ready" => lookup = <<>>
        /\ actor' = [actor EXCEPT ![a] =
             [kind |-> kind, todo |-> lookup \o Script(kind), waits |-> FALSE]]
  BY DEF Starts
<1> DEFINE new == [kind |-> kind, todo |-> lookup \o Script(kind), waits |-> FALSE]
<1>2. actor[a] = None /\ out' = out
  BY DEF Starts
<1>3. Script(kind) \in Seq(Own(kind))
  <2>1. CASE kind = "ready"
    <3>1. Asks("probe") \in Own(kind) /\ Releases("probe") \in Own(kind)
      BY <2>1 DEF Own, Asks, Releases
    <3>2. Script(kind) = <<Asks("probe"), Releases("probe")>>
      BY <2>1 DEF Script, Probe
    <3> QED
      BY <3>1, <3>2
  <2>2. CASE kind # "ready"
    <3>1. Asks("route") \in Own(kind) /\ Releases("route") \in Own(kind)
      BY <2>2 DEF Own, Asks, Releases
    <3>2. CASE kind = "read"
      BY <3>1, <3>2 DEF Script
    <3>3. CASE kind = "save"
      BY <3>1, <3>3 DEF Script
    <3>4. CASE kind = "delete"
      BY <3>1, <3>4 DEF Script
    <3>5. CASE kind = "socket"
      BY <3>5 DEF Script
    <3> QED
      BY <2>2, <3>2, <3>3, <3>4, <3>5 DEF Kinds
  <2> QED
    BY <2>1, <2>2
<1>4. lookup \in Seq(Own(kind))
  <2>1. CASE lookup = <<>>
    BY <2>1
  <2>2. CASE lookup = <<Asks("auth")>> /\ kind # "ready"
    <3>1. Asks("auth") \in Own(kind)
      BY <2>2 DEF Own, Asks
    <3> QED
      BY <2>2, <3>1
  <2> QED
    BY <1>1, <2>1, <2>2
<1>5. lookup \o Script(kind) \in Seq(Own(kind))
  BY <1>3, <1>4
<1>6. new \in Actor
  BY <1>5, OwnStatements DEF Actor
<1>7. actor'[a] = new /\ \A x \in Actors : x # a => actor'[x] = actor[x]
  BY <1>1 DEF IInv, TypeOK
<1>8. TypeOK'
  BY <1>1, <1>2, <1>6 DEF IInv, TypeOK
<1>9. Scripted'
  <2>1. new.kind = kind /\ new.todo = lookup \o Script(kind)
    OBVIOUS
  <2>2. actor'[a].todo \in Seq(Own(actor'[a].kind))
    BY <1>5, <1>7, <2>1
  <2> QED
    BY <1>7, <2>2 DEF IInv, Scripted
<1>10. OneSession'
  BY <1>2, <1>7 DEF IInv, OneSession, TypeOK, Sessions
<1>11. NoHoldAndWait'
  BY <1>2, <1>7 DEF IInv, NoHoldAndWait, Holds
<1> QED
  BY <1>2, <1>8, <1>9, <1>10, <1>11 DEF IInv

-----------------------------------------------------------------------------
(* The next statement goes through the one session of the request. *)
LEMMA NextSession ==
  ASSUME IInv, NEW a \in Actors, actor[a] # None, actor[a].todo # <<>>
  PROVE  /\ Session(a) = <<a, Place(actor[a].kind)>> /\ Session(a) \in Sessions
         /\ Tail(actor[a].todo) \in Seq(Own(actor[a].kind))
<1>1. actor[a].kind \in Kinds /\ actor[a].todo \in Seq(Own(actor[a].kind))
  BY ActorType DEF IInv, Scripted
<1>2. Head(actor[a].todo) \in Own(actor[a].kind)
  BY <1>1
<1>3. Tail(actor[a].todo) \in Seq(Own(actor[a].kind))
  BY <1>1, HeadTailProperties
<1> QED
  BY <1>1, <1>2, <1>3, OwnStatements DEF Session

(* After it the request has its own script still and waits no more. *)
LEMMA DoneEffect ==
  ASSUME IInv, NEW a \in Actors, actor[a] # None, actor[a].todo # <<>>, Done(a)
  PROVE  /\ actor' \in [Actors -> Actor \cup {None}]
         /\ actor'[a] # None /\ actor'[a].kind = actor[a].kind /\ ~actor'[a].waits
         /\ \A x \in Actors : x # a => actor'[x] = actor[x]
         /\ Scripted'
<1>1. actor[a] \in Actor /\ actor[a].kind \in Kinds
  BY ActorType DEF IInv
<1>2. actor'[a] = [actor[a] EXCEPT !.todo = Tail(@), !.waits = FALSE]
  BY DEF IInv, TypeOK, Done
<1>3. Tail(actor[a].todo) \in Seq(Own(actor[a].kind))
  BY NextSession
<1>4. Tail(actor[a].todo) \in Seq(Statement)
  BY <1>1, <1>3, OwnStatements
<1>5. /\ actor'[a] \in Actor /\ actor'[a].kind = actor[a].kind /\ actor'[a].waits = FALSE
      /\ actor'[a].todo = Tail(actor[a].todo)
  BY <1>1, <1>2, <1>4 DEF Actor
<1>6. \A x \in Actors : x # a => actor'[x] = actor[x]
  BY DEF IInv, TypeOK, Done
<1>7. actor' \in [Actors -> Actor \cup {None}]
  BY <1>5, <1>6 DEF IInv, TypeOK, Done
<1>8. Scripted'
  BY <1>3, <1>5, <1>6 DEF IInv, Scripted
<1> QED
  BY <1>5, <1>6, <1>7, <1>8, ActorAssumption

LEMMA QueryInv ==
  ASSUME IInv, NEW a \in Actors, Query(a)
  PROVE  IInv'
<1>1. /\ actor[a] # None /\ actor[a].todo # <<>> /\ Done(a) /\ out' = out \cup {Session(a)}
      /\ Session(a) \in out \/ Cardinality(out) < Capacity
  BY DEF Query, NextIs, Idle
<1>2. Session(a) = <<a, Place(actor[a].kind)>> /\ Session(a) \in Sessions
  BY <1>1, NextSession
<1>3. IsFiniteSet(out') /\ Cardinality(out') <= Capacity
  <2>1. CASE Session(a) \in out
    <3>1. out' = out
      BY <1>1, <2>1
    <3> QED
      BY <3>1 DEF IInv, TypeOK
  <2>2. CASE Session(a) \notin out
    <3>1. IsFiniteSet(out') /\ Cardinality(out') = Cardinality(out) + 1
      BY <1>1, <2>2, FS_AddElement DEF IInv
    <3>2. Cardinality(out) \in Nat
      BY FS_CardinalityType DEF IInv
    <3> QED
      BY <1>1, <2>2, <3>1, <3>2, PoolAssumption
  <2> QED
    BY <2>1, <2>2
<1>4. TypeOK' /\ Scripted'
  BY <1>1, <1>2, <1>3, DoneEffect DEF IInv, TypeOK
<1>5. OneSession'
  BY <1>1, <1>2, DoneEffect DEF IInv, OneSession, TypeOK, Sessions
<1>6. NoHoldAndWait'
  BY <1>1, <1>2, DoneEffect DEF IInv, NoHoldAndWait, Holds
<1> QED
  BY <1>3, <1>4, <1>5, <1>6 DEF IInv

(* Sessions taken away leave a pool that is in order. *)
LEMMA FewerSessions ==
  ASSUME IInv, NEW less \in SUBSET out
  PROVE  IsFiniteSet(less) /\ Cardinality(less) <= Capacity /\ less \in SUBSET Sessions
<1>1. IsFiniteSet(less) /\ Cardinality(less) <= Cardinality(out)
  BY FS_Subset DEF IInv
<1>2. Cardinality(less) \in Nat /\ Cardinality(out) \in Nat
  BY <1>1, FS_CardinalityType DEF IInv
<1> QED
  BY <1>1, <1>2, PoolAssumption DEF IInv, TypeOK

LEMMA ReleaseInv ==
  ASSUME IInv, NEW a \in Actors, Release(a)
  PROVE  IInv'
<1>1. actor[a] # None /\ actor[a].todo # <<>> /\ Done(a) /\ out' \in SUBSET out
  BY DEF Release, NextIs
<1>2. TypeOK' /\ Scripted' /\ IsFiniteSet(out)'
  BY <1>1, DoneEffect, FewerSessions DEF TypeOK
<1>3. OneSession'
  BY <1>1, DoneEffect DEF IInv, OneSession, TypeOK, Sessions
<1>4. NoHoldAndWait'
  BY <1>1, DoneEffect DEF IInv, NoHoldAndWait, Holds
<1> QED
  BY <1>2, <1>3, <1>4 DEF IInv

(* A request starts to wait for its only session, so it holds none. *)
LEMMA WaitsInv ==
  ASSUME IInv, NEW a \in Actors, Waits(a)
  PROVE  IInv'
<1>1. /\ actor[a] # None /\ actor[a].todo # <<>> /\ Session(a) \notin out
      /\ actor' = [actor EXCEPT ![a].waits = TRUE] /\ out' = out
  BY DEF Waits, NextIs
<1>2. actor[a] \in Actor
  BY <1>1, ActorType DEF IInv
<1>3. actor'[a] = [actor[a] EXCEPT !.waits = TRUE] /\ \A x \in Actors : x # a => actor'[x] = actor[x]
  BY <1>1 DEF IInv, TypeOK
<1>4. /\ actor'[a] \in Actor /\ actor'[a].kind = actor[a].kind
      /\ actor'[a].todo = actor[a].todo
  BY <1>2, <1>3 DEF Actor
<1>5. TypeOK'
  BY <1>1, <1>3, <1>4 DEF IInv, TypeOK
<1>6. Scripted'
  BY <1>1, <1>3, <1>4 DEF IInv, Scripted
<1>7. OneSession'
  <2>1. \A x \in Actors : actor[x] # None => actor'[x] # None /\ actor'[x].kind = actor[x].kind
    BY <1>3, <1>4, ActorAssumption
  <2> QED
    BY <1>1, <2>1 DEF IInv, OneSession, TypeOK, Sessions
<1>8. ~Holds(a)
  <2>1. SUFFICES ASSUME NEW s \in out, s[1] = a PROVE FALSE
    BY DEF Holds
  <2>2. s = <<a, Place(actor[a].kind)>>
    BY <2>1 DEF IInv, OneSession
  <2> QED
    BY <1>1, <2>1, <2>2, NextSession
<1>9. NoHoldAndWait'
  BY <1>1, <1>3, <1>8 DEF IInv, NoHoldAndWait, Holds
<1> QED
  BY <1>1, <1>5, <1>6, <1>7, <1>9 DEF IInv

LEMMA EndsInv ==
  ASSUME IInv, NEW a \in Actors, Ends(a)
  PROVE  IInv'
<1>1. actor' = [actor EXCEPT ![a] = None] /\ out' = {s \in out : s[1] # a}
  BY DEF Ends, Close
<1>2. actor'[a] = None /\ \A x \in Actors : x # a => actor'[x] = actor[x]
  BY <1>1 DEF IInv, TypeOK
<1>3. TypeOK' /\ IsFiniteSet(out)'
  BY <1>1, FewerSessions DEF IInv, TypeOK
<1>4. Scripted' /\ NoHoldAndWait'
  BY <1>1, <1>2 DEF IInv, Scripted, NoHoldAndWait, Holds
<1>5. OneSession'
  BY <1>1, <1>2 DEF IInv, OneSession, TypeOK, Sessions
<1> QED
  BY <1>3, <1>4, <1>5 DEF IInv

LEMMA InvNext == IInv /\ [Next]_vars => IInv'
<1> SUFFICES ASSUME IInv, [Next]_vars PROVE IInv'
  OBVIOUS
<1>1. ASSUME NEW a \in Actors, Starts(a) PROVE IInv'
  BY <1>1, StartsInv
<1>2. ASSUME NEW a \in Actors, Step(a) PROVE IInv'
  BY <1>2, QueryInv, WaitsInv, ReleaseInv, EndsInv DEF Step, Finish
<1>3. ASSUME NEW a \in Actors, Leaves(a) \/ WaitTimesOut(a) PROVE IInv'
  BY <1>3, EndsInv DEF Leaves, WaitTimesOut
<1>4. CASE UNCHANGED vars
  BY <1>4 DEF vars, IInv, TypeOK, Scripted, OneSession, NoHoldAndWait, Holds
<1> QED
  BY <1>1, <1>2, <1>3, <1>4 DEF Next

LEMMA Invariance == Spec => []IInv
BY InvInit, InvNext, PTL DEF Spec

(* Every variable keeps its type, and the pool its capacity. *)
THEOREM TypeCorrect == Spec => []TypeOK
<1>1. IInv => TypeOK
  BY DEF IInv
<1> QED
  BY <1>1, Invariance, PTL

(* A request that waits for a connection holds none: no group of requests  *)
(* can wait for one another, whatever the capacity.                        *)
THEOREM NeverHoldsAndWaits == Spec => []NoHoldAndWait
<1>1. IInv => NoHoldAndWait
  BY DEF IInv
<1> QED
  BY <1>1, Invariance, PTL

-----------------------------------------------------------------------------
(* A request whose next step takes no further connection. *)
RunsOn(a) ==
  /\ actor[a] # None
  /\ \/ NextIs(a, "release")
     \/ NextIs(a, "query") /\ Session(a) \in out
     \/ actor[a].todo = <<>> /\ actor[a].kind # "socket"

(* Whoever has a connection has just one and goes on without a second, so  *)
(* it gives the one it has back, whoever else is in need: all but an open  *)
(* websocket, whose session keeps that of its user's lookup and has        *)
(* nothing left to do.                                                     *)
HoldersRunOn ==
  /\ \A s, t \in out : s[1] = t[1] => s = t
  /\ \A s \in out : \/ RunsOn(s[1])
                    \/ actor[s[1]].kind = "socket" /\ actor[s[1]].todo = <<>>

(* No request that has a connection needs another to give it back. *)
THEOREM ConnectionsComeBack == Spec => []HoldersRunOn
<1>1. IInv => HoldersRunOn
  <2> SUFFICES ASSUME IInv
               PROVE  HoldersRunOn
    OBVIOUS
  <2>1. \A s, t \in out : s[1] = t[1] => s = t
    <3> SUFFICES ASSUME NEW s \in out, NEW t \in out, s[1] = t[1]
                 PROVE  s = t
      OBVIOUS
    <3>1. s = <<s[1], Place(actor[s[1]].kind)>> /\ t = <<t[1], Place(actor[t[1]].kind)>>
      BY DEF IInv, OneSession
    <3> QED
      BY <3>1
  <2>2. ASSUME NEW s \in out
        PROVE  \/ RunsOn(s[1])
               \/ actor[s[1]].kind = "socket" /\ actor[s[1]].todo = <<>>
    <3> DEFINE a == s[1]
    <3>1. a \in Actors /\ actor[a] # None /\ s = <<a, Place(actor[a].kind)>>
      BY DEF IInv, TypeOK, Sessions, OneSession
    <3> HIDE DEF a
    <3>2. CASE actor[a].todo = <<>>
      BY <3>1, <3>2 DEF RunsOn, a
    <3>3. CASE actor[a].todo # <<>>
      <4>1. Session(a) \in out
        BY <3>1, <3>3, NextSession
      <4>2. actor[a].kind \in Kinds /\ actor[a].todo \in Seq(Own(actor[a].kind))
        BY <3>1, ActorType DEF IInv, Scripted
      <4>3. Head(actor[a].todo) \in Own(actor[a].kind)
        BY <3>3, <4>2
      <4>4. Head(actor[a].todo).does \in {"query", "release"}
        BY <4>3 DEF Own
      <4> QED
        BY <3>1, <3>3, <4>1, <4>4 DEF RunsOn, NextIs, a
    <3> QED
      BY <3>2, <3>3
  <2> QED
    BY <2>1, <2>2 DEF HoldersRunOn
<1> QED
  BY <1>1, Invariance, PTL
=============================================================================
