------------------------- MODULE ListCacheKeysProofs -------------------------
(***************************************************************************)
(* Proofs about ListCacheKeys for any users and any texts as filters.      *)
(* Inductive is that every list, cached or served, is the current one of   *)
(* some request under the same key: an invalidation finds every key of the *)
(* user who wrote, since keys that are equal begin with the same user.     *)
(***************************************************************************)
EXTENDS ListCacheKeys, SequenceTheorems, TLAPS

TypeOK ==
  /\ version \in [Users -> Nat]
  /\ cache \in [Keys -> Lists \cup {None}]
  /\ served \in Answers \cup {None}

CacheRight ==
  \A k \in Keys : cache[k] # None => \E q \in Requests : Key(q) = k /\ cache[k] = List(q)

ServedRight ==
  served # None => \E q \in Requests : Key(q) = Key(served.asked) /\ served.got = List(q)

IInv == TypeOK /\ CacheRight /\ ServedRight

-----------------------------------------------------------------------------
(* Keys as texts, of the segments clients choose and those in the code. *)

Segments == STRING \cup {"tasks", "user", "status", "priority", "None"}

LEMMA RequestParts ==
  ASSUME NEW r \in Requests
  PROVE  /\ r.user \in Segments /\ r.user \in Users
         /\ r.status \in Filters /\ r.priority \in Filters
         /\ Rendered(r.status) \in Seq(Segments) \ {<<>>}
         /\ Rendered(r.priority) \in Seq(Segments) \ {<<>>}
<1>1. /\ r.user \in Segments /\ r.user \in Users
      /\ r.status \in Filters /\ r.priority \in Filters
  BY RequestsAssumption DEF Users, Segments
<1>2. "None" \in Segments
  BY DEF Segments
<1>3. <<"None">> \in Seq(Segments) /\ <<"None">> # <<>>
  BY <1>2
<1>4. ASSUME NEW f \in Filters
      PROVE  Rendered(f) \in Seq(Segments) \ {<<>>}
  <2>1. STRING \subseteq Segments
    BY DEF Segments
  <2>2. f # Absent => f \in Seq(Segments) \ {<<>>}
    BY <2>1, SeqMonotonic DEF Filters
  <2> QED
    BY <1>3, <2>2 DEF Rendered
<1> QED
  BY <1>1, <1>4

(* How two texts are joined. *)
LEMMA Joined ==
  ASSUME NEW s \in Seq(Segments), NEW t \in Seq(Segments)
  PROVE  /\ s \o t \in Seq(Segments)
         /\ Len(s) \in Nat /\ Len(t) \in Nat
         /\ Len(s \o t) = Len(s) + Len(t)
         /\ \A i \in 1..Len(s) : (s \o t)[i] = s[i]
         /\ \A i \in 1..Len(t) : (s \o t)[Len(s) + i] = t[i]
<1>1. Len(s) \in Nat /\ Len(t) \in Nat
  BY LenProperties
<1>2. /\ s \o t \in Seq(Segments) /\ Len(s \o t) = Len(s) + Len(t)
      /\ \A i \in 1 .. Len(s) + Len(t) :
           (s \o t)[i] = IF i <= Len(s) THEN s[i] ELSE t[i - Len(s)]
  BY ConcatProperties
<1>3. ASSUME NEW i \in 1..Len(s)
      PROVE  (s \o t)[i] = s[i]
  BY <1>1, <1>2
<1>4. ASSUME NEW i \in 1..Len(t)
      PROVE  (s \o t)[Len(s) + i] = t[i]
  <2>1. Len(s) + i \in 1 .. Len(s) + Len(t) /\ ~(Len(s) + i <= Len(s)) /\ Len(s) + i - Len(s) = i
    BY <1>1
  <2> QED
    BY <1>2, <2>1
<1> QED
  BY <1>1, <1>2, <1>3, <1>4

LEMMA KeyParts ==
  ASSUME NEW r \in Requests
  PROVE  /\ Key(r) \in Seq(Segments)
         /\ Len(Key(r)) = 5 + Len(Rendered(r.status)) + Len(Rendered(r.priority))
         /\ Key(r)[1] = "tasks" /\ Key(r)[2] = "user" /\ Key(r)[3] = r.user
         /\ \A i \in 1..Len(Rendered(r.status)) : Key(r)[4 + i] = Rendered(r.status)[i]
         /\ \A i \in 1..Len(Rendered(r.priority)) :
              Key(r)[5 + Len(Rendered(r.status)) + i] = Rendered(r.priority)[i]
<1> DEFINE a == <<"tasks", "user", r.user, "status">>
           s == Rendered(r.status)
           b == <<"priority">>
           p == Rendered(r.priority)
           t == a \o s
           u == t \o b
<1>1. r.user \in Segments
  BY RequestParts
<1>2. a \in Seq(Segments) /\ Len(a) = 4 /\ a[1] = "tasks" /\ a[2] = "user" /\ a[3] = r.user
  BY <1>1 DEF Segments
<1>3. b \in Seq(Segments) /\ Len(b) = 1
  BY DEF Segments
<1>4. s \in Seq(Segments) /\ p \in Seq(Segments) /\ Len(s) \in Nat /\ Len(p) \in Nat
  BY RequestParts, LenProperties
<1>5. Key(r) = u \o p
  BY DEF Key
<1> HIDE DEF a, b, s, p
<1>6. /\ t \in Seq(Segments) /\ Len(t) = 4 + Len(s)
      /\ \A i \in 1..4 : t[i] = a[i]
      /\ \A i \in 1..Len(s) : t[4 + i] = s[i]
  <2>1. /\ a \o s \in Seq(Segments)
        /\ Len(a \o s) = Len(a) + Len(s)
        /\ \A i \in 1..Len(a) : (a \o s)[i] = a[i]
        /\ \A i \in 1..Len(s) : (a \o s)[Len(a) + i] = s[i]
    BY <1>2, <1>4, Joined
  <2> QED
    BY <1>2, <2>1
<1> HIDE DEF t
<1>7. /\ u \in Seq(Segments) /\ Len(u) = 5 + Len(s)
      /\ \A i \in 1..(4 + Len(s)) : u[i] = t[i]
  <2>1. /\ t \o b \in Seq(Segments)
        /\ Len(t \o b) = Len(t) + Len(b)
        /\ \A i \in 1..Len(t) : (t \o b)[i] = t[i]
        /\ \A i \in 1..Len(b) : (t \o b)[Len(t) + i] = b[i]
    BY <1>3, <1>6, Joined
  <2> QED
    BY <1>3, <1>4, <1>6, <2>1
<1> HIDE DEF u
<1>8. /\ u \o p \in Seq(Segments) /\ Len(u \o p) = 5 + Len(s) + Len(p)
      /\ \A i \in 1..(5 + Len(s)) : (u \o p)[i] = u[i]
      /\ \A i \in 1..Len(p) : (u \o p)[5 + Len(s) + i] = p[i]
  <2>1. /\ u \o p \in Seq(Segments)
        /\ Len(u \o p) = Len(u) + Len(p)
        /\ \A i \in 1..Len(u) : (u \o p)[i] = u[i]
        /\ \A i \in 1..Len(p) : (u \o p)[Len(u) + i] = p[i]
    BY <1>4, <1>7, Joined
  <2> QED
    BY <1>4, <1>7, <2>1
<1>9. ASSUME NEW i \in 1..(4 + Len(s))
      PROVE  Key(r)[i] = t[i]
  <2>1. i \in 1..(5 + Len(s))
    BY <1>4
  <2> QED
    BY <1>5, <1>7, <1>8, <2>1
<1>10. ASSUME NEW i \in 1..4
       PROVE  Key(r)[i] = a[i]
  BY <1>4, <1>6, <1>9
<1>11. Key(r)[1] = "tasks" /\ Key(r)[2] = "user" /\ Key(r)[3] = r.user
  BY <1>2, <1>10
<1>12. ASSUME NEW i \in 1..Len(s)
       PROVE  Key(r)[4 + i] = s[i]
  <2>1. 4 + i \in 1..(4 + Len(s))
    BY <1>4
  <2> QED
    BY <1>6, <1>9, <2>1
<1> QED
  BY <1>5, <1>8, <1>11, <1>12 DEF s, p

(* Equal keys are keys of one user. *)
LEMMA SameKeySameUser ==
  ASSUME NEW q \in Requests, NEW r \in Requests, Key(q) = Key(r)
  PROVE  q.user = r.user
BY KeyParts

(* An invalidation finds every key of its user. *)
LEMMA InvalidationFinds ==
  ASSUME NEW r \in Requests
  PROVE  Matches(r.user, Key(r))
<1> DEFINE s == <<"tasks", "user", r.user>>
           k == Key(r)
<1>1. Len(Rendered(r.status)) \in Nat /\ Len(Rendered(r.priority)) \in Nat
  BY RequestParts, LenProperties
<1>2. k \in Seq(Segments) /\ Len(k) > 3 /\ Len(k) \in Nat
  BY <1>1, KeyParts
<1>3. r.user \in Segments
  BY RequestParts
<1>4. s \in Seq(Segments) /\ Len(s) = 3 /\ s[1] = "tasks" /\ s[2] = "user" /\ s[3] = r.user
  BY <1>3 DEF Segments
<1>5. k[1] = "tasks" /\ k[2] = "user" /\ k[3] = r.user
  BY KeyParts
<1> HIDE DEF k, s
<1>6. \A i \in 1..3 : k[i] = s[i]
  BY <1>4, <1>5
<1>7. \A i \in 1..3 : k[i] \in Segments
  BY <1>3, <1>5 DEF Segments
<1>8. /\ SubSeq(k, 1, 3) \in Seq(Segments) /\ Len(SubSeq(k, 1, 3)) = 3
      /\ \A i \in 1..3 : SubSeq(k, 1, 3)[i] = k[i]
  <2>1. /\ SubSeq(k, 1, 3) \in Seq(Segments)
        /\ Len(SubSeq(k, 1, 3)) = IF 1 <= 3 THEN 3 - 1 + 1 ELSE 0
        /\ \A i \in 1 .. 3 - 1 + 1 : SubSeq(k, 1, 3)[i] = k[1 + i - 1]
    BY <1>7, SubSeqProperties
  <2> QED
    BY <2>1
<1>9. s = SubSeq(k, 1, 3)
  BY <1>4, <1>6, <1>8, SeqEqual
<1>10. SubSeq(s, 1, Len(s)) = s
  BY <1>4, SubSeqFull
<1>11. IsPrefix(s, k)
  BY <1>2, <1>4, <1>9, <1>10 DEF IsPrefix
<1> QED
  BY <1>2, <1>11 DEF Matches, k, s

(* What a filter that is not ambiguous reads like. *)
LEMMA PlainFilter ==
  ASSUME NEW f \in Filters, ~Ambiguous(f)
  PROVE  /\ Len(Rendered(f)) = 1
         /\ Rendered(f) = <<Rendered(f)[1]>>
         /\ f = IF Rendered(f) = <<"None">> THEN Absent ELSE Rendered(f)
<1>1. CASE f = Absent
  BY <1>1 DEF Rendered
<1>2. CASE f # Absent
  <2>1. f \in Seq(STRING) /\ f # <<>> /\ f # <<"None">> /\ ~(Len(f) > 1) /\ Rendered(f) = f
    BY <1>2 DEF Filters, Ambiguous, Rendered
  <2>2. Len(f) \in Nat \ {0}
    <3>1. \A g \in Seq(STRING) : g # <<>> => Len(g) \in Nat \ {0}
      BY EmptySeq, Zenon
    <3> QED
      BY <2>1, <3>1
  <2>3. Len(f) = 1
    <3>1. \A n \in Nat \ {0} : ~(n > 1) => n = 1
      OBVIOUS
    <3>2. ~(Len(f) > 1)
      BY <2>1
    <3> QED
      BY <2>2, <3>1, <3>2
  <2>4. f = <<f[1]>>
    BY <2>1, <2>3
  <2> QED
    BY <2>1, <2>3, <2>4
<1> QED
  BY <1>1, <1>2

(* Equal keys of requests without ambiguous filters have equal filters. *)
LEMMA PlainKeys ==
  ASSUME NEW q \in Requests, NEW r \in Requests, Key(q) = Key(r),
         ~Ambiguous(q.status), ~Ambiguous(q.priority),
         ~Ambiguous(r.status), ~Ambiguous(r.priority)
  PROVE  q.status = r.status /\ q.priority = r.priority
<1>1. q.status \in Filters /\ q.priority \in Filters /\ r.status \in Filters /\ r.priority \in Filters
  BY RequestParts
<1>2. /\ Len(Rendered(q.status)) = 1 /\ Len(Rendered(q.priority)) = 1
      /\ Len(Rendered(r.status)) = 1 /\ Len(Rendered(r.priority)) = 1
  BY <1>1, PlainFilter
<1>3. Rendered(q.status)[1] = Key(q)[4 + 1] /\ Rendered(r.status)[1] = Key(r)[4 + 1]
  BY <1>2, KeyParts
<1>4. Rendered(q.priority)[1] = Key(q)[5 + 1 + 1] /\ Rendered(r.priority)[1] = Key(r)[5 + 1 + 1]
  BY <1>2, KeyParts
<1>5. Rendered(q.status) = Rendered(r.status)
  BY <1>1, <1>3, PlainFilter
<1>6. Rendered(q.priority) = Rendered(r.priority)
  BY <1>1, <1>4, PlainFilter
<1> QED
  BY <1>1, <1>5, <1>6, PlainFilter

-----------------------------------------------------------------------------
LEMMA ListType ==
  ASSUME TypeOK, NEW r \in Requests
  PROVE  List(r) \in Lists /\ List(r) # None
<1>1. r.user \in Users /\ r.status \in Filters /\ r.priority \in Filters
  BY RequestParts
<1>2. version[r.user] \in Nat
  BY <1>1 DEF TypeOK
<1>3. Applied(r.status) \in Filters /\ Applied(r.priority) \in Filters
  BY <1>1 DEF Applied, Filters
<1> QED
  BY <1>1, <1>2, <1>3, NoneAssumption DEF List, Lists

LEMMA InitIInv == Init => IInv
BY NoneAssumption DEF Init, IInv, TypeOK, CacheRight, ServedRight

LEMMA GetAllTasksInv ==
  ASSUME IInv, NEW r \in Requests, GetAllTasks(r)
  PROVE  IInv'
<1> DEFINE list == IF cache[Key(r)] # None THEN cache[Key(r)] ELSE List(r)
<1>1. /\ served' = [asked |-> r, got |-> list]
      /\ cache' = [cache EXCEPT ![Key(r)] = list]
      /\ version' = version
  BY DEF GetAllTasks
<1>2. Key(r) \in Keys
  BY DEF Keys
<1>3. PICK q \in Requests : Key(q) = Key(r) /\ list = List(q)
  BY <1>2 DEF IInv, CacheRight
<1>4. list \in Lists /\ list # None
  BY <1>3, ListType DEF IInv
<1>5. \A x \in Requests : List(x)' = List(x)
  BY <1>1 DEF List
<1> HIDE DEF list
<1>6. TypeOK'
  BY <1>1, <1>2, <1>4 DEF IInv, TypeOK, Answers
<1>7. CacheRight'
  <2> SUFFICES ASSUME NEW k \in Keys, cache'[k] # None
               PROVE  \E x \in Requests : Key(x) = k /\ cache'[k] = List(x)
    BY <1>5 DEF CacheRight
  <2>1. CASE k = Key(r)
    BY <1>1, <1>2, <1>3, <2>1 DEF IInv, TypeOK
  <2>2. CASE k # Key(r)
    BY <1>1, <2>2 DEF IInv, TypeOK, CacheRight
  <2> QED
    BY <2>1, <2>2
<1>8. ServedRight'
  BY <1>1, <1>3, <1>5 DEF ServedRight
<1> QED
  BY <1>6, <1>7, <1>8 DEF IInv

(* What a write leaves in the cache belongs to other users. *)
LEMMA WriteInv ==
  ASSUME IInv, NEW u \in Users, Write(u)
  PROVE  IInv'
<1>1. TypeOK'
  BY DEF IInv, TypeOK, Write
<1>2. CacheRight'
  <2> SUFFICES ASSUME NEW k \in Keys, cache'[k] # None
               PROVE  \E x \in Requests : Key(x) = k /\ cache'[k] = List(x)'
    BY DEF CacheRight
  <2>1. ~Matches(u, k) /\ cache'[k] = cache[k]
    BY DEF Write
  <2>2. PICK x \in Requests : Key(x) = k /\ cache[k] = List(x)
    BY <2>1 DEF IInv, CacheRight
  <2>3. x.user # u
    BY <2>1, <2>2, InvalidationFinds
  <2>4. version'[x.user] = version[x.user]
    BY <2>3, RequestParts DEF Write, IInv, TypeOK
  <2> QED
    BY <2>1, <2>2, <2>4 DEF List
<1>3. ServedRight'
  BY DEF Write, ServedRight
<1> QED
  BY <1>1, <1>2, <1>3 DEF IInv

LEMMA Invariance == Spec => []IInv
<1>1. IInv /\ [Next]_vars => IInv'
  <2> SUFFICES ASSUME IInv, [Next]_vars
               PROVE  IInv'
    OBVIOUS
  <2>1. CASE UNCHANGED vars
    BY <2>1 DEF vars, IInv, TypeOK, CacheRight, ServedRight, List
  <2> QED
    BY <2>1, GetAllTasksInv, WriteInv DEF Next
<1> QED
  BY InitIInv, <1>1, PTL DEF Spec

-----------------------------------------------------------------------------
(* No texts, whatever their colons, lead to another user's list or to one  *)
(* from before the user's last write.                                      *)
THEOREM OwnAndFresh == Spec => []ServedOwnAndFresh
<1>1. IInv => ServedOwnAndFresh
  <2> SUFFICES ASSUME IInv, served # None
               PROVE  /\ served.got.user = served.asked.user
                      /\ served.got.version = version[served.asked.user]
    BY DEF ServedOwnAndFresh
  <2>1. served.asked \in Requests
    BY DEF IInv, TypeOK, Answers
  <2>2. PICK q \in Requests : Key(q) = Key(served.asked) /\ served.got = List(q)
    BY DEF IInv, ServedRight
  <2> QED
    BY <2>1, <2>2, SameKeySameUser DEF List
<1> QED
  BY <1>1, Invariance, PTL

(* Filters that clients are meant to use are never mixed up. *)
THEOREM OnlyAmbiguousMixed == Spec => []MixUpsAmbiguous
<1>1. IInv => MixUpsAmbiguous
  <2> SUFFICES ASSUME IInv, served # None,
                      \A f \in {served.got.status, served.got.priority,
                                served.asked.status, served.asked.priority} : ~Ambiguous(f)
               PROVE  /\ served.got.status = Applied(served.asked.status)
                      /\ served.got.priority = Applied(served.asked.priority)
    BY DEF MixUpsAmbiguous
  <2>1. served.asked \in Requests
    BY DEF IInv, TypeOK, Answers
  <2>2. PICK q \in Requests : Key(q) = Key(served.asked) /\ served.got = List(q)
    BY DEF IInv, ServedRight
  <2>3. served.got.status = Applied(q.status) /\ served.got.priority = Applied(q.priority)
    BY <2>2 DEF List
  <2>4. ~Ambiguous(<<"">>)
    BY DEF Ambiguous
  <2>5. ~Ambiguous(q.status) /\ ~Ambiguous(q.priority)
    BY <2>3, <2>4 DEF Applied
  <2>6. q.status = served.asked.status /\ q.priority = served.asked.priority
    BY <2>1, <2>2, <2>5, PlainKeys
  <2> QED
    BY <2>3, <2>6
<1> QED
  BY <1>1, Invariance, PTL
=============================================================================
