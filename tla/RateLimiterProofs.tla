-------------------------- MODULE RateLimiterProofs --------------------------
(***************************************************************************)
(* Proofs about RateLimiter for any clients, limit and window.  At most    *)
(* one request is ever about to set the deadline, and exactly when the key *)
(* has none and none was lost; so the requests let through are counted.    *)
(***************************************************************************)
EXTENDS RateLimiter, FiniteSetTheorems, TLAPS

Setting == {c \in Clients : client[c] = "expire"}

(* Two requests are never about to set the deadline of one key. *)
OneSetter == \A c, d \in Setting : c = d

SetterIffNeeded == Setting # {} <=> (count > 0 /\ ttl = NoDeadline /\ ~lost)

(* Those let through, and the one that will be, were counted. *)
PassedCounted ==
  LET going == passed + (IF Setting = {} THEN 0 ELSE 1)
  IN going <= count /\ going <= Limit

(* A key that is gone takes its deadline with it. *)
FreshStart == count = 0 => ttl = NoDeadline /\ ~lost

IInv == TypeOK /\ FreshStart /\ OneSetter /\ SetterIffNeeded /\ PassedCounted

-----------------------------------------------------------------------------
LEMMA Constants == Limit \in Nat /\ Limit > 0 /\ Seconds \in 1 .. Seconds
                   /\ MaxCount \in Nat /\ NoDeadline = Seconds + 1 /\ Seconds \in Nat
BY RateAssumption DEF NoDeadline

LEMMA InvInit == Init => IInv
<1> SUFFICES ASSUME Init PROVE IInv
  OBVIOUS
<1>1. Setting = {}
  BY DEF Init, Setting
<1>2. TypeOK
  <2>1. count \in 0 .. MaxCount /\ passed \in 0 .. MaxCount /\ ttl \in 1 .. NoDeadline
    BY Constants DEF Init
  <2>2. client \in [Clients -> {"idle", "incr", "expire", "admitted", "rejected"}]
    BY DEF Init
  <2>3. lost \in BOOLEAN
    BY DEF Init
  <2> QED
    BY <2>1, <2>2, <2>3 DEF TypeOK
<1> QED
  BY <1>1, <1>2, Constants DEF Init, IInv, FreshStart, OneSetter, SetterIffNeeded, PassedCounted

(* A step that takes c neither to nor from EXPIRE leaves Setting alone. *)
LEMMA SettingSame ==
  ASSUME TypeOK, NEW c \in Clients, NEW p \in {"idle", "incr", "admitted", "rejected"},
         client[c] # "expire", Goes(c, p)
  PROVE  /\ Setting' = Setting
         /\ client' \in [Clients -> {"idle", "incr", "expire", "admitted", "rejected"}]
BY DEF TypeOK, Goes, Setting

LEMMA SettingEnds ==
  ASSUME TypeOK, OneSetter, NEW c \in Clients, NEW p \in {"idle", "admitted"},
         client[c] = "expire", Goes(c, p)
  PROVE  /\ Setting' = {}
         /\ client' \in [Clients -> {"idle", "incr", "expire", "admitted", "rejected"}]
BY DEF TypeOK, Goes, Setting, OneSetter

LEMMA InvNext == IInv /\ [Next]_vars => IInv'
<1> SUFFICES ASSUME IInv, [Next]_vars PROVE IInv'
  OBVIOUS
<1> USE Constants
<1>1. ASSUME NEW c \in Clients, Request(c) PROVE IInv'
  BY <1>1, SettingSame
  DEF IInv, Request, TypeOK, FreshStart, OneSetter, SetterIffNeeded, PassedCounted
<1>2. ASSUME NEW c \in Clients, Incr(c) PROVE IInv'
  <2>1. CASE count = 0
    <3>1. Setting = {} /\ passed = 0
      BY <2>1 DEF IInv, SetterIffNeeded, PassedCounted, TypeOK
    <3>2. Setting' = {c}
      BY <1>2, <2>1, <3>1 DEF Incr, Goes, Setting, IInv, TypeOK
    <3>3. count' = 1 /\ passed' = 0 /\ UNCHANGED <<ttl, lost>>
      BY <1>2, <2>1, <3>1 DEF Incr, IInv, TypeOK
    <3>4. TypeOK'
      BY <1>2, <2>1, <3>3, RateAssumption DEF IInv, TypeOK, Incr, Goes
    <3>5. ttl = NoDeadline /\ ~lost
      BY <2>1 DEF IInv, FreshStart
    <3> QED
      BY <3>2, <3>3, <3>4, <3>5 DEF IInv, FreshStart, OneSetter, SetterIffNeeded, PassedCounted
  <2>2. CASE count # 0
    <3>1. PICK p \in {"admitted", "rejected"} : Goes(c, p)
      BY <1>2, <2>2 DEF Incr, IInv, TypeOK
    <3>2. Setting' = Setting
          /\ client' \in [Clients -> {"idle", "incr", "expire", "admitted", "rejected"}]
      BY <1>2, <3>1, SettingSame DEF IInv, Incr
    <3>3. count' = count + 1 /\ UNCHANGED <<ttl, lost>>
          /\ passed' = IF count \in 1 .. Limit - 1 THEN passed + 1 ELSE passed
      BY <1>2 DEF Incr
    <3>4. passed' \in 0 .. MaxCount /\ PassedCounted'
      BY <2>2, <3>2, <3>3, RateAssumption DEF IInv, PassedCounted, TypeOK
    <3> QED
      BY <1>2, <2>2, <3>2, <3>3, <3>4 DEF IInv, TypeOK, Incr, FreshStart, OneSetter, SetterIffNeeded
  <2> QED
    BY <2>1, <2>2
<1>3. ASSUME NEW c \in Clients, IncrFails(c) PROVE IInv'
  <2>1. Setting' = Setting
        /\ client' \in [Clients -> {"idle", "incr", "expire", "admitted", "rejected"}]
    BY <1>3, SettingSame DEF IInv, IncrFails
  <2>2. CASE UNCHANGED <<count, lost>>
    BY <1>3, <2>1, <2>2
    DEF IInv, IncrFails, TypeOK, FreshStart, OneSetter, SetterIffNeeded, PassedCounted
  <2>3. CASE count < MaxCount /\ count' = count + 1 /\ lost' = (lost \/ count = 0)
    <3>1. UNCHANGED <<ttl, passed>>
      BY <1>3 DEF IncrFails
    <3>2. count' \in 0 .. MaxCount /\ count' > 0
      BY <2>3 DEF IInv, TypeOK
    <3>3. lost' \in BOOLEAN
      BY <2>3
    <3>4. SetterIffNeeded'
      <4>1. CASE count = 0
        <5>1. Setting = {} /\ lost'
          <6>1. lost'
            BY <2>3, <4>1, Zenon
          <6>2. Setting = {}
            BY <4>1 DEF IInv, SetterIffNeeded
          <6> QED
            BY <6>1, <6>2
        <5> QED
          BY <2>1, <5>1 DEF SetterIffNeeded
      <4>2. CASE count > 0
        <5>1. lost' <=> lost
          <6>1. count # 0
            BY <4>2 DEF IInv, TypeOK
          <6> QED
            BY <2>3, <6>1, Zenon
        <5> QED
          BY <2>1, <3>1, <3>2, <4>2, <5>1 DEF IInv, SetterIffNeeded
      <4> QED
        BY <4>1, <4>2 DEF IInv, TypeOK
    <3> QED
      BY <2>1, <2>3, <3>1, <3>2, <3>3, <3>4
      DEF IInv, TypeOK, FreshStart, OneSetter, PassedCounted
  <2> QED
    BY <1>3, <2>2, <2>3 DEF IncrFails
<1>4. ASSUME NEW c \in Clients, Expire(c) \/ ExpireFails(c) PROVE IInv'
  <2>1. client[c] = "expire" /\ Goes(c, "admitted") /\ c \in Setting
    BY <1>4 DEF Expire, ExpireFails, Setting
  <2>2. Setting' = {}
        /\ client' \in [Clients -> {"idle", "incr", "expire", "admitted", "rejected"}]
    BY <2>1, SettingEnds DEF IInv
  <2>3. UNCHANGED count /\ count > 0 /\ passed' = passed + 1 /\ passed + 1 <= Limit
        /\ passed + 1 <= count
    BY <1>4, <2>1 DEF Expire, ExpireFails, IInv, SetterIffNeeded, PassedCounted
  <2>4. ttl' \in 1 .. NoDeadline /\ lost' \in BOOLEAN /\ (ttl' # NoDeadline \/ lost')
    <3>1. lost \in BOOLEAN /\ ttl \in 1 .. NoDeadline
      BY DEF IInv, TypeOK
    <3>2. Seconds \in 1 .. NoDeadline /\ Seconds # NoDeadline
      OBVIOUS
    <3>3. CASE ttl' = Seconds /\ UNCHANGED lost
      BY <3>1, <3>2, <3>3
    <3>4. CASE lost' = TRUE /\ UNCHANGED ttl
      BY <3>1, <3>4
    <3> QED
      BY <1>4, <3>3, <3>4 DEF Expire, ExpireFails
  <2> QED
    BY <2>2, <2>3, <2>4
    DEF IInv, TypeOK, FreshStart, OneSetter, SetterIffNeeded, PassedCounted
<1>5. ASSUME NEW c \in Clients, Dies(c) PROVE IInv'
  <2>1. UNCHANGED <<count, ttl, passed>> /\ Goes(c, "idle")
    BY <1>5 DEF Dies
  <2>2. CASE client[c] = "incr"
    <3>1. lost' <=> lost
      BY <1>5, <2>2 DEF Dies
    <3>2. Setting' = Setting
          /\ client' \in [Clients -> {"idle", "incr", "expire", "admitted", "rejected"}]
      BY <2>1, <2>2, SettingSame DEF IInv
    <3>3. lost' \in BOOLEAN
      BY <1>5 DEF Dies
    <3> QED
      BY <2>1, <3>1, <3>2, <3>3
      DEF IInv, TypeOK, FreshStart, OneSetter, SetterIffNeeded, PassedCounted
  <2>3. CASE client[c] = "expire"
    <3>1. Setting' = {}
          /\ client' \in [Clients -> {"idle", "incr", "expire", "admitted", "rejected"}]
      BY <2>1, <2>3, SettingEnds DEF IInv
    <3>2. lost' \in BOOLEAN /\ lost'
      BY <1>5, <2>3 DEF Dies
    <3>3. count > 0
      BY <2>3 DEF IInv, SetterIffNeeded, Setting
    <3> QED
      BY <2>1, <3>1, <3>2, <3>3
      DEF IInv, TypeOK, FreshStart, OneSetter, SetterIffNeeded, PassedCounted
  <2> QED
    BY <1>5, <2>2, <2>3 DEF Dies
<1>6. ASSUME Tick PROVE IInv'
  <2>1. Setting = {} /\ Setting' = Setting /\ UNCHANGED client
    BY <1>6 DEF Tick, IInv, SetterIffNeeded, Setting
  <2>2. CASE ttl > 1
    BY <1>6, <2>1, <2>2
    DEF Tick, IInv, TypeOK, FreshStart, OneSetter, SetterIffNeeded, PassedCounted
  <2>3. CASE ~(ttl > 1)
    <3>1. ttl' = NoDeadline /\ count' = 0 /\ passed' = 0 /\ ~lost' /\ lost' \in BOOLEAN
      BY <1>6, <2>3 DEF Tick
    <3>2. TypeOK'
      BY <2>1, <3>1 DEF IInv, TypeOK
    <3> QED
      BY <2>1, <3>1, <3>2 DEF IInv, FreshStart, OneSetter, SetterIffNeeded, PassedCounted
  <2> QED
    BY <2>2, <2>3
<1>7. CASE UNCHANGED vars
  BY <1>7 DEF vars, IInv, TypeOK, FreshStart, OneSetter, SetterIffNeeded, PassedCounted, Setting
<1> QED
  BY <1>1, <1>2, <1>3, <1>4, <1>5, <1>6, <1>7 DEF Next, Step

LEMMA Invariance == Spec => []IInv
BY InvInit, InvNext, PTL DEF Spec

(* Setting has no element or one. *)
LEMMA SettingSize ==
  ASSUME OneSetter
  PROVE  Cardinality(Setting) = IF Setting = {} THEN 0 ELSE 1
<1>1. CASE Setting = {}
  BY <1>1, FS_EmptySet
<1>2. CASE Setting # {}
  <2>1. PICK c \in Setting : TRUE
    BY <1>2
  <2>2. Setting = {c}
    BY <2>1 DEF OneSetter
  <2> QED
    BY <2>2, FS_Singleton
<1> QED
  BY <1>1, <1>2

-----------------------------------------------------------------------------
(* Every variable keeps its type. *)
THEOREM TypeCorrect == Spec => []TypeOK
<1>1. IInv => TypeOK
  BY DEF IInv
<1> QED
  BY <1>1, Invariance, PTL

(* In one life of the key at most Limit of the counted requests pass. *)
THEOREM LimitKept == Spec => []AtMostLimitPass
<1>1. IInv => AtMostLimitPass
  BY SettingSize DEF IInv, PassedCounted, AtMostLimitPass, Setting
<1> QED
  BY <1>1, Invariance, PTL

(* A key without a deadline has exactly one request about to set it, or    *)
(* its EXPIRE is known to be lost.                                         *)
THEOREM DeadlineSet == Spec => []OneSetsDeadline
<1>1. IInv => OneSetsDeadline
  <2> SUFFICES ASSUME IInv PROVE OneSetsDeadline
    OBVIOUS
  <2>1. Cardinality(Setting) = IF Setting = {} THEN 0 ELSE 1
    BY SettingSize DEF IInv
  <2>2. count \in Nat
    BY DEF IInv, TypeOK
  <2> QED
    BY <2>1, <2>2 DEF IInv, SetterIffNeeded, OneSetsDeadline, Setting
<1> QED
  BY <1>1, Invariance, PTL

-----------------------------------------------------------------------------
(* What every step does to the deadline and the count. *)
LEMMA WindowStep ==
  ASSUME IInv, Next
  PROVE  /\ ttl # NoDeadline =>
              \/ ttl' = ttl /\ count' >= count
              \/ ttl > 1 /\ ttl' = ttl - 1 /\ count' = count
              \/ ttl = 1 /\ count' = 0
         /\ lost /\ ttl = NoDeadline =>
              lost' /\ ttl' = NoDeadline /\ count' >= count
         /\ ~lost /\ lost' => ttl' = NoDeadline
<1>1. /\ count \in Nat /\ ttl \in Nat /\ lost \in BOOLEAN
      /\ FreshStart /\ SetterIffNeeded
  BY DEF IInv, TypeOK
<1>2. CASE Tick
  <2>1. ttl # NoDeadline /\ count > 0
    BY <1>2 DEF Tick
  <2>2. CASE ttl > 1
    BY <1>1, <1>2, <2>1, <2>2 DEF Tick
  <2>3. CASE ~(ttl > 1)
    <3>1. ttl = 1
      BY <2>3 DEF IInv, TypeOK
    <3> QED
      BY <1>2, <2>1, <2>3, <3>1 DEF Tick
  <2> QED
    BY <2>2, <2>3
<1>3. ASSUME NEW c \in Clients, Request(c) \/ Incr(c)
      PROVE  UNCHANGED <<ttl, lost>> /\ count' >= count
  BY <1>1, <1>3 DEF Request, Incr
<1>4. ASSUME NEW c \in Clients, IncrFails(c)
      PROVE  /\ ttl' = ttl /\ count' >= count /\ (lost => lost')
             /\ ~lost /\ lost' => ttl = NoDeadline
  BY <1>1, <1>4 DEF IncrFails, FreshStart
<1>5. ASSUME NEW c \in Clients, client[c] = "expire"
      PROVE  ttl = NoDeadline /\ ~lost
  BY <1>1, <1>5 DEF Setting, SetterIffNeeded
<1>6. ASSUME NEW c \in Clients, Expire(c) \/ ExpireFails(c) \/ Dies(c)
      PROVE  /\ ttl # NoDeadline \/ lost => UNCHANGED <<ttl, lost>>
             /\ count' = count
             /\ ~lost /\ lost' => ttl' = NoDeadline
  <2>1. CASE client[c] = "expire"
    BY <1>5, <1>6, <2>1 DEF Expire, ExpireFails, Dies
  <2>2. CASE client[c] # "expire"
    <3>1. UNCHANGED <<count, ttl>> /\ lost' = (lost \/ client[c] = "expire")
      BY <1>6, <2>2 DEF Expire, ExpireFails, Dies
    <3>2. lost' = lost
      BY <1>1, <2>2, <3>1
    <3> QED
      BY <3>1, <3>2
  <2> QED
    BY <2>1, <2>2
<1>7. CASE \E c \in Clients : Request(c) \/ Incr(c)
  BY <1>1, <1>3, <1>7
<1>8. CASE \E c \in Clients : IncrFails(c)
  BY <1>1, <1>4, <1>8
<1>9. CASE \E c \in Clients : Expire(c) \/ ExpireFails(c) \/ Dies(c)
  BY <1>1, <1>6, <1>9
<1> QED
  BY <1>2, <1>7, <1>8, <1>9 DEF Next, Step

(* The window is fixed: once a key has its deadline no request, however    *)
(* late its EXPIRE, moves it away or takes a count back, and the key goes  *)
(* when its time is over.                                                  *)
WindowFixed ==
  [][ttl # NoDeadline =>
       \/ ttl' = ttl /\ count' >= count
       \/ ttl > 1 /\ ttl' = ttl - 1 /\ count' = count
       \/ ttl = 1 /\ count' = 0]_vars

(* Counting or a late EXPIRE never moves the end of a window. *)
THEOREM FixedWindow == Spec => WindowFixed
<1>1. IInv /\ [Next]_vars =>
        [ttl # NoDeadline =>
           \/ ttl' = ttl /\ count' >= count
           \/ ttl > 1 /\ ttl' = ttl - 1 /\ count' = count
           \/ ttl = 1 /\ count' = 0]_vars
  BY WindowStep
<1> QED
  BY <1>1, Invariance, PTL DEF Spec, WindowFixed

(* A key whose EXPIRE was lost never gets a deadline: it only counts up,   *)
(* so once over the limit it blocks for good.                              *)
LostStaysLost ==
  [][lost => lost' /\ ttl' = NoDeadline /\ count' >= count]_vars

(* The limiter does not repair a lost EXPIRE by itself. *)
THEOREM LostForGood == Spec => LostStaysLost
<1> DEFINE LostInv == lost => ttl = NoDeadline
<1>1. Init => LostInv
  BY DEF Init
<1>2. IInv /\ LostInv /\ [Next]_vars => LostInv'
  <2> SUFFICES ASSUME IInv, LostInv, [Next]_vars
               PROVE  LostInv'
    OBVIOUS
  <2>1. lost \in BOOLEAN
    BY DEF IInv, TypeOK
  <2>2. CASE Next
    <3>1. CASE lost
      BY <2>2, <3>1, WindowStep DEF NoDeadline
    <3>2. CASE ~lost
      BY <2>2, <3>2, WindowStep DEF NoDeadline
    <3> QED
      BY <3>1, <3>2
  <2>3. CASE UNCHANGED vars
    BY <2>3 DEF vars, NoDeadline
  <2> QED
    BY <2>2, <2>3
<1>3. IInv /\ LostInv /\ [Next]_vars =>
        [lost => lost' /\ ttl' = NoDeadline /\ count' >= count]_vars
  BY WindowStep
<1> QED
  BY <1>1, <1>2, <1>3, Invariance, PTL DEF Spec, LostStaysLost
=============================================================================
