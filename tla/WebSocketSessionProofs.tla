----------------------- MODULE WebSocketSessionProofs -----------------------
(***************************************************************************)
(* Proofs about WebSocketSession for any number of sessions, of any users, *)
(* at a time.  A step belongs to one socket; the invariant is a            *)
(* conjunction over the sockets of what holds of each alone, so that a     *)
(* step has to be looked at for its own socket only (OneSocket).           *)
(***************************************************************************)
EXTENDS WebSocketSession, SequenceTheorems, TLAPS

(* The dictionaries agree, and a registered socket can be written to until *)
(* its handler closes it on its way out.                                   *)
Agrees(w) ==
  /\ w \in sendLocks <=> Registered(w)
  /\ Registered(w) => \/ wire[w] = "connected"
                      \/ wire[w] = "closed" /\ handler[w] = "closing"
  /\ handler[w] \in {"authenticating", "rejecting", "accepting"} => ~Registered(w)
  /\ handler[w] \in {"unsubscribing", "closingPubsub", "ended"} => ~Registered(w)

In(q, d) == \E i \in DOMAIN q : q[i] = d
NoRepeat(q) == \A i, j \in DOMAIN q : q[i] = q[j] => i = j

(* Those inside send_to_connection, and each of them once. *)
Senders(w) ==
  {<<w, t>> : t \in {t \in Tasks : task[w][t] = "sending"}}
    \cup {<<w, r>> : r \in {r \in {"handler"} : handler[w] = "greeting"}}

Queues(w) ==
  /\ \A c \in Callers : InSend(c, w) <=> c \in Senders(w)
  /\ ~In(waiters[w], holder[w]) /\ NoRepeat(waiters[w])
  /\ handler[w] = "greeting" => holder[w] = <<w, "handler">>

Early == {"authenticating", "rejecting", "accepting", "greeting", "subscribing"}

(* Where the tasks are in each phase of the handler.  While it reaps, only *)
(* the last task it awaits can have ended otherwise than by being          *)
(* cancelled, since one task had ended before the first was cancelled.     *)
Phases(w) ==
  /\ handler[w] \in Early => /\ \A t \in Tasks : task[w][t] = "none"
                             /\ ~subscribed[w]
  /\ handler[w] # "reaping" => victim[w] = "none"
  /\ handler[w] = "waiting" => \A t \in Tasks : task[w][t] # "none"
  /\ handler[w] = "reaping" =>
       /\ victim[w] \in pending[w]
       /\ pending[w] # Tasks
       /\ \A t \in Tasks : task[w][t] # "none"
       /\ \A t \in Tasks \ pending[w] : task[w][t] \in Outcomes
       /\ task[w][victim[w]] \in Running \cup {"cancelled"} \/ pending[w] = {victim[w]}
  /\ handler[w] \in Leaving => \A t \in Tasks : task[w][t] \notin Running
  /\ handler[w] = "ended" => ~subscribed[w]

SInv(w) == Agrees(w) /\ Queues(w) /\ Phases(w)

IInv == TypeOK /\ \A w \in Sockets : SInv(w)

-----------------------------------------------------------------------------
(* Queues of callers.                                                      *)

LEMMA AppendQueue ==
  ASSUME NEW q \in Seq(Callers), NEW c \in Callers
  PROVE  /\ Append(q, c) \in Seq(Callers)
         /\ \A d : In(Append(q, c), d) <=> (In(q, d) \/ d = c)
         /\ NoRepeat(q) /\ ~In(q, c) => NoRepeat(Append(q, c))
<1>1. /\ Append(q, c) \in Seq(Callers)
      /\ DOMAIN Append(q, c) = DOMAIN q \cup {Len(q) + 1}
      /\ Append(q, c)[Len(q) + 1] = c
      /\ \A i \in DOMAIN q : Append(q, c)[i] = q[i] /\ i # Len(q) + 1
  OBVIOUS
<1>2. \A d : In(Append(q, c), d) <=> (In(q, d) \/ d = c)
  BY <1>1, Zenon DEF In
<1>3. ASSUME NoRepeat(q), ~In(q, c) PROVE NoRepeat(Append(q, c))
  BY <1>1, <1>3 DEF In, NoRepeat
<1> QED
  BY <1>1, <1>2, <1>3

LEMMA TailQueue ==
  ASSUME NEW q \in Seq(Callers), q # <<>>
  PROVE  /\ Tail(q) \in Seq(Callers)
         /\ Head(q) \in Callers
         /\ In(q, Head(q))
         /\ \A d : In(q, d) <=> (In(Tail(q), d) \/ d = Head(q))
         /\ NoRepeat(q) => NoRepeat(Tail(q)) /\ ~In(Tail(q), Head(q))
<1>1. /\ Tail(q) \in Seq(Callers)
      /\ Head(q) = q[1] /\ 1 \in DOMAIN q
      /\ \A i \in DOMAIN Tail(q) : i + 1 \in DOMAIN q /\ Tail(q)[i] = q[i + 1] /\ i + 1 # 1
      /\ \A i \in DOMAIN q : i # 1 => i - 1 \in DOMAIN Tail(q) /\ Tail(q)[i - 1] = q[i]
      /\ \A i \in DOMAIN Tail(q) : i \in Nat
  OBVIOUS
<1>2. \A d : In(q, d) <=> (In(Tail(q), d) \/ d = Head(q))
  BY <1>1 DEF In
<1>3. ASSUME NoRepeat(q) PROVE NoRepeat(Tail(q)) /\ ~In(Tail(q), Head(q))
  BY <1>1, <1>3 DEF In, NoRepeat
<1> QED
  BY <1>1, <1>2, <1>3 DEF In

LEMMA RemoveQueue ==
  ASSUME NEW q \in Seq(Callers), NEW k \in DOMAIN q
  PROVE  /\ RemoveAt(q, k) \in Seq(Callers)
         /\ \A d : d # q[k] => (In(q, d) <=> In(RemoveAt(q, k), d))
         /\ NoRepeat(q) => NoRepeat(RemoveAt(q, k)) /\ ~In(RemoveAt(q, k), q[k])
<1> DEFINE r == RemoveAt(q, k)
<1>1. k \in 1 .. Len(q)
  OBVIOUS
<1> DEFINE a == SubSeq(q, 1, k - 1)
           b == SubSeq(q, k + 1, Len(q))
<1>2. /\ a \in Seq(Callers) /\ Len(a) = k - 1 /\ \A i \in 1 .. k - 1 : a[i] = q[i]
      /\ b \in Seq(Callers) /\ Len(b) = Len(q) - k
      /\ \A i \in 1 .. Len(q) - k : b[i] = q[k + i]
  <2>1. \A i \in 1 .. k - 1 : q[i] \in Callers
    BY <1>1
  <2>2. \A i \in k + 1 .. Len(q) : q[i] \in Callers
    BY <1>1
  <2> QED
    BY <1>1, <2>1, <2>2, SubSeqProperties
<1>3. /\ r \in Seq(Callers) /\ Len(r) = Len(q) - 1
      /\ \A i \in 1 .. Len(q) - 1 : r[i] = IF i <= k - 1 THEN a[i] ELSE b[i - (k - 1)]
  <2> HIDE DEF a, b
  <2>1. r = a \o b
    BY DEF RemoveAt, a, b
  <2>2. /\ a \o b \in Seq(Callers) /\ Len(a \o b) = Len(q) - 1
        /\ \A i \in 1 .. Len(a) + Len(b) :
             (a \o b)[i] = IF i <= Len(a) THEN a[i] ELSE b[i - Len(a)]
    <3>1. a \in Seq(Callers) /\ b \in Seq(Callers)
      BY <1>2
    <3>2. /\ a \o b \in Seq(Callers) /\ Len(a \o b) = Len(a) + Len(b)
          /\ \A i \in 1 .. Len(a) + Len(b) :
               (a \o b)[i] = IF i <= Len(a) THEN a[i] ELSE b[i - Len(a)]
      BY <3>1, ConcatProperties
    <3>3. Len(a) + Len(b) = Len(q) - 1
      BY <1>1, <1>2
    <3> QED
      BY <3>2, <3>3
  <2> QED
    BY <1>1, <1>2, <2>1, <2>2
<1>4. \A i \in 1 .. Len(q) - 1 : r[i] = IF i < k THEN q[i] ELSE q[i + 1]
  <2> HIDE DEF a, b, r
  <2> TAKE i \in 1 .. Len(q) - 1
  <2>1. CASE i < k
    BY <1>1, <1>2, <1>3, <2>1
  <2>2. CASE ~(i < k)
    <3>1. i - (k - 1) \in 1 .. Len(q) - k /\ k + (i - (k - 1)) = i + 1
      BY <1>1, <2>2
    <3>2. r[i] = b[i - (k - 1)]
      BY <1>1, <1>3, <2>2
    <3>3. b[i - (k - 1)] = q[k + (i - (k - 1))]
      BY <1>2, <3>1
    <3> QED
      BY <2>2, <3>1, <3>2, <3>3
  <2> QED
    BY <2>1, <2>2
<1>5. DOMAIN r = 1 .. Len(q) - 1 /\ DOMAIN q = 1 .. Len(q) /\ Len(q) \in Nat
  BY <1>3
<1> HIDE DEF r
<1>6. ASSUME NEW d, d # q[k] PROVE In(q, d) <=> In(r, d)
  <2>1. ASSUME NEW i \in DOMAIN q, q[i] = d PROVE In(r, d)
    <3>1. CASE i < k
      BY <1>1, <1>4, <1>5, <2>1, <3>1 DEF In
    <3>2. CASE ~(i < k)
      <4>1. i - 1 \in DOMAIN r /\ r[i - 1] = q[i]
        BY <1>1, <1>4, <1>5, <1>6, <2>1, <3>2
      <4> QED
        BY <2>1, <4>1 DEF In
    <3> QED
      BY <3>1, <3>2
  <2>2. ASSUME NEW i \in DOMAIN r, r[i] = d PROVE In(q, d)
    <3>1. i \in DOMAIN q /\ i + 1 \in DOMAIN q
      BY <1>5
    <3> QED
      BY <1>4, <1>5, <2>2, <3>1 DEF In
  <2> QED
    BY <2>1, <2>2 DEF In
<1>7. ASSUME NoRepeat(q) PROVE NoRepeat(r) /\ ~In(r, q[k])
  <2>1. \A i \in DOMAIN r : \E m \in DOMAIN q :
          r[i] = q[m] /\ m # k /\ m = IF i < k THEN i ELSE i + 1
    BY <1>1, <1>4, <1>5
  <2>2. ~In(r, q[k])
    BY <1>7, <2>1 DEF In, NoRepeat
  <2>3. ASSUME NEW i \in DOMAIN r, NEW j \in DOMAIN r, r[i] = r[j] PROVE i = j
    <3>1. PICK m \in DOMAIN q : r[i] = q[m] /\ m = IF i < k THEN i ELSE i + 1
      BY <2>1
    <3>2. PICK n \in DOMAIN q : r[j] = q[n] /\ n = IF j < k THEN j ELSE j + 1
      BY <2>1
    <3>3. m = n
      BY <1>7, <2>3, <3>1, <3>2 DEF NoRepeat
    <3> QED
      BY <1>1, <1>5, <3>1, <3>2, <3>3
  <2> QED
    BY <2>2, <2>3 DEF NoRepeat
<1> QED
  BY <1>3, <1>6, <1>7 DEF r

-----------------------------------------------------------------------------
(* What a step of socket w leaves as it is: everything of other sockets.   *)
RegistrySame(w) ==
  \A x \in Sockets \ {w} :
    /\ Registered(x)' <=> Registered(x)
    /\ x \in sendLocks' <=> x \in sendLocks
    /\ wire'[x] = wire[x]

SendersSame(w) ==
  \A x \in Sockets \ {w} : holder'[x] = holder[x] /\ waiters'[x] = waiters[x]

SessionSame(w) ==
  \A x \in Sockets \ {w} :
    /\ handler'[x] = handler[x] /\ task'[x] = task[x] /\ pending'[x] = pending[x]
    /\ victim'[x] = victim[x] /\ subscribed'[x] = subscribed[x]

LEMMA OneSocket ==
  ASSUME IInv, NEW w \in Sockets, TypeOK', SInv(w)',
         RegistrySame(w), SendersSame(w), SessionSame(w)
  PROVE  IInv'
<1> SUFFICES ASSUME NEW x \in Sockets \ {w} PROVE SInv(x)'
  BY DEF IInv
<1>1. SInv(x)
  BY DEF IInv
<1>2. Agrees(x)'
  BY <1>1 DEF SInv, Agrees, RegistrySame, SessionSame
<1>3. Queues(x)'
  <2>1. Senders(x)' = Senders(x)
    BY DEF Senders, SessionSame
  <2>2. \A c \in Callers : InSend(c, x)' <=> InSend(c, x)
    BY DEF InSend, IsWaiting, SendersSame
  <2> QED
    BY <1>1, <2>1, <2>2 DEF SInv, Queues, SendersSame, SessionSame
<1>4. Phases(x)'
  BY <1>1 DEF SInv, Phases, SessionSame
<1> QED
  BY <1>2, <1>3, <1>4 DEF SInv

-----------------------------------------------------------------------------
(* Effects of the operations of ConnectionRegistry.                        *)
LEMMA ConnectEffect ==
  ASSUME TypeOK, NEW w \in Sockets, Connect(w)
  PROVE  /\ activeConnections' \in [Users -> SUBSET Sockets]
         /\ sendLocks' \in SUBSET Sockets
         /\ wire' \in [Sockets -> {"connecting", "connected", "closed"}]
         /\ Registered(w)' /\ w \in sendLocks' /\ wire'[w] = "connected"
         /\ RegistrySame(w)
<1>1. Owner \in [Sockets -> Users]
  BY RegistryAssumption
<1>2. \A x \in Sockets : Registered(x)' <=> (Registered(x) \/ x = w)
  BY <1>1 DEF TypeOK, RegistryTypeOK, Connect, Registered
<1> QED
  BY <1>1, <1>2 DEF TypeOK, RegistryTypeOK, Connect, RegistrySame

LEMMA DisconnectEffect ==
  ASSUME TypeOK, NEW w \in Sockets, w \in sendLocks <=> Registered(w), Disconnect(w)
  PROVE  /\ activeConnections' \in [Users -> SUBSET Sockets]
         /\ sendLocks' \in SUBSET Sockets
         /\ ~Registered(w)' /\ w \notin sendLocks'
         /\ \A x \in Sockets \ {w} : /\ Registered(x)' <=> Registered(x)
                                     /\ x \in sendLocks' <=> x \in sendLocks
<1>1. Owner \in [Sockets -> Users] /\ Owner[w] \in Users
  BY RegistryAssumption
<1>2. activeConnections' \in [Users -> SUBSET Sockets] /\ sendLocks' \in SUBSET Sockets
  <2>1. CASE activeConnections[Owner[w]] = {}
    BY <2>1 DEF TypeOK, RegistryTypeOK, Disconnect
  <2>2. CASE activeConnections[Owner[w]] # {}
    <3>1. activeConnections[Owner[w]] \ {w} \in SUBSET Sockets
      BY <1>1 DEF TypeOK, RegistryTypeOK
    <3> QED
      BY <2>2, <1>1, <3>1 DEF TypeOK, RegistryTypeOK, Disconnect
  <2> QED
    BY <2>1, <2>2
<1>3. \A x \in Sockets : Registered(x)' <=> (Registered(x) /\ x # w)
  <2>1. \A x \in Sockets : Owner[x] \in Users
    BY <1>1
  <2>2. activeConnections'[Owner[w]] = activeConnections[Owner[w]] \ {w}
    BY <1>1 DEF TypeOK, RegistryTypeOK, Disconnect
  <2>3. \A u \in Users : u # Owner[w] => activeConnections'[u] = activeConnections[u]
    BY <1>1 DEF TypeOK, RegistryTypeOK, Disconnect
  <2> QED
    BY <2>1, <2>2, <2>3 DEF Registered
<1>4. sendLocks' = sendLocks \ {w}
  BY DEF Disconnect, Registered
<1> QED
  BY <1>2, <1>3, <1>4

(* The same for a step that disconnects or does not, and closes the socket *)
(* or does not: the forms in which the session uses them.                  *)
LEMMA DropEffect ==
  ASSUME IInv, NEW w \in Sockets,
         Disconnect(w) \/ UNCHANGED <<activeConnections, sendLocks>>,
         CloseWire(w) \/ UNCHANGED wire
  PROVE  /\ activeConnections' \in [Users -> SUBSET Sockets]
         /\ sendLocks' \in SUBSET Sockets
         /\ wire' \in [Sockets -> {"connecting", "connected", "closed"}]
         /\ w \in sendLocks' <=> Registered(w)'
         /\ Registered(w)' => Registered(w)
         /\ Disconnect(w) => ~Registered(w)'
         /\ CloseWire(w) => wire'[w] = "closed"
         /\ wire'[w] \in {wire[w], "closed"}
         /\ RegistrySame(w)
<1>1. TypeOK /\ (w \in sendLocks <=> Registered(w))
  BY DEF IInv, SInv, Agrees
<1>2. /\ activeConnections' \in [Users -> SUBSET Sockets]
      /\ sendLocks' \in SUBSET Sockets
      /\ w \in sendLocks' <=> Registered(w)'
      /\ Registered(w)' => Registered(w)
      /\ Disconnect(w) => ~Registered(w)'
      /\ \A x \in Sockets \ {w} : /\ Registered(x)' <=> Registered(x)
                                  /\ x \in sendLocks' <=> x \in sendLocks
  <2>1. CASE Disconnect(w)
    BY <1>1, <2>1, DisconnectEffect
  <2>2. CASE UNCHANGED <<activeConnections, sendLocks>> /\ ~Disconnect(w)
    BY <1>1, <2>2 DEF Registered, TypeOK, RegistryTypeOK
  <2> QED
    BY <2>1, <2>2
<1>3. /\ wire' \in [Sockets -> {"connecting", "connected", "closed"}]
      /\ CloseWire(w) => wire'[w] = "closed"
      /\ wire'[w] \in {wire[w], "closed"}
      /\ \A x \in Sockets \ {w} : wire'[x] = wire[x]
  BY <1>1 DEF CloseWire, TypeOK, RegistryTypeOK
<1> QED
  BY <1>2, <1>3 DEF RegistrySame

-----------------------------------------------------------------------------
(* A caller that was not inside enters a send, at the end of the queue or  *)
(* past an empty one.                                                      *)
LEMMA SendEnters ==
  ASSUME TypeOK, NEW w \in Sockets, NEW c \in Callers, SInv(w),
         ~InSend(c, w), SendBegins(c, w)
  PROVE  /\ holder' \in [Sockets -> Callers \cup {Nobody}]
         /\ waiters' \in [Sockets -> Seq(Callers)]
         /\ SendersSame(w)
         /\ ~In(waiters'[w], holder'[w]) /\ NoRepeat(waiters'[w])
         /\ \A d \in Callers : InSend(d, w)' <=> (InSend(d, w) \/ d = c)
<1>1. /\ waiters[w] \in Seq(Callers) /\ ~In(waiters[w], holder[w]) /\ NoRepeat(waiters[w])
      /\ ~In(waiters[w], c) /\ holder[w] # c
  BY DEF TypeOK, RegistryTypeOK, SInv, Queues, InSend, IsWaiting, In
<1>2. CASE holder[w] = Nobody /\ waiters[w] = <<>>
  <2>1. holder' = [holder EXCEPT ![w] = c] /\ waiters' = waiters
    BY <1>2 DEF SendBegins
  <2>2. ~In(waiters'[w], holder'[w]) /\ NoRepeat(waiters'[w])
    BY <1>1, <2>1 DEF TypeOK, RegistryTypeOK
  <2>3. \A d \in Callers : InSend(d, w)' <=> (InSend(d, w) \/ d = c)
    BY <1>2, <2>1, RegistryAssumption DEF TypeOK, RegistryTypeOK, InSend, IsWaiting
  <2> QED
    BY <2>1, <2>2, <2>3 DEF TypeOK, RegistryTypeOK, SendersSame
<1>3. CASE ~(holder[w] = Nobody /\ waiters[w] = <<>>)
  <2> DEFINE q == Append(waiters[w], c)
  <2>1. waiters' = [waiters EXCEPT ![w] = q] /\ holder' = holder
    BY <1>3 DEF SendBegins
  <2>2. /\ q \in Seq(Callers) /\ NoRepeat(q)
        /\ \A d : In(q, d) <=> (In(waiters[w], d) \/ d = c)
    BY <1>1, AppendQueue
  <2> HIDE DEF q
  <2>3. waiters'[w] = q /\ waiters' \in [Sockets -> Seq(Callers)]
    BY <2>1, <2>2 DEF TypeOK, RegistryTypeOK
  <2>4. ~In(waiters'[w], holder'[w]) /\ NoRepeat(waiters'[w])
    BY <1>1, <2>1, <2>2, <2>3
  <2>5. \A d \in Callers : InSend(d, w)' <=> (InSend(d, w) \/ d = c)
    BY <2>1, <2>2, <2>3 DEF InSend, IsWaiting, In
  <2> QED
    BY <2>1, <2>3, <2>4, <2>5 DEF TypeOK, RegistryTypeOK, SendersSame
<1> QED
  BY <1>2, <1>3

(* The first in the queue gets the lock: nobody enters or leaves.          *)
LEMMA SendPasses ==
  ASSUME TypeOK, NEW w \in Sockets, NEW c \in Callers, SInv(w), SendGranted(c, w)
  PROVE  /\ holder' \in [Sockets -> Callers \cup {Nobody}]
         /\ waiters' \in [Sockets -> Seq(Callers)]
         /\ SendersSame(w)
         /\ ~In(waiters'[w], holder'[w]) /\ NoRepeat(waiters'[w])
         /\ \A d \in Callers : InSend(d, w)' <=> InSend(d, w)
<1> DEFINE q == Tail(waiters[w])
<1>1. /\ waiters[w] \in Seq(Callers) /\ NoRepeat(waiters[w])
      /\ waiters[w] # <<>> /\ Head(waiters[w]) = c /\ holder[w] = Nobody
  BY DEF TypeOK, RegistryTypeOK, SInv, Queues, SendGranted, IsNext
<1>2. /\ q \in Seq(Callers) /\ NoRepeat(q) /\ ~In(q, c)
      /\ \A d : In(waiters[w], d) <=> (In(q, d) \/ d = c)
  BY <1>1, TailQueue
<1>3. waiters' = [waiters EXCEPT ![w] = q] /\ holder' = [holder EXCEPT ![w] = c]
  BY DEF SendGranted
<1> HIDE DEF q
<1>4. /\ waiters'[w] = q /\ holder'[w] = c
      /\ waiters' \in [Sockets -> Seq(Callers)]
      /\ holder' \in [Sockets -> Callers \cup {Nobody}]
      /\ SendersSame(w)
  BY <1>2, <1>3 DEF TypeOK, RegistryTypeOK, SendersSame
<1>5. \A d \in Callers : InSend(d, w)' <=> InSend(d, w)
  BY <1>1, <1>2, <1>4, RegistryAssumption DEF InSend, IsWaiting, In
<1> QED
  BY <1>2, <1>4, <1>5

(* Every end of a send takes its caller out, and no other.                 *)
LEMMA SendLeaves ==
  ASSUME TypeOK, NEW w \in Sockets, NEW c \in Callers, SInv(w),
         SendTooLate(c, w) \/ SendCompletes(c, w) \/ SendFails(c, w) \/ SendCancelled(c, w)
  PROVE  /\ holder' \in [Sockets -> Callers \cup {Nobody}]
         /\ waiters' \in [Sockets -> Seq(Callers)]
         /\ SendersSame(w)
         /\ ~In(waiters'[w], holder'[w]) /\ NoRepeat(waiters'[w])
         /\ \A d \in Callers : InSend(d, w)' <=> (InSend(d, w) /\ d # c)
<1>1. /\ waiters[w] \in Seq(Callers) /\ ~In(waiters[w], holder[w]) /\ NoRepeat(waiters[w])
      /\ holder[w] \in Callers \cup {Nobody}
  BY DEF TypeOK, RegistryTypeOK, SInv, Queues
<1>2. Nobody \notin Callers
  BY RegistryAssumption
<1>3. CASE holder[w] = c /\ holder' = [holder EXCEPT ![w] = Nobody] /\ UNCHANGED waiters
  <2>1. ~In(waiters[w], Nobody)
    BY <1>1, <1>2 DEF In
  <2>2. holder'[w] = Nobody
    BY <1>3 DEF TypeOK, RegistryTypeOK
  <2>3. \A d \in Callers : InSend(d, w)' <=> (InSend(d, w) /\ d # c)
    BY <1>1, <1>2, <1>3, <2>2 DEF InSend, IsWaiting, In
  <2> QED
    BY <1>1, <1>3, <2>1, <2>2, <2>3 DEF TypeOK, RegistryTypeOK, SendersSame
<1>4. ASSUME NEW q \in Seq(Callers), UNCHANGED holder, NoRepeat(q), ~In(q, c),
             \A d : d # c => (In(waiters[w], d) <=> In(q, d)),
             In(waiters[w], c), waiters' = [waiters EXCEPT ![w] = q]
      PROVE  /\ holder' \in [Sockets -> Callers \cup {Nobody}]
             /\ waiters' \in [Sockets -> Seq(Callers)]
             /\ SendersSame(w)
             /\ ~In(waiters'[w], holder'[w]) /\ NoRepeat(waiters'[w])
             /\ \A d \in Callers : InSend(d, w)' <=> (InSend(d, w) /\ d # c)
  <2>1. waiters'[w] = q /\ waiters' \in [Sockets -> Seq(Callers)]
    BY <1>4 DEF TypeOK, RegistryTypeOK
  <2>2. holder[w] # c
    BY <1>1, <1>4
  <2>3. \A d \in Callers : InSend(d, w)' <=> (InSend(d, w) /\ d # c)
    BY <1>4, <2>1, <2>2 DEF InSend, IsWaiting, In
  <2> QED
    BY <1>1, <1>4, <2>1, <2>2, <2>3 DEF TypeOK, RegistryTypeOK, SendersSame
<1>5. CASE SendTooLate(c, w)
  <2> DEFINE q == Tail(waiters[w])
  <2>1. waiters[w] # <<>> /\ Head(waiters[w]) = c
        /\ waiters' = [waiters EXCEPT ![w] = q] /\ UNCHANGED holder
    BY <1>5 DEF SendTooLate, IsNext
  <2>2. /\ q \in Seq(Callers) /\ NoRepeat(q) /\ ~In(q, c) /\ In(waiters[w], c)
        /\ \A d : In(waiters[w], d) <=> (In(q, d) \/ d = c)
    BY <1>1, <2>1, TailQueue
  <2> HIDE DEF q
  <2> QED
    BY <1>4, <2>1, <2>2
<1>6. CASE SendCompletes(c, w) \/ SendFails(c, w)
  BY <1>3, <1>6 DEF SendCompletes, SendFails
<1>7. CASE SendCancelled(c, w) /\ ~(holder[w] = c /\ holder' = [holder EXCEPT ![w] = Nobody]
                                     /\ UNCHANGED waiters)
  <2>1. PICK k \in DOMAIN waiters[w] :
          waiters[w][k] = c /\ waiters' = [waiters EXCEPT ![w] = RemoveAt(waiters[w], k)]
    BY <1>7 DEF SendCancelled
  <2>2. UNCHANGED holder
    BY <1>7 DEF SendCancelled
  <2> DEFINE q == RemoveAt(waiters[w], k)
  <2>3. /\ q \in Seq(Callers) /\ NoRepeat(q) /\ ~In(q, c)
        /\ \A d : d # c => (In(waiters[w], d) <=> In(q, d))
    BY <1>1, <2>1, RemoveQueue
  <2>4. In(waiters[w], c)
    BY <2>1 DEF In
  <2> HIDE DEF q
  <2>5. waiters' = [waiters EXCEPT ![w] = q]
    BY <2>1 DEF q
  <2> QED
    BY <1>4, <2>2, <2>3, <2>4, <2>5
<1> QED
  BY <1>3, <1>5, <1>6, <1>7

-----------------------------------------------------------------------------
(* Steps of a task.                                                        *)
Stays == {"idle", "awaitingPong", "disconnect", "error", "returned"}

LEMMA ContinueGoes ==
  ASSUME TypeOK, NEW w \in Sockets, NEW t \in Tasks, NEW sent \in BOOLEAN, Continue(w, t, sent)
  PROVE  \E v \in Stays : TaskGoes(w, t, v)
BY DEF Continue, Stays, Tasks

(* A running task that was not cancelled goes on or ends, and a cancelled  *)
(* one ends: the handler's phase stays what it was.                        *)
LEMMA TaskMoves ==
  ASSUME IInv, NEW w \in Sockets, NEW t \in Tasks, NEW v \in Running \cup Outcomes,
         task[w][t] \in Running, TaskGoes(w, t, v),
         victim[w] # t \/ v = "cancelled",
         UNCHANGED <<handler, reapVars, subscribed>>
  PROVE  /\ handler[w] \in {"waiting", "reaping"}
         /\ task' \in [Sockets -> [Tasks -> {"none"} \cup Running \cup Outcomes]]
         /\ \A u \in Tasks : task'[w][u] = IF u = t THEN v ELSE task[w][u]
         /\ SessionSame(w)
         /\ Phases(w)'
<1>1. Phases(w) /\ TypeOK
  BY DEF IInv, SInv
<1>2. task[w][t] # "none" /\ v # "none" /\ task[w][t] \notin Outcomes
  BY DEF Running, Outcomes
<1>3. handler[w] \in {"waiting", "reaping"}
  BY <1>1, <1>2 DEF TypeOK, Phases, Early, Serving, Leaving
<1>4. /\ task' \in [Sockets -> [Tasks -> {"none"} \cup Running \cup Outcomes]]
      /\ \A u \in Tasks : task'[w][u] = IF u = t THEN v ELSE task[w][u]
      /\ \A x \in Sockets \ {w} : task'[x] = task[x]
  BY <1>1 DEF TypeOK, TaskGoes
<1>5. SessionSame(w)
  BY <1>4 DEF SessionSame, reapVars
<1>6. Phases(w)'
  <2>1. CASE handler[w] = "waiting"
    BY <1>1, <1>2, <1>4, <2>1 DEF Phases, reapVars, Early, Leaving
  <2>2. CASE handler[w] = "reaping"
    <3>1. t \in pending[w]
      BY <1>1, <1>2, <2>2 DEF Phases
    <3>2. victim[w] \in Tasks /\ pending[w] \in SUBSET Tasks
      BY <1>1, <2>2 DEF TypeOK, Phases
    <3>3. task'[w][victim[w]] \in Running \cup {"cancelled"} \/ pending[w] = {victim[w]}
      BY <1>1, <1>4, <2>2, <3>2 DEF Phases
    <3> QED
      BY <1>1, <1>2, <1>4, <2>2, <3>1, <3>2, <3>3 DEF Phases, reapVars, Early, Leaving
  <2> QED
    BY <1>3, <2>1, <2>2
<1> QED
  BY <1>3, <1>4, <1>5, <1>6

(* A task step keeps the invariant if its sends are its own: it is inside  *)
(* a send afterwards if and only if it says so.                            *)
LEMMA TaskKeepsInv ==
  ASSUME IInv, NEW w \in Sockets, NEW t \in Tasks, NEW v \in Running \cup Outcomes,
         task[w][t] \in Running, TaskGoes(w, t, v),
         victim[w] # t \/ v = "cancelled",
         UNCHANGED <<handler, reapVars, subscribed, peer>>,
         pong' \in [Sockets -> BOOLEAN],
         \/ Disconnect(w) /\ (CloseWire(w) \/ UNCHANGED wire)
         \/ UNCHANGED <<activeConnections, sendLocks, wire>>,
         holder' \in [Sockets -> Callers \cup {Nobody}],
         waiters' \in [Sockets -> Seq(Callers)],
         SendersSame(w),
         ~In(waiters'[w], holder'[w]), NoRepeat(waiters'[w]),
         \A d \in Callers : InSend(d, w)' <=>
           IF d = <<w, t>> THEN v = "sending" ELSE InSend(d, w)
  PROVE  IInv'
<1>1. TypeOK /\ SInv(w)
  BY DEF IInv
<1>2. /\ handler[w] \in {"waiting", "reaping"}
      /\ task' \in [Sockets -> [Tasks -> {"none"} \cup Running \cup Outcomes]]
      /\ \A u \in Tasks : task'[w][u] = IF u = t THEN v ELSE task[w][u]
      /\ SessionSame(w)
      /\ Phases(w)'
  BY TaskMoves
<1>3. /\ activeConnections' \in [Users -> SUBSET Sockets]
      /\ sendLocks' \in SUBSET Sockets
      /\ wire' \in [Sockets -> {"connecting", "connected", "closed"}]
      /\ w \in sendLocks' <=> Registered(w)'
      /\ Registered(w)' => Registered(w)
      /\ Disconnect(w) => ~Registered(w)'
      /\ RegistrySame(w)
  BY DropEffect
<1>4. TypeOK'
  BY <1>1, <1>2, <1>3 DEF TypeOK, RegistryTypeOK, reapVars
<1>5. Agrees(w)'
  BY <1>1, <1>2, <1>3 DEF SInv, Agrees
<1>6. Queues(w)'
  <2>1. Senders(w)' = {<<w, u>> : u \in {u \in Tasks : task'[w][u] = "sending"}}
    BY <1>2 DEF Senders
  <2>2. \A d \in Callers : d \in Senders(w)' <=>
          IF d = <<w, t>> THEN v = "sending" ELSE d \in Senders(w)
    BY <1>2, <2>1 DEF Senders
  <2>3. \A d \in Callers : InSend(d, w)' <=> d \in Senders(w)'
    BY <1>1, <2>2 DEF SInv, Queues
  <2> QED
    BY <1>2, <2>3 DEF Queues
<1> QED
  BY <1>2, <1>3, <1>4, <1>5, <1>6, OneSocket DEF SInv

(* The kinds of step a task has: without a send, into one, out of one.     *)
LEMMA QuietTask ==
  ASSUME IInv, NEW w \in Sockets, NEW t \in Tasks, NEW v \in Running \cup Outcomes,
         task[w][t] \in Running \ {"sending"}, v # "sending", TaskGoes(w, t, v),
         victim[w] # t \/ v = "cancelled",
         UNCHANGED <<holder, waiters, handler, reapVars, subscribed, peer>>,
         pong' \in [Sockets -> BOOLEAN],
         \/ Disconnect(w) /\ (CloseWire(w) \/ UNCHANGED wire)
         \/ UNCHANGED <<activeConnections, sendLocks, wire>>
  PROVE  IInv'
<1>1. TypeOK /\ SInv(w) /\ <<w, t>> \in Callers
  BY SessionAssumption DEF IInv, Roles
<1>2. ~InSend(<<w, t>>, w)
  BY <1>1 DEF SInv, Queues, Senders, Tasks
<1>3. \A d \in Callers : InSend(d, w)' <=>
        IF d = <<w, t>> THEN v = "sending" ELSE InSend(d, w)
  BY <1>2 DEF InSend, IsWaiting
<1>4. ~In(waiters'[w], holder'[w]) /\ NoRepeat(waiters'[w]) /\ SendersSame(w)
  BY <1>1 DEF SInv, Queues, SendersSame
<1> QED
  BY <1>1, <1>3, <1>4, TaskKeepsInv DEF TypeOK, RegistryTypeOK

LEMMA StartKeepsInv ==
  ASSUME IInv, NEW w \in Sockets, NEW t \in Tasks, At(w, t, "idle"), StartSend(w, t),
         UNCHANGED <<handler, reapVars, subscribed, peer>>,
         pong' \in [Sockets -> BOOLEAN]
  PROVE  IInv'
<1>1. TypeOK /\ SInv(w) /\ <<w, t>> \in Callers
  BY SessionAssumption DEF IInv, Roles
<1>2. task[w][t] \in Running \ {"sending"} /\ victim[w] # t
  BY DEF At, Running
<1>3. UNCHANGED <<activeConnections, sendLocks, wire>>
  BY DEF StartSend
<1>4. CASE SendBegins(<<w, t>>, w) /\ TaskGoes(w, t, "sending")
  <2>1. ~InSend(<<w, t>>, w)
    BY <1>1, <1>2 DEF SInv, Queues, Senders, Tasks
  <2>2. "sending" \in Running \cup Outcomes
    BY DEF Running
  <2>3. SendersSame(w) /\ ~In(waiters'[w], holder'[w]) /\ NoRepeat(waiters'[w])
        /\ holder' \in [Sockets -> Callers \cup {Nobody}] /\ waiters' \in [Sockets -> Seq(Callers)]
        /\ \A d \in Callers : InSend(d, w)' <=> (InSend(d, w) \/ d = <<w, t>>)
    BY <1>1, <1>4, <2>1, SendEnters
  <2>4. TaskGoes(w, t, "sending") /\ task[w][t] \in Running
    BY <1>2, <1>4
  <2> HIDE <1>4
  <2> QED
    BY <1>2, <1>3, <2>2, <2>3, <2>4, TaskKeepsInv
<1>5. CASE Continue(w, t, FALSE) /\ UNCHANGED <<holder, waiters>>
  <2>1. PICK v \in Stays : TaskGoes(w, t, v)
    BY <1>1, <1>5, ContinueGoes
  <2>2. v \in Running \cup Outcomes /\ v # "sending"
    BY DEF Stays, Running, Outcomes
  <2> QED
    BY <1>2, <1>3, <1>5, <2>1, <2>2, QuietTask
<1> QED
  BY <1>4, <1>5 DEF StartSend

LEMMA LeaveKeepsInv ==
  ASSUME IInv, NEW w \in Sockets, NEW t \in Tasks, NEW v \in Running \cup Outcomes,
         task[w][t] = "sending", v # "sending", TaskGoes(w, t, v),
         victim[w] # t \/ v = "cancelled",
         \/ SendTooLate(<<w, t>>, w) \/ SendCompletes(<<w, t>>, w)
         \/ SendFails(<<w, t>>, w) \/ SendCancelled(<<w, t>>, w),
         \/ Disconnect(w) /\ (CloseWire(w) \/ UNCHANGED wire)
         \/ UNCHANGED <<activeConnections, sendLocks, wire>>,
         UNCHANGED <<handler, reapVars, pong, subscribed, peer>>
  PROVE  IInv'
<1>1. TypeOK /\ SInv(w) /\ <<w, t>> \in Callers
  BY SessionAssumption DEF IInv, Roles
<1>2. task[w][t] \in Running /\ pong' \in [Sockets -> BOOLEAN]
  BY <1>1 DEF Running, TypeOK
<1> QED
  BY <1>1, <1>2, SendLeaves, TaskKeepsInv

(* The actions of the tasks. *)
LEMMA SendStepInv ==
  ASSUME IInv, NEW w \in Sockets, NEW t \in Tasks, SendStep(w, t)
  PROVE  IInv'
<1>1. TypeOK /\ SInv(w) /\ <<w, t>> \in Callers
  BY SessionAssumption DEF IInv, Roles
<1>2. Stays \subseteq Running \cup Outcomes /\ "sending" \in Running \cup Outcomes
      /\ "cancelled" \in Running \cup Outcomes /\ "sending" \notin Stays
  BY DEF Stays, Running, Outcomes
<1>3. CASE SendResumes(w, t) /\ ~SendTooLate(<<w, t>>, w)
  <2>1. /\ SendGranted(<<w, t>>, w) /\ UNCHANGED <<task, activeConnections, sendLocks, wire>>
        /\ task[w][t] = "sending" /\ victim[w] # t
        /\ UNCHANGED <<handler, reapVars, pong, subscribed, peer>>
    BY <1>3 DEF SendResumes, At
  <2>2. TaskGoes(w, t, "sending")
    BY <1>1, <2>1 DEF TaskGoes, TypeOK
  <2>3. InSend(<<w, t>>, w)
    BY <1>1, <2>1 DEF SInv, Queues, Senders
  <2>4. \A d \in Callers : InSend(d, w)' <=>
          IF d = <<w, t>> THEN "sending" = "sending" ELSE InSend(d, w)
    BY <1>1, <2>1, <2>3, SendPasses
  <2>5. /\ holder' \in [Sockets -> Callers \cup {Nobody}] /\ waiters' \in [Sockets -> Seq(Callers)]
        /\ SendersSame(w) /\ ~In(waiters'[w], holder'[w]) /\ NoRepeat(waiters'[w])
    BY <1>1, <2>1, SendPasses
  <2>6. task[w][t] \in Running /\ pong' \in [Sockets -> BOOLEAN]
    BY <1>1, <2>1 DEF Running, TypeOK
  <2> QED
    BY <1>2, <2>1, <2>2, <2>4, <2>5, <2>6, TaskKeepsInv
<1>4. CASE SendResumes(w, t) /\ SendTooLate(<<w, t>>, w)
  <2>1. /\ Continue(w, t, FALSE) /\ UNCHANGED <<activeConnections, sendLocks, wire>>
        /\ task[w][t] = "sending" /\ victim[w] # t
        /\ UNCHANGED <<handler, reapVars, pong, subscribed, peer>>
    BY <1>4 DEF SendResumes, At, SendGranted, SendTooLate
  <2>2. PICK v \in Stays : TaskGoes(w, t, v)
    BY <1>1, <2>1, ContinueGoes
  <2> QED
    BY <1>2, <1>4, <2>1, <2>2, LeaveKeepsInv
<1>5. CASE SendReturns(w, t)
  <2>1. /\ task[w][t] = "sending" /\ victim[w] # t
        /\ UNCHANGED <<handler, reapVars, pong, subscribed, peer>>
        /\ SendCompletes(<<w, t>>, w) \/ SendFails(<<w, t>>, w)
        /\ \/ Disconnect(w) /\ (CloseWire(w) \/ UNCHANGED wire)
           \/ UNCHANGED <<activeConnections, sendLocks, wire>>
        /\ \E sent \in BOOLEAN : Continue(w, t, sent)
    BY <1>5 DEF SendReturns, At, SendFails
  <2>2. PICK v \in Stays : TaskGoes(w, t, v)
    BY <1>1, <2>1, ContinueGoes
  <2> QED
    BY <1>2, <2>1, <2>2, LeaveKeepsInv
<1>6. CASE TaskCancelled(w, t)
  <2>1. /\ task[w][t] \in Running /\ TaskGoes(w, t, "cancelled")
        /\ UNCHANGED <<activeConnections, sendLocks, wire>>
        /\ UNCHANGED <<handler, reapVars, pong, subscribed, peer>>
        /\ pong' \in [Sockets -> BOOLEAN]
    BY <1>1, <1>6 DEF TaskCancelled, TypeOK
  <2>2. CASE task[w][t] = "sending"
    <3>1. SendCancelled(<<w, t>>, w)
      BY <1>6, <2>2 DEF TaskCancelled
    <3> QED
      BY <1>2, <2>1, <2>2, <3>1, LeaveKeepsInv
  <2>3. CASE task[w][t] # "sending"
    <3>1. UNCHANGED <<holder, waiters>>
      BY <1>6, <2>3 DEF TaskCancelled
    <3> QED
      BY <1>2, <2>1, <2>3, <3>1, QuietTask
  <2> QED
    BY <2>2, <2>3
<1> QED
  BY <1>3, <1>4, <1>5, <1>6 DEF SendStep

LEMMA HeartbeatStepInv ==
  ASSUME IInv, NEW w \in Sockets, HeartbeatStep(w)
  PROVE  IInv'
<1>1. TypeOK /\ "heartbeat" \in Tasks
  BY DEF IInv, Tasks
<1>2. CASE HeartbeatPing(w)
  <2>1. pong' \in [Sockets -> BOOLEAN]
    BY <1>1, <1>2 DEF HeartbeatPing, TypeOK
  <2> QED
    BY <1>1, <1>2, <2>1, StartKeepsInv DEF HeartbeatPing
<1>3. CASE HeartbeatAnswered(w) \/ HeartbeatTimeout(w) \/ HeartbeatClosed(w)
  <2>1. /\ task[w]["heartbeat"] \in Running \ {"sending"} /\ victim[w] # "heartbeat"
        /\ UNCHANGED <<holder, waiters, handler, reapVars, subscribed, peer>>
        /\ pong' \in [Sockets -> BOOLEAN]
    BY <1>1, <1>3 DEF HeartbeatAnswered, HeartbeatTimeout, HeartbeatClosed, At, Running,
                      registryVars, TypeOK
  <2>2. \/ Disconnect(w) /\ (CloseWire(w) \/ UNCHANGED wire)
        \/ UNCHANGED <<activeConnections, sendLocks, wire>>
    BY <1>3 DEF HeartbeatAnswered, HeartbeatTimeout, HeartbeatClosed, registryVars
  <2>3. \E v \in {"idle", "closing", "returned", "disconnect"} : TaskGoes(w, "heartbeat", v)
    BY <1>3 DEF HeartbeatAnswered, HeartbeatTimeout, HeartbeatClosed
  <2>4. PICK v \in {"idle", "closing", "returned", "disconnect"} : TaskGoes(w, "heartbeat", v)
    BY <2>3
  <2>5. v \in Running \cup Outcomes /\ v # "sending"
    BY DEF Running, Outcomes
  <2> QED
    BY <1>1, <2>1, <2>2, <2>4, <2>5, QuietTask
<1> QED
  BY <1>2, <1>3 DEF HeartbeatStep

LEMMA EnvironmentStepInv ==
  ASSUME IInv, NEW w \in Sockets, EnvironmentStep(w) \/ ClientDisconnect(w)
  PROVE  IInv'
<1>1. TypeOK /\ "forward" \in Tasks /\ "client" \in Tasks
  BY DEF IInv, Tasks
<1>2. CASE ForwardEvent(w)
  BY <1>1, <1>2, StartKeepsInv DEF ForwardEvent, TypeOK
<1>3. CASE ClientPing(w)
  BY <1>1, <1>3, StartKeepsInv DEF ClientPing, TypeOK
<1>4. ASSUME NEW t \in Tasks, NEW v \in Running \cup Outcomes, v # "sending",
             At(w, t, "idle"), TaskGoes(w, t, v),
             UNCHANGED <<registryVars, handler, reapVars, subscribed, peer>>,
             pong' \in [Sockets -> BOOLEAN]
      PROVE  IInv'
  <2>1. task[w][t] \in Running \ {"sending"} /\ victim[w] # t
    BY <1>4 DEF At, Running
  <2> QED
    BY <1>4, <2>1, QuietTask DEF registryVars
<1>5. CASE ForwardFails(w) \/ ClientBadMessage(w) \/ ClientDisconnect(w)
  <2>1. pong' \in [Sockets -> BOOLEAN]
        /\ UNCHANGED <<registryVars, handler, reapVars, subscribed, peer>>
    BY <1>1, <1>5 DEF ForwardFails, ClientBadMessage, ClientDisconnect, TypeOK
  <2>2. \E t \in Tasks, v \in {"unavailable", "error", "disconnect"} :
          At(w, t, "idle") /\ TaskGoes(w, t, v)
    BY <1>1, <1>5 DEF ForwardFails, ClientBadMessage, ClientDisconnect
  <2>3. PICK t \in Tasks, v \in {"unavailable", "error", "disconnect"} :
          At(w, t, "idle") /\ TaskGoes(w, t, v)
    BY <2>2
  <2>4. v \in Running \cup Outcomes /\ v # "sending"
    BY DEF Outcomes
  <2> QED
    BY <1>4, <2>1, <2>3, <2>4
<1>6. CASE ClientPong(w)
  <2>1. pong' \in [Sockets -> BOOLEAN]
        /\ UNCHANGED <<registryVars, handler, reapVars, subscribed, peer>>
    BY <1>1, <1>6 DEF ClientPong, TypeOK
  <2>2. PICK v \in Stays : TaskGoes(w, "client", v)
    BY <1>1, <1>6, ContinueGoes DEF ClientPong
  <2>3. v \in Running \cup Outcomes /\ v # "sending"
    BY DEF Stays, Running, Outcomes
  <2> QED
    BY <1>1, <1>4, <1>6, <2>1, <2>2, <2>3 DEF ClientPong
<1>7. CASE PeerLeaves(w)
  <2>1. TypeOK'
    BY <1>1, <1>7 DEF PeerLeaves, registryVars, reapVars, TypeOK, RegistryTypeOK
  <2>2. ASSUME NEW x \in Sockets PROVE SInv(x)'
    BY <1>7 DEF PeerLeaves, registryVars, reapVars, IInv, SInv, Agrees, Queues, Phases,
                Registered, InSend, IsWaiting, Senders
  <2> QED
    BY <2>1, <2>2 DEF IInv
<1> QED
  BY <1>2, <1>3, <1>5, <1>6, <1>7 DEF EnvironmentStep

-----------------------------------------------------------------------------
(* Steps of the handler.                                                   *)

(* A handler step that is not inside a send before or after it: what is    *)
(* left to show is the phase it goes to, and that it left the registry if  *)
(* that phase says so.                                                     *)
LEMMA HandlerMoves ==
  ASSUME IInv, NEW w \in Sockets, TypeOK', Phases(w)', SessionSame(w),
         handler[w] # "greeting", handler'[w] # "greeting",
         \/ Disconnect(w) \/ UNCHANGED <<activeConnections, sendLocks>>,
         CloseWire(w) \/ UNCHANGED wire,
         UNCHANGED <<holder, waiters>>,
         \A t \in Tasks : task'[w][t] = "sending" <=> task[w][t] = "sending",
         Registered(w)' => \/ UNCHANGED wire /\ handler[w] # "closing"
                           \/ CloseWire(w) /\ handler'[w] = "closing",
         handler'[w] \in {"rejecting", "accepting"} => handler[w] = "authenticating",
         handler'[w] # "authenticating",
         handler'[w] \in {"unsubscribing", "closingPubsub", "ended"} => ~Registered(w)'
  PROVE  IInv'
<1>1. TypeOK /\ SInv(w)
  BY DEF IInv
<1>2. /\ w \in sendLocks' <=> Registered(w)'
      /\ Registered(w)' => Registered(w)
      /\ CloseWire(w) => wire'[w] = "closed"
      /\ RegistrySame(w)
  BY DropEffect
<1>3. Agrees(w)'
  BY <1>1, <1>2 DEF SInv, Agrees
<1>4. Queues(w)'
  <2>1. Senders(w)' = Senders(w)
    BY DEF Senders
  <2>2. \A c \in Callers : InSend(c, w)' <=> InSend(c, w)
    BY DEF InSend, IsWaiting
  <2> QED
    BY <1>1, <2>1, <2>2 DEF SInv, Queues
<1>5. SendersSame(w)
  BY DEF SendersSame
<1> QED
  BY <1>2, <1>3, <1>4, <1>5, OneSocket DEF SInv

LEMMA EarlyHandlerInv ==
  ASSUME IInv, NEW w \in Sockets,
         \/ Authenticate(w) \/ Rejected(w) \/ AcceptFails(w) \/ Subscribe(w)
         \/ Unsubscribe(w) \/ ClosePubsub(w)
  PROVE  IInv'
<1>1. TypeOK /\ SInv(w)
  BY DEF IInv
<1>2. PICK h \in {"accepting", "ended", "rejecting", "waiting", "closingPubsub"} :
        /\ handler' = [handler EXCEPT ![w] = h]
        /\ h \in {"accepting", "rejecting"} => handler[w] = "authenticating"
        /\ handler[w] \in {"authenticating", "rejecting", "accepting", "subscribing",
                           "unsubscribing", "closingPubsub"}
        /\ h = "waiting" <=> handler[w] = "subscribing"
        /\ h = "closingPubsub" <=> handler[w] = "unsubscribing"
  BY DEF Authenticate, Rejected, AcceptFails, Subscribe, Unsubscribe, ClosePubsub, HandlerGoes
<1>3. /\ UNCHANGED <<activeConnections, sendLocks, holder, waiters, reapVars, pong, peer>>
      /\ CloseWire(w) \/ UNCHANGED wire
      /\ h # "rejecting" => UNCHANGED wire
      /\ task' = IF h = "waiting" THEN [task EXCEPT ![w] = [t \in Tasks |-> "idle"]] ELSE task
      /\ h \notin {"waiting", "closingPubsub"} /\ handler[w] # "closingPubsub" => UNCHANGED subscribed
      /\ h = "ended" /\ handler[w] = "closingPubsub" => subscribed' = [subscribed EXCEPT ![w] = FALSE]
      /\ subscribed' \in {subscribed, [subscribed EXCEPT ![w] = TRUE], [subscribed EXCEPT ![w] = FALSE]}
  BY <1>1, <1>2 DEF Authenticate, Rejected, AcceptFails, Subscribe, Unsubscribe, ClosePubsub,
                    HandlerGoes, registryVars, TypeOK
<1>4. TypeOK'
  BY <1>1, <1>2, <1>3 DEF TypeOK, RegistryTypeOK, CloseWire, reapVars, Serving, Leaving, Running
<1>5. SessionSame(w)
  BY <1>1, <1>2, <1>3 DEF TypeOK, SessionSame, reapVars
<1>6. handler'[w] = h
  BY <1>1, <1>2 DEF TypeOK
<1>7. Phases(w)'
  BY <1>1, <1>2, <1>3, <1>6 DEF TypeOK, SInv, Phases, reapVars, Early, Leaving, Running
<1>8. \A t \in Tasks : task'[w][t] = "sending" <=> task[w][t] = "sending"
  BY <1>1, <1>2, <1>3 DEF TypeOK, SInv, Phases, Early
<1>9. Registered(w)' <=> Registered(w)
  BY <1>3 DEF Registered
<1>10. /\ Registered(w) => handler[w] = "subscribing"
  BY <1>1, <1>2 DEF SInv, Agrees
<1> QED
  BY <1>2, <1>3, <1>4, <1>5, <1>6, <1>7, <1>8, <1>9, <1>10, HandlerMoves

(* The handler accepts the socket and enters the greeting at once.         *)
LEMMA AcceptInv ==
  ASSUME IInv, NEW w \in Sockets, Accept(w)
  PROVE  IInv'
<1>1. TypeOK /\ SInv(w) /\ <<w, "handler">> \in Callers
  BY SessionAssumption DEF IInv, Roles
<1>2. /\ handler[w] = "accepting" /\ handler' = [handler EXCEPT ![w] = "greeting"]
      /\ Connect(w) /\ holder' = [holder EXCEPT ![w] = <<w, "handler">>]
      /\ UNCHANGED <<waiters, task, reapVars, pong, subscribed, peer>>
  BY DEF Accept, HandlerGoes
<1>3. /\ activeConnections' \in [Users -> SUBSET Sockets]
      /\ sendLocks' \in SUBSET Sockets
      /\ wire' \in [Sockets -> {"connecting", "connected", "closed"}]
      /\ Registered(w)' /\ w \in sendLocks' /\ wire'[w] = "connected"
      /\ RegistrySame(w)
  BY <1>1, <1>2, ConnectEffect
<1>4. handler'[w] = "greeting" /\ holder'[w] = <<w, "handler">> /\ "greeting" \in Serving
  BY <1>1, <1>2 DEF TypeOK, RegistryTypeOK, Serving
<1>5. TypeOK'
  BY <1>1, <1>2, <1>3, <1>4 DEF TypeOK, RegistryTypeOK, reapVars
<1>6. Agrees(w)' /\ Phases(w)' /\ SessionSame(w) /\ SendersSame(w)
  BY <1>1, <1>2, <1>3, <1>4
     DEF TypeOK, RegistryTypeOK, reapVars, SInv, Agrees, Phases, Early, Leaving, SessionSame, SendersSame
<1>7. Queues(w)'
  <2>1. \A c \in Callers : ~InSend(c, w)
    BY <1>1, <1>2 DEF SInv, Queues, Senders, Phases, Early
  <2>2. ~In(waiters[w], <<w, "handler">>)
    BY <1>1, <2>1 DEF InSend, IsWaiting, In
  <2>3. Senders(w)' = {<<w, "handler">>}
    BY <1>1, <1>2, <1>4 DEF Senders, SInv, Phases, Early
  <2>4. \A c \in Callers : InSend(c, w)' <=> c = <<w, "handler">>
    BY <1>2, <1>4, <2>1 DEF InSend, IsWaiting
  <2> QED
    BY <1>1, <1>2, <1>4, <2>2, <2>3, <2>4 DEF SInv, Queues
<1> QED
  BY <1>3, <1>5, <1>6, <1>7, OneSocket DEF SInv

LEMMA GreetedInv ==
  ASSUME IInv, NEW w \in Sockets, Greeted(w)
  PROVE  IInv'
<1>1. TypeOK /\ SInv(w) /\ <<w, "handler">> \in Callers
  BY SessionAssumption DEF IInv, Roles
<1>2. /\ handler[w] = "greeting" /\ handler' = [handler EXCEPT ![w] = "subscribing"]
      /\ SendCompletes(<<w, "handler">>, w) \/ SendFails(<<w, "handler">>, w)
      /\ \/ Disconnect(w) /\ (CloseWire(w) \/ UNCHANGED wire)
         \/ UNCHANGED <<activeConnections, sendLocks, wire>>
      /\ UNCHANGED <<task, reapVars, pong, subscribed, peer>>
  BY DEF Greeted, HandlerGoes, SendFails
<1>3. /\ activeConnections' \in [Users -> SUBSET Sockets]
      /\ sendLocks' \in SUBSET Sockets
      /\ wire' \in [Sockets -> {"connecting", "connected", "closed"}]
      /\ w \in sendLocks' <=> Registered(w)'
      /\ Registered(w)' => Registered(w)
      /\ Disconnect(w) => ~Registered(w)'
      /\ RegistrySame(w)
  BY <1>2, DropEffect
<1>4. /\ holder' \in [Sockets -> Callers \cup {Nobody}]
      /\ waiters' \in [Sockets -> Seq(Callers)]
      /\ SendersSame(w)
      /\ ~In(waiters'[w], holder'[w]) /\ NoRepeat(waiters'[w])
      /\ \A d \in Callers : InSend(d, w)' <=> (InSend(d, w) /\ d # <<w, "handler">>)
  BY <1>1, <1>2, SendLeaves
<1>5. handler'[w] = "subscribing" /\ "subscribing" \in Serving
  BY <1>1, <1>2 DEF TypeOK, Serving
<1>6. TypeOK'
  BY <1>1, <1>2, <1>3, <1>4, <1>5 DEF TypeOK, RegistryTypeOK, reapVars
<1>7. Agrees(w)' /\ Phases(w)' /\ SessionSame(w)
  BY <1>1, <1>2, <1>3, <1>5
     DEF TypeOK, reapVars, SInv, Agrees, Phases, Early, Leaving, SessionSame
<1>8. Queues(w)'
  <2>1. \A c \in Callers : c \in Senders(w)' <=> c \in Senders(w) /\ c # <<w, "handler">>
    BY <1>1, <1>2, <1>5 DEF Senders, Tasks
  <2> QED
    BY <1>1, <1>4, <1>5, <2>1 DEF SInv, Queues
<1> QED
  BY <1>3, <1>4, <1>6, <1>7, <1>8, OneSocket DEF SInv

(* Leaving the try block, with or without closing the socket first, is     *)
(* right once no task runs any more.                                       *)
LEMMA DepartInv ==
  ASSUME IInv, NEW w \in Sockets, NEW withClose \in BOOLEAN, Depart(w, withClose),
         handler[w] \in {"subscribing", "waiting", "reaping"},
         \A t \in Tasks : task[w][t] \notin Running,
         UNCHANGED <<holder, waiters, task, pong, subscribed, peer>>,
         done' \in [Sockets -> SUBSET Tasks],
         pending' \in [Sockets -> SUBSET Tasks],
         victim' \in [Sockets -> Tasks \cup {"none"}],
         victim'[w] = "none",
         \A x \in Sockets \ {w} : pending'[x] = pending[x] /\ victim'[x] = victim[x]
  PROVE  IInv'
<1>1. TypeOK /\ SInv(w)
  BY DEF IInv
<1>2. \/ /\ wire[w] = "connected" /\ CloseWire(w) /\ UNCHANGED <<activeConnections, sendLocks>>
         /\ handler' = [handler EXCEPT ![w] = "closing"]
      \/ /\ Disconnect(w) /\ UNCHANGED wire
         /\ handler' = [handler EXCEPT ![w] = "unsubscribing"]
  BY DEF Depart
<1>3. /\ activeConnections' \in [Users -> SUBSET Sockets]
      /\ sendLocks' \in SUBSET Sockets
      /\ wire' \in [Sockets -> {"connecting", "connected", "closed"}]
      /\ Registered(w)' => Registered(w)
      /\ Disconnect(w) => ~Registered(w)'
  BY <1>2, DropEffect
<1>4. handler'[w] \in {"closing", "unsubscribing"} /\ handler'[w] \in Leaving \ Early
      /\ \A x \in Sockets \ {w} : handler'[x] = handler[x]
  BY <1>1, <1>2 DEF TypeOK, Leaving, Early
<1>5. handler' \in [Sockets -> {"authenticating", "rejecting", "accepting"} \cup Serving \cup Leaving]
  BY <1>1, <1>2 DEF TypeOK, Leaving
<1>6. TypeOK'
  BY <1>1, <1>3, <1>5 DEF TypeOK, RegistryTypeOK
<1>7. Phases(w)' /\ SessionSame(w)
  BY <1>4 DEF Phases, SessionSame, Early
<1>8. Registered(w)' => CloseWire(w) /\ handler'[w] = "closing"
  BY <1>1, <1>2, <1>3 DEF TypeOK
<1>9. handler'[w] = "unsubscribing" => Disconnect(w)
  BY <1>1, <1>2 DEF TypeOK
<1>10. \A t \in Tasks : task'[w][t] = "sending" <=> task[w][t] = "sending"
  OBVIOUS
<1>11. handler[w] # "greeting" /\ handler'[w] # "greeting" /\ handler'[w] # "authenticating"
       /\ handler'[w] \notin {"rejecting", "accepting", "closingPubsub", "ended"}
  BY <1>4
<1>12. (Disconnect(w) \/ UNCHANGED <<activeConnections, sendLocks>>) /\ (CloseWire(w) \/ UNCHANGED wire)
  BY <1>2
<1> QED
  BY <1>3, <1>6, <1>7, <1>8, <1>9, <1>10, <1>11, <1>12, HandlerMoves

LEMMA SubscribeFailsInv ==
  ASSUME IInv, NEW w \in Sockets, SubscribeFails(w)
  PROVE  IInv'
<1>1. TypeOK /\ SInv(w)
  BY DEF IInv
<1>2. \A t \in Tasks : task[w][t] \notin Running
  BY <1>1 DEF SubscribeFails, SInv, Phases, Early, Running
<1>3. victim[w] = "none"
  BY <1>1 DEF SubscribeFails, SInv, Phases
<1> QED
  BY <1>1, <1>2, <1>3, DepartInv DEF SubscribeFails, reapVars, TypeOK

LEMMA ClosedInv ==
  ASSUME IInv, NEW w \in Sockets, Closed(w)
  PROVE  IInv'
<1>1. TypeOK /\ SInv(w)
  BY DEF IInv
<1>2. /\ handler[w] = "closing" /\ handler' = [handler EXCEPT ![w] = "unsubscribing"]
      /\ Disconnect(w) /\ UNCHANGED <<holder, waiters, wire, task, reapVars, pong, subscribed, peer>>
  BY DEF Closed
<1>3. handler'[w] = "unsubscribing" /\ "unsubscribing" \in Leaving
  BY <1>1, <1>2 DEF TypeOK, Leaving
<1>4. activeConnections' \in [Users -> SUBSET Sockets] /\ sendLocks' \in SUBSET Sockets /\ ~Registered(w)'
  BY <1>2, DropEffect
<1>5. TypeOK'
  BY <1>1, <1>2, <1>3, <1>4 DEF TypeOK, RegistryTypeOK, reapVars
<1>6. Phases(w)' /\ SessionSame(w)
  BY <1>1, <1>2, <1>3 DEF TypeOK, SInv, Phases, SessionSame, reapVars, Early, Leaving
<1> QED
  BY <1>2, <1>3, <1>4, <1>5, <1>6, HandlerMoves

(* asyncio.wait returns with at least one task ended, so at most two are   *)
(* left to cancel, and the first of them was still running.                *)
LEMMA WakeInv ==
  ASSUME IInv, NEW w \in Sockets, Wake(w)
  PROVE  IInv'
<1>1. TypeOK /\ SInv(w)
  BY DEF IInv
<1>2. /\ handler[w] = "waiting" /\ Finished(w) # {}
      /\ done' = [done EXCEPT ![w] = Finished(w)]
      /\ pending' = [pending EXCEPT ![w] = Tasks \ Finished(w)]
      /\ UNCHANGED <<holder, waiters, task, pong, subscribed, peer>>
      /\ victim[w] = "none"
  BY <1>1 DEF Wake, SInv, Phases
<1>3. Finished(w) \subseteq Tasks
  BY DEF Finished
<1>4. /\ done' \in [Sockets -> SUBSET Tasks] /\ pending' \in [Sockets -> SUBSET Tasks]
      /\ pending'[w] = Tasks \ Finished(w)
      /\ \A x \in Sockets \ {w} : pending'[x] = pending[x]
  BY <1>1, <1>2, <1>3 DEF TypeOK
<1>5. CASE Finished(w) = Tasks /\ DoneLoop(w) /\ UNCHANGED victim
  <2>1. \A t \in Tasks : task[w][t] \notin Running
    BY <1>5 DEF Finished, Running, Outcomes
  <2>2. PICK withClose \in BOOLEAN : Depart(w, withClose)
    BY <1>5 DEF DoneLoop
  <2> QED
    BY <1>1, <1>2, <1>4, <1>5, <2>1, <2>2, DepartInv DEF TypeOK
<1>6. CASE /\ \E t \in Tasks \ Finished(w) : victim' = [victim EXCEPT ![w] = t]
           /\ handler' = [handler EXCEPT ![w] = "reaping"]
           /\ UNCHANGED <<activeConnections, sendLocks, wire>>
  <2>1. PICK t \in Tasks \ Finished(w) : victim' = [victim EXCEPT ![w] = t]
    BY <1>6
  <2>2. /\ handler'[w] = "reaping" /\ victim'[w] = t /\ "reaping" \in Serving
        /\ \A x \in Sockets \ {w} : handler'[x] = handler[x] /\ victim'[x] = victim[x]
    BY <1>1, <1>6, <2>1 DEF TypeOK, Serving
  <2>3. TypeOK'
    BY <1>1, <1>2, <1>4, <1>6, <2>1, <2>2 DEF TypeOK, RegistryTypeOK
  <2>4. task[w][t] \in Running
    BY <1>1, <1>2, <2>1 DEF TypeOK, SInv, Phases, Finished
  <2>5. \A u \in Tasks \ pending'[w] : task[w][u] \in Outcomes
    BY <1>3, <1>4 DEF Finished
  <2>6. pending'[w] # Tasks /\ t \in pending'[w]
    BY <1>2, <1>3, <1>4, <2>1
  <2>7. Phases(w)'
    BY <1>1, <1>2, <2>2, <2>4, <2>5, <2>6 DEF SInv, Phases, Early, Leaving
  <2>8. SessionSame(w)
    BY <1>2, <1>4, <2>2 DEF SessionSame
  <2>9. Registered(w)' <=> Registered(w)
    BY <1>6 DEF Registered
  <2> QED
    BY <1>2, <1>6, <2>2, <2>3, <2>7, <2>8, <2>9, HandlerMoves
<1> QED
  BY <1>5, <1>6 DEF Wake

(* The awaited task ended.  If it raises, it was the last one: nothing is  *)
(* left running when the loop is left early.                               *)
LEMMA ReapInv ==
  ASSUME IInv, NEW w \in Sockets, Reap(w)
  PROVE  IInv'
<1> DEFINE t0 == victim[w]
           outcome == task[w][t0]
<1>1. TypeOK /\ SInv(w)
  BY DEF IInv
<1>2. /\ handler[w] = "reaping" /\ outcome \in Outcomes
      /\ pending' = [pending EXCEPT ![w] = @ \ {t0}] /\ UNCHANGED done
      /\ UNCHANGED <<holder, waiters, task, pong, subscribed, peer>>
  BY DEF Reap
<1>3. /\ t0 \in pending[w] /\ pending[w] # Tasks /\ pending[w] \subseteq Tasks
      /\ \A t \in Tasks : task[w][t] # "none"
      /\ \A t \in Tasks \ pending[w] : task[w][t] \in Outcomes
      /\ outcome = "cancelled" \/ pending[w] = {t0}
  BY <1>1, <1>2 DEF TypeOK, SInv, Phases, Running, Outcomes
<1>4. /\ pending' \in [Sockets -> SUBSET Tasks] /\ pending'[w] = pending[w] \ {t0}
      /\ \A x \in Sockets \ {w} : pending'[x] = pending[x]
  BY <1>1, <1>2 DEF TypeOK
<1>5. \A t \in Tasks \ pending'[w] : task[w][t] \in Outcomes
  BY <1>2, <1>3, <1>4
<1>6. CASE \E withClose \in BOOLEAN :
             Depart(w, withClose) /\ pending'[w] = {} /\ victim' = [victim EXCEPT ![w] = "none"]
  <2>1. PICK withClose \in BOOLEAN :
          Depart(w, withClose) /\ pending'[w] = {} /\ victim' = [victim EXCEPT ![w] = "none"]
    BY <1>6
  <2>2. \A t \in Tasks : task[w][t] \notin Running
    BY <1>5, <2>1 DEF Running, Outcomes
  <2>3. /\ victim' \in [Sockets -> Tasks \cup {"none"}] /\ victim'[w] = "none"
        /\ \A x \in Sockets \ {w} : victim'[x] = victim[x]
    BY <1>1, <2>1 DEF TypeOK
  <2>4. done' \in [Sockets -> SUBSET Tasks]
    BY <1>1, <1>2 DEF TypeOK
  <2> QED
    BY <1>2, <1>4, <2>1, <2>2, <2>3, <2>4, DepartInv
<1>7. CASE /\ \E t \in pending'[w] : victim' = [victim EXCEPT ![w] = t]
           /\ UNCHANGED <<handler, activeConnections, sendLocks, wire>>
  <2>1. PICK t \in pending'[w] : victim' = [victim EXCEPT ![w] = t]
    BY <1>7
  <2>2. t \in Tasks /\ pending'[w] = {t}
    BY <1>3, <1>4, <2>1 DEF Tasks
  <2>3. victim'[w] = t /\ \A x \in Sockets \ {w} : victim'[x] = victim[x]
    BY <1>1, <2>1 DEF TypeOK
  <2>4. TypeOK'
    BY <1>1, <1>2, <1>4, <1>7, <2>1, <2>2 DEF TypeOK, RegistryTypeOK
  <2>5. Phases(w)'
    <3>1. pending'[w] # Tasks
      BY <2>2 DEF Tasks
    <3> QED
      BY <1>2, <1>3, <1>5, <1>7, <2>2, <2>3, <3>1 DEF Phases, Early, Leaving
  <2>6. SessionSame(w)
    BY <1>2, <1>4, <1>7, <2>3 DEF SessionSame
  <2> QED
    BY <1>2, <1>7, <2>4, <2>5, <2>6, HandlerMoves
<1> QED
  <2>1. CASE outcome \in {"disconnect", "unavailable", "error"} /\ victim' = [victim EXCEPT ![w] = "none"]
             /\ Depart(w, outcome # "disconnect")
    <3>1. pending'[w] = {}
      BY <1>3, <1>4, <2>1
    <3> QED
      BY <1>6, <2>1, <3>1
  <2>2. CASE DoneLoop(w) /\ pending'[w] = {} /\ victim' = [victim EXCEPT ![w] = "none"]
    BY <1>6, <2>2 DEF DoneLoop
  <2> QED
    BY <1>7, <2>1, <2>2 DEF Reap

-----------------------------------------------------------------------------
LEMMA InitInv == Init => IInv
<1> SUFFICES ASSUME Init PROVE IInv
  OBVIOUS
<1> USE RegistryAssumption DEF Init, RegistryInit
<1>1. TypeOK
  BY DEF TypeOK, RegistryTypeOK
<1>2. ASSUME NEW w \in Sockets PROVE SInv(w)
  <2>1. Agrees(w) /\ Phases(w)
    BY DEF Agrees, Registered, Phases, Early, Leaving
  <2>2. Senders(w) = {}
    BY DEF Senders
  <2>3. Queues(w)
    BY <2>2 DEF Queues, InSend, IsWaiting, In, NoRepeat
  <2> QED
    BY <2>1, <2>3 DEF SInv
<1> QED
  BY <1>1, <1>2 DEF IInv

LEMMA HandlerStepInv ==
  ASSUME IInv, NEW w \in Sockets, HandlerStep(w)
  PROVE  IInv'
BY EarlyHandlerInv, AcceptInv, GreetedInv, SubscribeFailsInv, WakeInv, ReapInv, ClosedInv
   DEF HandlerStep

LEMMA NextInv == IInv /\ [Next]_vars => IInv'
<1> SUFFICES ASSUME IInv, [Next]_vars PROVE IInv'
  OBVIOUS
<1>1. CASE Next
  BY <1>1, HandlerStepInv, HeartbeatStepInv, EnvironmentStepInv, SendStepInv DEF Next
<1>2. CASE UNCHANGED vars
  <2>1. TypeOK'
    BY <1>2 DEF vars, registryVars, sessionVars, IInv, TypeOK, RegistryTypeOK
  <2>2. ASSUME NEW w \in Sockets PROVE SInv(w)'
    BY <1>2 DEF vars, registryVars, sessionVars, IInv, SInv, Agrees, Queues, Phases,
                Registered, InSend, IsWaiting, Senders
  <2> QED
    BY <2>1, <2>2 DEF IInv
<1> QED
  BY <1>1, <1>2

LEMMA Invariance == Spec => []IInv
<1> QED
  BY InitInv, NextInv, PTL DEF Spec

-----------------------------------------------------------------------------
(* Every variable keeps its type. *)
THEOREM TypeCorrect == Spec => []TypeOK
<1>1. IInv => TypeOK
  BY DEF IInv
<1> QED
  BY <1>1, Invariance, PTL

(* No exception that leaves the reaping loop early leaves a task running:  *)
(* only the last task the handler awaits can raise one.                    *)
THEOREM NoOrphans == Spec => []NoOrphanTask
<1>1. IInv => NoOrphanTask
  BY DEF IInv, SInv, Phases, NoOrphanTask
<1> QED
  BY <1>1, Invariance, PTL

(* A task holds or waits for the send lock of its socket exactly while it  *)
(* is in a send: cancellation gives the lock or the place back.            *)
THEOREM SendersMatch == Spec => []SendersMatchTasks
<1>1. ASSUME IInv PROVE SendersMatchTasks
  <2> SUFFICES ASSUME NEW w \in Sockets, NEW t \in Tasks
               PROVE  InSend(<<w, t>>, w) <=> task[w][t] = "sending"
    BY DEF SendersMatchTasks
  <2>1. <<w, t>> \in Callers /\ t # "handler"
    BY SessionAssumption DEF Roles, Tasks
  <2>2. <<w, t>> \in Senders(w) <=> task[w][t] = "sending"
    BY <2>1 DEF Senders
  <2> QED
    BY <1>1, <2>1, <2>2 DEF IInv, SInv, Queues
<1> QED
  BY <1>1, Invariance, PTL

(* A session that is over left no registration, lock, holder, waiter or    *)
(* subscription behind, whichever way it ended.                            *)
THEOREM CleanEnd == Spec => []EndedIsClean
<1>1. ASSUME IInv PROVE EndedIsClean
  <2> SUFFICES ASSUME NEW w \in Sockets, handler[w] = "ended"
               PROVE  /\ ~Registered(w) /\ w \notin sendLocks
                      /\ holder[w] = Nobody /\ waiters[w] = <<>> /\ ~subscribed[w]
    BY DEF EndedIsClean
  <2>1. SInv(w) /\ TypeOK
    BY <1>1 DEF IInv
  <2>2. Senders(w) = {}
    BY <2>1 DEF SInv, Phases, Senders, Leaving, Running
  <2>3. \A c \in Callers : ~InSend(c, w)
    BY <2>1, <2>2 DEF SInv, Queues
  <2>4. holder[w] = Nobody
    BY <2>1, <2>3 DEF TypeOK, RegistryTypeOK, InSend
  <2>5. waiters[w] = <<>>
    <3>1. waiters[w] \in Seq(Callers)
      BY <2>1 DEF TypeOK, RegistryTypeOK
    <3>2. SUFFICES ASSUME waiters[w] # <<>> PROVE FALSE
      OBVIOUS
    <3>3. 1 \in DOMAIN waiters[w] /\ waiters[w][1] \in Callers
      BY <3>1, <3>2
    <3> QED
      BY <2>3, <3>3 DEF InSend, IsWaiting
  <2> QED
    BY <2>1, <2>4, <2>5 DEF SInv, Agrees, Phases
<1> QED
  BY <1>1, Invariance, PTL

-----------------------------------------------------------------------------
(* The steps that can begin a frame: the registry stays as it is, and the  *)
(* socket is registered and its wire open.                                 *)
BeginsFrame(w) ==
  /\ \E c \in Callers : holder' = [holder EXCEPT ![w] = c]
  /\ holder[w] = Nobody
  /\ \/ /\ UNCHANGED <<activeConnections, sendLocks, wire>>
        /\ Registered(w) /\ wire[w] = "connected"
     \/ Connect(w) /\ ~Registered(w)

(* The others: the lock is given back or left alone, the socket dropped or *)
(* left alone.                                                             *)
EndsFrame(w) ==
  /\ \/ UNCHANGED holder
     \/ holder[w] # Nobody /\ holder' = [holder EXCEPT ![w] = Nobody]
  /\ Disconnect(w) \/ UNCHANGED <<activeConnections, sendLocks>>
  /\ CloseWire(w) \/ UNCHANGED wire

LEMMA StartFrames ==
  ASSUME IInv, NEW w \in Sockets, NEW t \in Tasks, task[w][t] \in Running,
         SendBegins(<<w, t>>, w) \/ SendGranted(<<w, t>>, w),
         UNCHANGED <<activeConnections, sendLocks, wire>>
  PROVE  BeginsFrame(w) \/ EndsFrame(w)
<1>1. SInv(w) /\ <<w, t>> \in Callers
  BY SessionAssumption DEF IInv, Roles
<1>2. handler[w] # "closing"
  BY <1>1 DEF SInv, Phases, Leaving
<1>3. Registered(w) /\ wire[w] = "connected"
  BY <1>1, <1>2 DEF SInv, Agrees, SendBegins, SendGranted, CanSend
<1> QED
  BY <1>1, <1>3 DEF BeginsFrame, EndsFrame, SendBegins, SendGranted, IsNext

LEMMA StepFrames ==
  ASSUME IInv, Next
  PROVE  \E w \in Sockets : BeginsFrame(w) \/ EndsFrame(w)
<1>1. PICK w \in Sockets : \/ HandlerStep(w) \/ HeartbeatStep(w) \/ ClientDisconnect(w)
                           \/ EnvironmentStep(w) \/ \E t \in Tasks : SendStep(w, t)
  BY DEF Next
<1>2. TypeOK /\ SInv(w) /\ Nobody \notin Callers /\ \A r \in Roles : <<w, r>> \in Callers
  BY SessionAssumption, RegistryAssumption DEF IInv
<1>3. ASSUME NEW t \in Tasks, At(w, t, "idle"), StartSend(w, t)
      PROVE  BeginsFrame(w) \/ EndsFrame(w)
  <2>1. CASE SendBegins(<<w, t>>, w)
    BY <1>3, <2>1, StartFrames DEF StartSend, At, Running
  <2>2. CASE UNCHANGED <<holder, waiters>>
    BY <1>3, <2>2 DEF StartSend, EndsFrame
  <2> QED
    BY <1>3, <2>1, <2>2 DEF StartSend
<1>4. CASE HeartbeatStep(w)
  <2>1. CASE HeartbeatPing(w)
    BY <1>3, <2>1 DEF HeartbeatPing, Tasks
  <2>2. CASE ~HeartbeatPing(w)
    BY <1>4, <2>2 DEF HeartbeatStep, HeartbeatAnswered, HeartbeatTimeout, HeartbeatClosed,
                      EndsFrame, registryVars
  <2> QED
    BY <2>1, <2>2
<1>5. CASE ClientDisconnect(w) \/ EnvironmentStep(w)
  <2>1. CASE ForwardEvent(w) \/ ClientPing(w)
    BY <1>3, <2>1 DEF ForwardEvent, ClientPing, Tasks
  <2>2. CASE ~(ForwardEvent(w) \/ ClientPing(w))
    <3>1. UNCHANGED registryVars
      BY <1>5, <2>2 DEF ClientDisconnect, EnvironmentStep, ForwardFails, ClientPong,
                        ClientBadMessage, PeerLeaves
    <3> QED
      BY <3>1 DEF EndsFrame, registryVars
  <2> QED
    BY <2>1, <2>2
<1>6. ASSUME NEW t \in Tasks, SendStep(w, t) PROVE BeginsFrame(w) \/ EndsFrame(w)
  <2>1. CASE SendResumes(w, t) /\ SendGranted(<<w, t>>, w)
    BY <2>1, StartFrames DEF SendResumes, At, Running
  <2>2. CASE SendResumes(w, t) /\ ~SendGranted(<<w, t>>, w)
    BY <2>2 DEF SendResumes, SendTooLate, EndsFrame
  <2>3. CASE SendReturns(w, t)
    BY <1>2, <2>3 DEF SendReturns, SendCompletes, SendFails, EndsFrame, Roles
  <2>4. CASE TaskCancelled(w, t)
    BY <1>2, <2>4 DEF TaskCancelled, SendCancelled, EndsFrame, Roles
  <2> QED
    BY <1>6, <2>1, <2>2, <2>3, <2>4 DEF SendStep
<1>7. CASE HandlerStep(w)
  <2>1. CASE Accept(w)
    <3>1. holder[w] = Nobody
      <4>1. \A c \in Callers : ~InSend(c, w)
        BY <1>2, <2>1 DEF Accept, HandlerGoes, SInv, Queues, Senders, Phases, Early
      <4> QED
        BY <1>2, <4>1 DEF InSend, TypeOK, RegistryTypeOK
    <3>2. ~Registered(w)
      BY <1>2, <2>1 DEF Accept, HandlerGoes, SInv, Agrees
    <3> QED
      BY <1>2, <2>1, <3>1, <3>2 DEF Accept, BeginsFrame, Roles
  <2>2. CASE Greeted(w)
    BY <1>2, <2>2 DEF Greeted, SendCompletes, SendFails, EndsFrame, Roles
  <2>3. CASE SubscribeFails(w) \/ Wake(w) \/ Reap(w) \/ Closed(w)
    BY <2>3 DEF SubscribeFails, Wake, Reap, Closed, DoneLoop, Depart, EndsFrame
  <2>4. CASE Authenticate(w) \/ Rejected(w) \/ AcceptFails(w) \/ Subscribe(w)
             \/ Unsubscribe(w) \/ ClosePubsub(w)
    BY <2>4 DEF Authenticate, Rejected, AcceptFails, Subscribe, Unsubscribe, ClosePubsub,
                EndsFrame, registryVars
  <2> QED
    BY <1>7, <2>1, <2>2, <2>3, <2>4 DEF HandlerStep
<1> QED
  BY <1>1, <1>4, <1>5, <1>6, <1>7

(* No frame starts on a socket the server closed, though the heartbeat and *)
(* the error path close it without the send lock: whoever may still write  *)
(* sees that it left the registry, or has been cancelled.                  *)
THEOREM OpenWire == Spec => WritesStartOnOpenWire
<1>1. ASSUME IInv, [Next]_vars
      PROVE  [\A w \in Sockets :
                holder[w] = Nobody /\ holder'[w] # Nobody => wire'[w] = "connected"]_vars
  <2> SUFFICES ASSUME Next, NEW x \in Sockets, holder[x] = Nobody, holder'[x] # Nobody
               PROVE  wire'[x] = "connected"
    BY <1>1
  <2>1. PICK w \in Sockets : BeginsFrame(w) \/ EndsFrame(w)
    BY <1>1, StepFrames
  <2>2. TypeOK
    BY <1>1 DEF IInv
  <2>3. CASE EndsFrame(w)
    BY <2>2, <2>3 DEF EndsFrame, TypeOK, RegistryTypeOK
  <2>4. CASE BeginsFrame(w)
    <3>1. x = w
      BY <2>2, <2>4 DEF BeginsFrame, TypeOK, RegistryTypeOK
    <3> QED
      BY <2>2, <2>4, <3>1 DEF BeginsFrame, Connect, TypeOK, RegistryTypeOK
  <2> QED
    BY <2>1, <2>3, <2>4
<1> QED
  BY <1>1, Invariance, PTL DEF Spec, WritesStartOnOpenWire

-----------------------------------------------------------------------------
(* The refinement of SocketRegistry.                                       *)
LEMMA StatusOfEnds ==
  ASSUME IInv, NEW w \in Sockets, EndsFrame(w)
  PROVE  \/ UNCHANGED status
         \/ status[w] # "dropped" /\ status' = [status EXCEPT ![w] = "dropped"]
<1>1. /\ Registered(w)' => Registered(w)
      /\ wire'[w] \in {wire[w], "closed"}
      /\ \A x \in Sockets \ {w} : (Registered(x)' <=> Registered(x)) /\ wire'[x] = wire[x]
  BY DropEffect DEF EndsFrame, RegistrySame
<1>2. Registered(w) => wire[w] # "connecting"
  BY DEF IInv, SInv, Agrees
<1>3. \A x \in Sockets \ {w} : status'[x] = status[x]
  BY <1>1 DEF status
<1>4. status'[w] = status[w] \/ (status[w] # "dropped" /\ status'[w] = "dropped")
  BY <1>1, <1>2 DEF status
<1>5. CASE status'[w] = status[w]
  <2>1. \A x \in Sockets : status'[x] = status[x]
    BY <1>3, <1>5
  <2> QED
    BY <2>1 DEF status
<1>6. CASE status[w] # "dropped" /\ status'[w] = "dropped"
  <2>1. \A x \in Sockets : status'[x] = [status EXCEPT ![w] = "dropped"][x]
    BY <1>3, <1>6 DEF status
  <2> QED
    BY <1>6, <2>1 DEF status
<1> QED
  BY <1>4, <1>5, <1>6

LEMMA FramesRefine ==
  ASSUME IInv, NEW w \in Sockets, BeginsFrame(w) \/ EndsFrame(w)
  PROVE  Registry!Next \/ UNCHANGED <<status, holder>>
<1>1. TypeOK /\ SInv(w)
  BY DEF IInv
<1>2. CASE EndsFrame(w)
  <2>1. CASE UNCHANGED holder
    BY <1>2, <2>1, StatusOfEnds DEF Registry!Drop, Registry!Next
  <2>2. CASE holder[w] # Nobody /\ holder' = [holder EXCEPT ![w] = Nobody]
    BY <1>2, <2>2, StatusOfEnds DEF Registry!FailWrite, Registry!EndWrite, Registry!Next
  <2> QED
    BY <1>2, <2>1, <2>2 DEF EndsFrame
<1>3. CASE BeginsFrame(w) /\ UNCHANGED <<activeConnections, sendLocks, wire>> /\ Registered(w)
  <2>1. PICK c \in Callers : holder' = [holder EXCEPT ![w] = c]
    BY <1>3 DEF BeginsFrame
  <2>2. UNCHANGED status /\ status[w] = "registered"
    BY <1>3 DEF status, Registered
  <2>3. Registry!StartWrite(c, w)
    BY <1>3, <2>1, <2>2 DEF BeginsFrame, Registry!StartWrite
  <2> QED
    BY <2>3 DEF Registry!Next
<1>4. CASE BeginsFrame(w) /\ Connect(w) /\ ~Registered(w)
  <2>1. PICK c \in Callers : holder' = [holder EXCEPT ![w] = c]
    BY <1>4 DEF BeginsFrame
  <2>2. Registered(w)' /\ \A x \in Sockets \ {w} : (Registered(x)' <=> Registered(x)) /\ wire'[x] = wire[x]
    BY <1>1, <1>4, ConnectEffect DEF RegistrySame
  <2>3. status[w] = "new"
    BY <1>4 DEF status, Connect
  <2>4. \A x \in Sockets : status'[x] = [status EXCEPT ![w] = "registered"][x]
    BY <2>2 DEF status
  <2>5. status' = [status EXCEPT ![w] = "registered"]
    BY <2>4 DEF status
  <2>6. Registry!RegisterAndWrite(c, w)
    BY <1>4, <2>1, <2>3, <2>5 DEF BeginsFrame, Registry!RegisterAndWrite
  <2> QED
    BY <2>6 DEF Registry!Next
<1> QED
  BY <1>2, <1>3, <1>4 DEF BeginsFrame

LEMMA InitRefines == Init => Registry!Init
<1> SUFFICES ASSUME Init PROVE Registry!Init
  OBVIOUS
<1>1. \A w \in Sockets : status[w] = "new"
  BY RegistryAssumption DEF Init, RegistryInit, status, Registered
<1>2. status = [w \in Sockets |-> "new"]
  BY <1>1 DEF status
<1> QED
  BY <1>2 DEF Init, RegistryInit, Registry!Init

(* The sessions use the registry as SocketRegistry promises: no socket is  *)
(* registered again, one frame at a time, none begun on a dropped socket.  *)
THEOREM Refinement == Spec => ImplementsRegistry
<1>1. ASSUME IInv, [Next]_vars PROVE [Registry!Next]_(Registry!registryVars)
  <2> SUFFICES Registry!Next \/ UNCHANGED <<status, holder>>
    BY DEF Registry!registryVars
  <2>1. CASE Next
    BY <1>1, <2>1, StepFrames, FramesRefine
  <2>2. CASE UNCHANGED vars
    BY <2>2 DEF vars, registryVars, status, Registered
  <2> QED
    BY <1>1, <2>1, <2>2
<1> QED
  BY <1>1, InitRefines, Invariance, PTL DEF Spec, ImplementsRegistry, Registry!Spec

-----------------------------------------------------------------------------
(* A slow peer delays only its own session: whoever holds or waits for the *)
(* send lock of a socket is the handler or a task of that very session.    *)
SessionsApart ==
  \A w, v \in Sockets : \A r \in Roles : InSend(<<v, r>>, w) => v = w

(* Sessions wait for the peers of their own sockets only. *)
THEOREM SlowPeersApart == Spec => []SessionsApart
<1>1. IInv => SessionsApart
  <2> SUFFICES ASSUME IInv, NEW w \in Sockets, NEW v \in Sockets, NEW r \in Roles,
                      InSend(<<v, r>>, w)
               PROVE  v = w
    BY DEF SessionsApart
  <2>1. <<v, r>> \in Callers
    BY SessionAssumption
  <2>2. <<v, r>> \in Senders(w)
    BY <2>1 DEF IInv, SInv, Queues
  <2> QED
    BY <2>2 DEF Senders
<1> QED
  BY <1>1, Invariance, PTL

(* The coroutines of a session that can take a step, by what they wait for. *)
HandlerRuns(w) ==
  \/ handler[w] \in {"authenticating", "rejecting", "accepting", "subscribing",
                     "closing", "unsubscribing", "closingPubsub"}
  \/ handler[w] = "greeting" /\ holder[w] = <<w, "handler">>
  \/ handler[w] = "waiting" /\ Finished(w) # {}
  \/ handler[w] = "reaping" /\ task[w][victim[w]] \in Outcomes

TaskRuns(w, t) ==
  \/ victim[w] = t /\ task[w][t] \in Running
     /\ (task[w][t] = "sending" => InSend(<<w, t>>, w))
  \/ At(w, t, "sending") /\ (holder[w] = <<w, t>> \/ IsNext(<<w, t>>, w))
  \/ t = "heartbeat" /\ \E at \in Running \ {"sending"} : At(w, t, at)

(* A session hangs on no more than one of its sends or Redis commands:     *)
(* until it has ended, its handler or a task it waits for has a next step  *)
(* of its own, and has the send lock that the step needs.  The reaping     *)
(* loop never awaits a task that its cancellation cannot reach.            *)
NeverStuck ==
  \A w \in Sockets :
    handler[w] # "ended" => HandlerRuns(w) \/ \E t \in Tasks : TaskRuns(w, t)

(* The handler and the tasks of a session never wait for one another only. *)
THEOREM SessionsNeverStuck == Spec => []NeverStuck
<1>1. IInv => NeverStuck
  <2> SUFFICES ASSUME IInv, NEW w \in Sockets, handler[w] # "ended", ~HandlerRuns(w)
               PROVE  \E t \in Tasks : TaskRuns(w, t)
    BY DEF NeverStuck
  <2>1. /\ handler[w] \in {"authenticating", "rejecting", "accepting"} \cup Serving \cup Leaving
        /\ \A t \in Tasks : task[w][t] \in {"none"} \cup Running \cup Outcomes
        /\ pending[w] \subseteq Tasks
        /\ holder[w] \in Callers \cup {Nobody} /\ waiters[w] \in Seq(Callers)
    BY DEF IInv, TypeOK, RegistryTypeOK
  <2>2. /\ \A c \in Callers : InSend(c, w) <=> c \in Senders(w)
        /\ Phases(w)
        /\ handler[w] # "greeting"
    BY DEF IInv, SInv, Queues, HandlerRuns
  <2>3. handler[w] \in {"waiting", "reaping"}
    BY <2>1, <2>2 DEF HandlerRuns, Serving, Leaving
  <2>4. ASSUME handler[w] = "waiting"
        PROVE  \E t \in Tasks : TaskRuns(w, t)
    <3>1. /\ victim[w] = "none"
          /\ \A t \in Tasks : task[w][t] \in Running
      BY <2>1, <2>2, <2>4 DEF HandlerRuns, Finished, Phases
    <3>2. CASE task[w]["heartbeat"] # "sending"
      BY <3>1, <3>2 DEF TaskRuns, At, Tasks
    <3>3. CASE task[w]["heartbeat"] = "sending"
      <4>1. <<w, "heartbeat">> \in Callers
        BY SessionAssumption DEF Roles, Tasks
      <4>2. InSend(<<w, "heartbeat">>, w)
        BY <2>2, <3>3, <4>1 DEF Senders, Tasks
      <4>3. PICK c \in Callers : holder[w] = c \/ IsNext(c, w)
        <5>1. CASE holder[w] # Nobody
          BY <2>1, <5>1
        <5>2. CASE holder[w] = Nobody
          <6>1. waiters[w] # <<>>
            BY <4>1, <4>2, <5>2, RegistryAssumption DEF InSend, IsWaiting
          <6>2. Head(waiters[w]) \in Callers
            BY <2>1, <6>1
          <6> QED
            BY <5>2, <6>1, <6>2 DEF IsNext
        <5> QED
          BY <5>1, <5>2
      <4>4. InSend(c, w)
        <5>1. IsNext(c, w) => IsWaiting(c, w)
          BY <2>1, TailQueue, Zenon DEF IsNext, IsWaiting, In
        <5> QED
          BY <4>3, <5>1 DEF InSend
      <4>5. PICK t \in Tasks : c = <<w, t>> /\ task[w][t] = "sending"
        BY <2>2, <2>4, <4>4 DEF Senders
      <4> QED
        BY <3>1, <4>3, <4>5 DEF TaskRuns, At, Tasks
    <3> QED
      BY <3>2, <3>3
  <2>5. ASSUME handler[w] = "reaping"
        PROVE  \E t \in Tasks : TaskRuns(w, t)
    <3>1. victim[w] \in Tasks /\ task[w][victim[w]] \in Running
      BY <2>1, <2>2, <2>5 DEF HandlerRuns, Phases
    <3>2. <<w, victim[w]>> \in Callers
      BY <3>1, SessionAssumption DEF Roles
    <3>3. task[w][victim[w]] = "sending" => InSend(<<w, victim[w]>>, w)
      BY <2>2, <3>1, <3>2 DEF Senders
    <3> QED
      BY <3>1, <3>3 DEF TaskRuns
  <2> QED
    BY <2>3, <2>4, <2>5
<1> QED
  BY <1>1, Invariance, PTL
=============================================================================
