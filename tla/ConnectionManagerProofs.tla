----------------------- MODULE ConnectionManagerProofs -----------------------
(***************************************************************************)
(* Proofs about ConnectionManager for any number of users, sockets and     *)
(* callers.  The safety argument rests on one inductive invariant: types,  *)
(* the agreement of the two dictionaries, and the fact that a socket whose *)
(* handshake is not over is not registered yet.  What is proved of the     *)
(* queues for the send locks needs a second one on top of it (LineInv).    *)
(***************************************************************************)
EXTENDS ConnectionManager, SequenceTheorems, TLAPS

(* A socket is registered only after accept() returned. *)
RegisteredIsAccepted ==
  \A w \in Sockets : Registered(w) => wire[w] # "connecting"

IInv == TypeOK /\ LocksMatchRegistry /\ RegisteredIsAccepted

-----------------------------------------------------------------------------
(* Taking one element out of a queue of callers leaves a queue of callers. *)
LEMMA RemoveAtType ==
  ASSUME NEW s \in Seq(Callers), NEW i \in DOMAIN s
  PROVE  RemoveAt(s, i) \in Seq(Callers)
<1>1. i \in 1..Len(s)
  OBVIOUS
<1>2. SubSeq(s, 1, i - 1) \in Seq(Callers) /\ SubSeq(s, i + 1, Len(s)) \in Seq(Callers)
  BY <1>1
<1> QED
  BY <1>2 DEF RemoveAt

(* connect() registers w, creates its lock and changes no other socket. *)
LEMMA ConnectEffect ==
  ASSUME IInv, NEW w \in Sockets, Connect(w)
  PROVE  /\ activeConnections' \in [Users -> SUBSET Sockets]
         /\ sendLocks' \in SUBSET Sockets
         /\ wire' \in [Sockets -> {"connecting", "connected", "closed"}]
         /\ \A x \in Sockets : Registered(x)' <=> (Registered(x) \/ x = w)
         /\ \A x \in Sockets : wire'[x] = IF x = w THEN "connected" ELSE wire[x]
         /\ LocksMatchRegistry'
<1>1. Owner \in [Sockets -> Users]
  BY RegistryAssumption
<1>2. activeConnections' \in [Users -> SUBSET Sockets] /\ sendLocks' \in SUBSET Sockets
      /\ wire' \in [Sockets -> {"connecting", "connected", "closed"}]
  BY <1>1 DEF IInv, TypeOK, RegistryTypeOK, Connect
<1>3. \A x \in Sockets : Registered(x)' <=> (Registered(x) \/ x = w)
  BY <1>1 DEF IInv, TypeOK, RegistryTypeOK, Connect, Registered
<1>4. \A x \in Sockets : wire'[x] = IF x = w THEN "connected" ELSE wire[x]
  BY DEF IInv, TypeOK, RegistryTypeOK, Connect
<1>5. sendLocks' = sendLocks \cup {w}
  BY DEF Connect
<1>6. LocksMatchRegistry'
  BY <1>3, <1>5 DEF IInv, LocksMatchRegistry
<1> QED
  BY <1>2, <1>3, <1>4, <1>6

(* disconnect() unregisters w and drops its lock, on the early return too, *)
(* and changes no other socket.                                            *)
LEMMA DisconnectEffect ==
  ASSUME IInv, NEW w \in Sockets, Disconnect(w)
  PROVE  /\ activeConnections' \in [Users -> SUBSET Sockets]
         /\ sendLocks' \in SUBSET Sockets
         /\ \A x \in Sockets : Registered(x)' <=> (Registered(x) /\ x # w)
         /\ LocksMatchRegistry'
<1>1. Owner \in [Sockets -> Users]
  BY RegistryAssumption
<1>2. activeConnections' \in [Users -> SUBSET Sockets] /\ sendLocks' \in SUBSET Sockets
  <2>1. CASE activeConnections[Owner[w]] = {}
    BY <2>1 DEF IInv, TypeOK, RegistryTypeOK, Disconnect
  <2>2. CASE activeConnections[Owner[w]] # {}
    <3>1. Owner[w] \in Users
      BY <1>1
    <3>2. activeConnections[Owner[w]] \ {w} \in SUBSET Sockets
      BY <3>1 DEF IInv, TypeOK, RegistryTypeOK
    <3> QED
      BY <2>2, <3>1, <3>2 DEF IInv, TypeOK, RegistryTypeOK, Disconnect
  <2> QED
    BY <2>1, <2>2
<1>3. \A x \in Sockets : Registered(x)' <=> (Registered(x) /\ x # w)
  BY <1>1 DEF IInv, TypeOK, RegistryTypeOK, Disconnect, Registered
<1>4. sendLocks' = sendLocks \ {w}
  BY DEF IInv, LocksMatchRegistry, Disconnect, Registered
<1>5. LocksMatchRegistry'
  BY <1>3, <1>4 DEF IInv, LocksMatchRegistry
<1> QED
  BY <1>2, <1>3, <1>5

(* A step that leaves the registry and the wire alone preserves what the   *)
(* invariant says of them.                                                 *)
LEMMA RegistryUnchanged ==
  ASSUME IInv, UNCHANGED <<activeConnections, sendLocks, wire>>
  PROVE  /\ activeConnections' \in [Users -> SUBSET Sockets]
         /\ sendLocks' \in SUBSET Sockets
         /\ wire' \in [Sockets -> {"connecting", "connected", "closed"}]
         /\ LocksMatchRegistry'
         /\ RegisteredIsAccepted'
BY DEF IInv, TypeOK, RegistryTypeOK, LocksMatchRegistry, RegisteredIsAccepted, Registered

(* Every step of a send keeps holders and queues made of callers. *)
LEMMA SendTypes ==
  ASSUME IInv, NEW c \in Callers, NEW w \in Sockets,
         \/ SendBegins(c, w) \/ SendGranted(c, w) \/ SendTooLate(c, w)
         \/ SendCompletes(c, w) \/ SendFails(c, w) \/ SendCancelled(c, w)
  PROVE  /\ holder' \in [Sockets -> Callers \cup {Nobody}]
         /\ waiters' \in [Sockets -> Seq(Callers)]
<1> USE DEF IInv, TypeOK, RegistryTypeOK
<1>1. CASE SendBegins(c, w)
  <2>1. Append(waiters[w], c) \in Seq(Callers)
    OBVIOUS
  <2>2. CASE holder[w] = Nobody /\ waiters[w] = <<>>
    BY <1>1, <2>2 DEF SendBegins
  <2>3. CASE ~(holder[w] = Nobody /\ waiters[w] = <<>>)
    BY <1>1, <2>1, <2>3 DEF SendBegins
  <2> QED
    BY <2>2, <2>3
<1>2. CASE SendGranted(c, w)
  BY <1>2 DEF SendGranted, IsNext
<1>3. CASE SendTooLate(c, w)
  BY <1>3 DEF SendTooLate, IsNext
<1>4. CASE SendCompletes(c, w)
  BY <1>4 DEF SendCompletes
<1>5. CASE SendFails(c, w)
  BY <1>5 DEF SendFails
<1>6. CASE SendCancelled(c, w)
  <2>1. waiters[w] \in Seq(Callers)
    OBVIOUS
  <2>2. ASSUME NEW i \in DOMAIN waiters[w] PROVE RemoveAt(waiters[w], i) \in Seq(Callers)
    BY <2>1, RemoveAtType
  <2> QED
    BY <1>6, <2>2 DEF SendCancelled
<1> QED
  BY <1>1, <1>2, <1>3, <1>4, <1>5, <1>6

-----------------------------------------------------------------------------
LEMMA InitInv == Init => IInv
<1> SUFFICES ASSUME Init PROVE IInv
  OBVIOUS
<1> USE RegistryAssumption DEF Init, RegistryInit
<1>1. TypeOK
  BY DEF TypeOK, RegistryTypeOK
<1>2. LocksMatchRegistry /\ RegisteredIsAccepted
  BY DEF LocksMatchRegistry, RegisteredIsAccepted, Registered
<1> QED
  BY <1>1, <1>2 DEF IInv

LEMMA NextInv == IInv /\ [Next]_vars => IInv'
<1> SUFFICES ASSUME IInv, [Next]_vars PROVE IInv'
  OBVIOUS
<1> USE DEF todo
<1>1. ASSUME NEW w \in Sockets, ConnectSocket(w) PROVE IInv'
  <2>1. TypeOK'
    BY <1>1, ConnectEffect DEF ConnectSocket, IInv, TypeOK, RegistryTypeOK
  <2>2. RegisteredIsAccepted'
    BY <1>1, ConnectEffect DEF ConnectSocket, IInv, RegisteredIsAccepted
  <2> QED
    BY <1>1, <2>1, <2>2, ConnectEffect DEF ConnectSocket, IInv
<1>2. ASSUME NEW w \in Sockets, DisconnectSocket(w) PROVE IInv'
  <2>1. TypeOK'
    BY <1>2, DisconnectEffect DEF DisconnectSocket, IInv, TypeOK, RegistryTypeOK
  <2>2. RegisteredIsAccepted'
    BY <1>2, DisconnectEffect DEF DisconnectSocket, IInv, RegisteredIsAccepted
  <2> QED
    BY <1>2, <2>1, <2>2, DisconnectEffect DEF DisconnectSocket, IInv
<1>3. ASSUME NEW w \in Sockets, CloseSocket(w) PROVE IInv'
  BY <1>3 DEF CloseSocket, CloseWire, IInv, TypeOK, RegistryTypeOK,
              LocksMatchRegistry, RegisteredIsAccepted, Registered
<1>4. ASSUME NEW c \in Callers, CallStep(c) PROVE IInv'
  <2>1. ASSUME Broadcast(c) \/ NextUser(c) \/ \E u \in Users : SendToUser(c, u)
        PROVE  IInv'
    <3>1. TypeOK'
      BY <2>1 DEF Broadcast, NextUser, SendToUser, registryVars,
                  IInv, TypeOK, RegistryTypeOK
    <3>2. UNCHANGED <<activeConnections, sendLocks, wire>>
      BY <2>1 DEF Broadcast, NextUser, SendToUser, registryVars
    <3> QED
      BY <3>1, <3>2, RegistryUnchanged DEF IInv
  <2>2. ASSUME NextSocket(c) PROVE IInv'
    <3>1. todoUsers' \in [Callers -> SUBSET Users] /\ todoSockets' \in [Callers -> SUBSET Sockets]
      BY <2>2 DEF NextSocket, IInv, TypeOK
    <3>2. PICK w \in todoSockets[c] :
            SendBegins(c, w) \/ UNCHANGED <<holder, waiters>>
      BY <2>2 DEF NextSocket
    <3>3. w \in Sockets
      BY <3>2 DEF IInv, TypeOK
    <3>4. holder' \in [Sockets -> Callers \cup {Nobody}] /\ waiters' \in [Sockets -> Seq(Callers)]
      <4>1. CASE SendBegins(c, w)
        BY <4>1, <3>3, SendTypes
      <4>2. CASE UNCHANGED <<holder, waiters>>
        BY <4>2 DEF IInv, TypeOK, RegistryTypeOK
      <4> QED
        BY <3>2, <4>1, <4>2
    <3> QED
      BY <2>2, <3>1, <3>4, RegistryUnchanged DEF NextSocket, IInv, TypeOK, RegistryTypeOK
  <2> QED
    BY <1>4, <2>1, <2>2 DEF CallStep
<1>5. ASSUME NEW c \in Callers, NEW w \in Sockets,
             \/ SendToConnection(c, w) \/ Resume(c, w)
             \/ Complete(c, w) \/ Cancel(c, w)
      PROVE  IInv'
  <2>1. holder' \in [Sockets -> Callers \cup {Nobody}] /\ waiters' \in [Sockets -> Seq(Callers)]
    BY <1>5, SendTypes DEF SendToConnection, Resume, Complete, Cancel
  <2>2. todoUsers' \in [Callers -> SUBSET Users] /\ todoSockets' \in [Callers -> SUBSET Sockets]
    BY <1>5 DEF SendToConnection, Resume, Complete, Cancel, IInv, TypeOK
  <2>3. UNCHANGED <<activeConnections, sendLocks, wire>>
    BY <1>5 DEF SendToConnection, Resume, Complete, Cancel
  <2> QED
    BY <2>1, <2>2, <2>3, RegistryUnchanged DEF IInv, TypeOK, RegistryTypeOK
<1>6. ASSUME NEW c \in Callers, NEW w \in Sockets, Fail(c, w) PROVE IInv'
  <2>1. holder' \in [Sockets -> Callers \cup {Nobody}] /\ waiters' \in [Sockets -> Seq(Callers)]
    BY <1>6, SendTypes DEF Fail
  <2>2. Disconnect(w) /\ UNCHANGED todo /\ (CloseWire(w) \/ UNCHANGED wire)
    BY <1>6 DEF Fail, SendFails
  <2>3. TypeOK'
    BY <2>1, <2>2, DisconnectEffect DEF CloseWire, IInv, TypeOK, RegistryTypeOK
  <2>4. RegisteredIsAccepted'
    <3>1. \A x \in Sockets : wire'[x] \in {wire[x], "closed"}
      BY <2>2 DEF CloseWire, IInv, TypeOK, RegistryTypeOK
    <3> QED
      BY <2>2, <3>1, DisconnectEffect DEF IInv, RegisteredIsAccepted
  <2> QED
    BY <2>2, <2>3, <2>4, DisconnectEffect DEF IInv
<1>7. CASE UNCHANGED vars
  BY <1>7 DEF vars, registryVars, IInv, TypeOK, RegistryTypeOK,
              LocksMatchRegistry, RegisteredIsAccepted, Registered
<1> QED
  BY <1>1, <1>2, <1>3, <1>4, <1>5, <1>6, <1>7 DEF Next, SocketStep, SendStep

LEMMA Invariance == Spec => []IInv
<1> QED
  BY InitInv, NextInv, PTL DEF Spec

(* Every variable keeps its type. *)
THEOREM TypeCorrect == Spec => []TypeOK
<1>1. IInv => TypeOK
  BY DEF IInv
<1> QED
  BY <1>1, Invariance, PTL

(* The send locks are exactly those of the registered sockets. *)
THEOREM LocksAgree == Spec => []LocksMatchRegistry
<1>1. IInv => LocksMatchRegistry
  BY DEF IInv
<1> QED
  BY <1>1, Invariance, PTL

-----------------------------------------------------------------------------
(* The refinement, one lemma per kind of step.                             *)

(* status seen as a function: only its values matter below. *)
LEMMA StatusType == status \in [Sockets -> {"new", "registered", "dropped"}]
BY DEF status

LEMMA ConnectRefines ==
  ASSUME IInv, NEW w \in Sockets, ConnectSocket(w)
  PROVE  Registry!Register(w)
<1>1. \A x \in Sockets : status'[x] = IF x = w THEN "registered" ELSE status[x]
  BY ConnectEffect DEF ConnectSocket, status
<1>2. status[w] = "new"
  BY DEF ConnectSocket, Connect, IInv, RegisteredIsAccepted, status
<1>3. status' = [status EXCEPT ![w] = "registered"]
  BY <1>1 DEF status
<1> QED
  BY <1>2, <1>3 DEF ConnectSocket, Registry!Register

LEMMA DisconnectRefines ==
  ASSUME IInv, NEW w \in Sockets, Disconnect(w), UNCHANGED wire
  PROVE  status' = IF Registered(w) THEN [status EXCEPT ![w] = "dropped"] ELSE status
<1>1. \A x \in Sockets : Registered(x)' <=> (Registered(x) /\ x # w)
  BY DisconnectEffect
<1>2. Registered(w) => wire[w] # "connecting"
  BY DEF IInv, RegisteredIsAccepted
<1>3. \A x \in Sockets :
        status'[x] = IF x = w /\ Registered(w) THEN "dropped" ELSE status[x]
  BY <1>1, <1>2 DEF status
<1> QED
  BY <1>3 DEF status

LEMMA DisconnectCloseRefines ==
  ASSUME IInv, NEW w \in Sockets, Disconnect(w), CloseWire(w)
  PROVE  status' = [status EXCEPT ![w] = "dropped"]
<1>1. \A x \in Sockets : Registered(x)' <=> (Registered(x) /\ x # w)
  BY DisconnectEffect
<1>2. \A x \in Sockets : wire'[x] = IF x = w THEN "closed" ELSE wire[x]
  BY DEF CloseWire, IInv, TypeOK, RegistryTypeOK
<1>3. \A x \in Sockets : status'[x] = IF x = w THEN "dropped" ELSE status[x]
  BY <1>1, <1>2 DEF status
<1> QED
  BY <1>3 DEF status

LEMMA CloseRefines ==
  ASSUME IInv, NEW w \in Sockets, CloseSocket(w)
  PROVE  Registry!Drop(w) \/ UNCHANGED status
<1>1. \A x \in Sockets : Registered(x)' <=> Registered(x)
  BY DEF CloseSocket, Registered
<1>2. \A x \in Sockets : wire'[x] = IF x = w THEN "closed" ELSE wire[x]
  BY DEF CloseSocket, CloseWire, IInv, TypeOK, RegistryTypeOK
<1>3. \A x \in Sockets :
        status'[x] = IF x = w /\ ~Registered(w) THEN "dropped" ELSE status[x]
  BY <1>1, <1>2 DEF status
<1>4. CASE Registered(w) \/ wire[w] # "connecting"
  <2>1. \A x \in Sockets : status'[x] = status[x]
    BY <1>1, <1>2, <1>4 DEF status
  <2> QED
    BY <2>1 DEF status
<1>5. CASE ~Registered(w) /\ wire[w] = "connecting"
  <2>1. status' = [status EXCEPT ![w] = "dropped"]
    BY <1>3, <1>5 DEF status
  <2>2. status[w] = "new"
    BY <1>5 DEF status
  <2> QED
    BY <2>1, <2>2 DEF Registry!Drop, CloseSocket
<1> QED
  BY <1>4, <1>5

LEMMA SendRefines ==
  ASSUME IInv, NEW c \in Callers, NEW w \in Sockets,
         \/ SendBegins(c, w) \/ SendGranted(c, w) \/ SendTooLate(c, w)
         \/ SendCompletes(c, w) \/ SendCancelled(c, w),
         UNCHANGED <<activeConnections, sendLocks, wire>>
  PROVE  Registry!StartWrite(c, w) \/ Registry!EndWrite(w) \/ UNCHANGED <<status, holder>>
<1>1. UNCHANGED status
  BY DEF status, Registered
<1>2. CASE SendBegins(c, w)
  <2>1. status[w] = "registered"
    BY <1>2 DEF SendBegins, CanSend, status
  <2> QED
    BY <1>1, <1>2, <2>1 DEF SendBegins, Registry!StartWrite
<1>3. CASE SendGranted(c, w)
  <2>1. status[w] = "registered"
    BY <1>3 DEF SendGranted, status
  <2> QED
    BY <1>1, <1>3, <2>1 DEF SendGranted, IsNext, Registry!StartWrite
<1>4. CASE SendTooLate(c, w)
  BY <1>1, <1>4 DEF SendTooLate
<1>5. CASE SendCompletes(c, w) \/ SendCancelled(c, w)
  BY <1>1, <1>5, RegistryAssumption DEF SendCompletes, SendCancelled, Registry!EndWrite
<1> QED
  BY <1>2, <1>3, <1>4, <1>5

LEMMA FailRefines ==
  ASSUME IInv, NEW c \in Callers, NEW w \in Sockets, Fail(c, w)
  PROVE  Registry!FailWrite(w) \/ Registry!EndWrite(w)
<1>1. holder[w] # Nobody /\ holder' = [holder EXCEPT ![w] = Nobody]
  BY RegistryAssumption DEF Fail, SendFails
<1>2. status' \in {status, [status EXCEPT ![w] = "dropped"]}
  BY DisconnectRefines, DisconnectCloseRefines DEF Fail, SendFails
<1> QED
  BY <1>1, <1>2 DEF Registry!FailWrite, Registry!EndWrite

LEMMA InitRefines == Init => Registry!Init
<1> SUFFICES ASSUME Init PROVE Registry!Init
  OBVIOUS
<1>1. \A w \in Sockets : status[w] = "new"
  BY RegistryAssumption DEF Init, RegistryInit, status, Registered
<1>2. status = [w \in Sockets |-> "new"]
  BY <1>1 DEF status
<1> QED
  BY <1>2 DEF Init, RegistryInit, Registry!Init

LEMMA NextRefines ==
  IInv /\ [Next]_vars => [Registry!Next]_(Registry!registryVars)
<1> SUFFICES ASSUME IInv, [Next]_vars
             PROVE  Registry!Next \/ UNCHANGED <<status, holder>>
  BY DEF Registry!registryVars
<1>1. ASSUME NEW w \in Sockets, SocketStep(w)
      PROVE  Registry!Next \/ UNCHANGED <<status, holder>>
  <2>1. CASE ConnectSocket(w)
    BY <2>1, ConnectRefines DEF Registry!Next
  <2>2. CASE DisconnectSocket(w)
    <3>1. /\ status' = IF Registered(w) THEN [status EXCEPT ![w] = "dropped"] ELSE status
          /\ UNCHANGED holder
      BY <2>2, DisconnectRefines DEF DisconnectSocket
    <3>2. Registered(w) => status[w] # "dropped"
      BY DEF status
    <3> QED
      BY <3>1, <3>2 DEF Registry!Drop, Registry!Next
  <2>3. CASE CloseSocket(w)
    BY <2>3, CloseRefines DEF CloseSocket, Registry!Next
  <2> QED
    BY <1>1, <2>1, <2>2, <2>3 DEF SocketStep
<1>2. ASSUME NEW c \in Callers, CallStep(c)
      PROVE  Registry!Next \/ UNCHANGED <<status, holder>>
  <2>1. CASE Broadcast(c) \/ NextUser(c) \/ \E u \in Users : SendToUser(c, u)
    BY <2>1 DEF Broadcast, NextUser, SendToUser, registryVars, status, Registered
  <2>2. CASE NextSocket(c)
    <3>1. UNCHANGED <<activeConnections, sendLocks, wire>>
      BY <2>2 DEF NextSocket
    <3>2. PICK w \in Sockets : SendBegins(c, w) \/ UNCHANGED <<holder, waiters>>
      BY <2>2 DEF NextSocket, IInv, TypeOK
    <3>3. CASE SendBegins(c, w)
      BY <3>1, <3>3, SendRefines DEF Registry!Next
    <3>4. CASE UNCHANGED <<holder, waiters>>
      BY <3>1, <3>4 DEF status, Registered
    <3> QED
      BY <3>2, <3>3, <3>4
  <2> QED
    BY <1>2, <2>1, <2>2 DEF CallStep
<1>3. ASSUME NEW c \in Callers, NEW w \in Sockets, SendStep(c, w)
      PROVE  Registry!Next \/ UNCHANGED <<status, holder>>
  <2>1. CASE Fail(c, w)
    BY <2>1, FailRefines DEF Registry!Next
  <2>2. CASE ~Fail(c, w)
    <3>1. /\ \/ SendBegins(c, w) \/ SendGranted(c, w) \/ SendTooLate(c, w)
             \/ SendCompletes(c, w) \/ SendCancelled(c, w)
          /\ UNCHANGED <<activeConnections, sendLocks, wire>>
      BY <1>3, <2>2 DEF SendStep, SendToConnection, Resume, Complete, Cancel
    <3> QED
      BY <3>1, SendRefines DEF Registry!Next
  <2> QED
    BY <2>1, <2>2
<1>4. CASE UNCHANGED vars
  BY <1>4 DEF vars, registryVars, status, Registered
<1> QED
  BY <1>1, <1>2, <1>3, <1>4 DEF Next

(* ConnectionManager implements the abstract registry: the second check    *)
(* under the send lock keeps a write from starting on a dropped socket,    *)
(* and no frame of one caller starts inside a frame of another.            *)
THEOREM Refinement == Spec => ImplementsRegistry
<1> QED
  BY InitRefines, NextRefines, Invariance, PTL
     DEF Spec, ImplementsRegistry, Registry!Spec

-----------------------------------------------------------------------------
(* Who waits for whom.  A caller is inside one send at a time and in line  *)
(* once; queues only lose callers from anywhere and gain them at the end.  *)

In(q, a) == \E i \in DOMAIN q : q[i] = a

Before(q, a, b) == \E i, j \in DOMAIN q : i < j /\ q[i] = a /\ q[j] = b

OneSend == \A c \in Callers : \A v, w \in Sockets : InSend(c, v) /\ InSend(c, w) => v = w

InLineOnce ==
  \A w \in Sockets : /\ \A c \in Callers : ~Before(waiters[w], c, c)
                     /\ ~In(waiters[w], holder[w])

LineInv == OneSend /\ InLineOnce

LEMMA AppendLine ==
  ASSUME NEW q \in Seq(Callers), NEW c \in Callers
  PROVE  /\ \A a : In(Append(q, c), a) => In(q, a) \/ a = c
         /\ \A a, b : Before(Append(q, c), a, b) => Before(q, a, b) \/ (In(q, a) /\ b = c)
<1>1. /\ DOMAIN Append(q, c) = 1 .. Len(q) + 1 /\ DOMAIN q = 1 .. Len(q) /\ Len(q) \in Nat
      /\ Append(q, c)[Len(q) + 1] = c
      /\ \A i \in DOMAIN q : Append(q, c)[i] = q[i]
  OBVIOUS
<1>2. ASSUME NEW i \in DOMAIN Append(q, c)
      PROVE  i \in DOMAIN q \/ i = Len(q) + 1
  BY <1>1
<1>3. \A a : In(Append(q, c), a) => In(q, a) \/ a = c
  BY <1>1, <1>2 DEF In
<1>4. ASSUME NEW a, NEW b, Before(Append(q, c), a, b)
      PROVE  Before(q, a, b) \/ (In(q, a) /\ b = c)
  <2>1. PICK i, j \in DOMAIN Append(q, c) :
          i < j /\ Append(q, c)[i] = a /\ Append(q, c)[j] = b
    BY <1>4 DEF Before
  <2>2. i \in DOMAIN q
    BY <1>1, <2>1
  <2> QED
    BY <1>1, <1>2, <2>1, <2>2 DEF Before, In
<1> QED
  BY <1>3, <1>4

LEMMA TailLine ==
  ASSUME NEW q \in Seq(Callers), q # <<>>
  PROVE  /\ \A a : In(Tail(q), a) => Before(q, Head(q), a)
         /\ \A a, b : Before(Tail(q), a, b) => Before(q, a, b)
         /\ \A a : In(q, a) => a = Head(q) \/ Before(q, Head(q), a)
<1>1. /\ 1 \in DOMAIN q /\ Head(q) = q[1] /\ DOMAIN q = 1 .. Len(q) /\ Len(q) \in Nat
      /\ DOMAIN Tail(q) = 1 .. Len(q) - 1
      /\ \A i \in DOMAIN Tail(q) : Tail(q)[i] = q[i + 1]
  OBVIOUS
<1>2. \A i \in DOMAIN Tail(q) : i + 1 \in DOMAIN q /\ 1 < i + 1
  BY <1>1
<1>3. \A a : In(Tail(q), a) => Before(q, Head(q), a)
  BY <1>1, <1>2 DEF In, Before
<1>4. ASSUME NEW a, NEW b, Before(Tail(q), a, b)
      PROVE  Before(q, a, b)
  <2>1. PICK i, j \in DOMAIN Tail(q) : i < j /\ Tail(q)[i] = a /\ Tail(q)[j] = b
    BY <1>4 DEF Before
  <2>2. i + 1 < j + 1
    BY <1>1, <2>1
  <2> QED
    BY <1>1, <1>2, <2>1, <2>2 DEF Before
<1>5. \A i \in DOMAIN q : i = 1 \/ 1 < i
  BY <1>1
<1>6. \A a : In(q, a) => a = Head(q) \/ Before(q, Head(q), a)
  BY <1>1, <1>5 DEF In, Before
<1> QED
  BY <1>3, <1>4, <1>6

LEMMA RemoveLine ==
  ASSUME NEW q \in Seq(Callers), NEW k \in DOMAIN q
  PROVE  /\ \A a : In(RemoveAt(q, k), a) => In(q, a)
         /\ \A a, b : Before(RemoveAt(q, k), a, b) => Before(q, a, b)
<1> DEFINE s == SubSeq(q, 1, k - 1)
           t == SubSeq(q, k + 1, Len(q))
           r == s \o t
           at(i) == IF i < k THEN i ELSE i + 1
<1>1. k \in 1 .. Len(q) /\ DOMAIN q = 1 .. Len(q) /\ Len(q) \in Nat
  OBVIOUS
<1>2. /\ s \in Seq(Callers) /\ Len(s) = k - 1
      /\ \A i \in 1 .. k - 1 : s[i] = q[i]
  <2>1. /\ s \in Seq(Callers)
        /\ Len(s) = IF 1 <= k - 1 THEN k - 1 - 1 + 1 ELSE 0
        /\ \A i \in 1 .. k - 1 - 1 + 1 : s[i] = q[1 + i - 1]
    <3>1. \A i \in 1 .. k - 1 : q[i] \in Callers
      BY <1>1
    <3> QED
      BY <1>1, <3>1, SubSeqProperties
  <2> QED
    BY <1>1, <2>1
<1>3. /\ t \in Seq(Callers) /\ Len(t) = Len(q) - k
      /\ \A i \in 1 .. Len(q) - k : t[i] = q[k + i]
  <2>1. /\ t \in Seq(Callers)
        /\ Len(t) = IF k + 1 <= Len(q) THEN Len(q) - (k + 1) + 1 ELSE 0
        /\ \A i \in 1 .. Len(q) - (k + 1) + 1 : t[i] = q[k + 1 + i - 1]
    <3>1. \A i \in k + 1 .. Len(q) : q[i] \in Callers
      BY <1>1
    <3> QED
      BY <1>1, <3>1, SubSeqProperties
  <2> QED
    BY <1>1, <2>1
<1> HIDE DEF s, t
<1>4. /\ DOMAIN r = 1 .. Len(q) - 1
      /\ \A i \in 1 .. Len(q) - 1 : r[i] = IF i <= k - 1 THEN s[i] ELSE t[i - (k - 1)]
  <2>1. /\ r \in Seq(Callers) /\ Len(r) = Len(s) + Len(t)
        /\ \A i \in 1 .. Len(s) + Len(t) :
             r[i] = IF i <= Len(s) THEN s[i] ELSE t[i - Len(s)]
    BY <1>2, <1>3, ConcatProperties
  <2>2. Len(s) + Len(t) = Len(q) - 1
    BY <1>1, <1>2, <1>3
  <2> HIDE DEF r
  <2>3. DOMAIN r = 1 .. Len(r)
    BY <2>1
  <2> QED
    BY <1>2, <2>1, <2>2, <2>3
<1>5. ASSUME NEW i \in DOMAIN r
      PROVE  at(i) \in DOMAIN q /\ r[i] = q[at(i)]
  <2> HIDE DEF r
  <2>1. i \in 1 .. Len(q) - 1
    BY <1>4
  <2>2. CASE i < k
    BY <1>1, <1>2, <1>4, <2>1, <2>2
  <2>3. CASE ~(i < k)
    <3>1. i - (k - 1) \in 1 .. Len(q) - k /\ k + (i - (k - 1)) = i + 1 /\ ~(i <= k - 1)
      BY <1>1, <2>1, <2>3
    <3>2. r[i] = t[i - (k - 1)]
      BY <1>4, <2>1, <3>1
    <3>3. t[i - (k - 1)] = q[i + 1]
      BY <1>3, <3>1
    <3> QED
      BY <1>1, <2>1, <2>3, <3>2, <3>3
  <2> QED
    BY <2>2, <2>3
<1>6. ASSUME NEW i \in DOMAIN r, NEW j \in DOMAIN r, i < j
      PROVE  at(i) < at(j)
  <2> HIDE DEF r
  <2>1. i \in Nat /\ j \in Nat /\ k \in Nat
    BY <1>1, <1>4
  <2> QED
    BY <1>6, <2>1
<1>7. RemoveAt(q, k) = r
  BY DEF RemoveAt, s, t
<1> HIDE DEF r, at
<1>8. \A a : In(r, a) => In(q, a)
  BY <1>5 DEF In
<1>9. ASSUME NEW a, NEW b, Before(r, a, b)
      PROVE  Before(q, a, b)
  <2>1. PICK i, j \in DOMAIN r : i < j /\ r[i] = a /\ r[j] = b
    BY <1>9 DEF Before
  <2> QED
    BY <1>5, <1>6, <2>1 DEF Before
<1> QED
  BY <1>7, <1>8, <1>9

(* In line once, nobody is both before and after another. *)
LEMMA LineOrder ==
  ASSUME NEW q \in Seq(Callers), \A c \in Callers : ~Before(q, c, c),
         NEW a \in Callers, NEW b \in Callers, Before(q, a, b)
  PROVE  ~Before(q, b, a) /\ In(q, a) /\ In(q, b) /\ (q # <<>> => b # Head(q))
<1>1. DOMAIN q = 1 .. Len(q) /\ Len(q) \in Nat
  OBVIOUS
<1>2. PICK i, j \in DOMAIN q : i < j /\ q[i] = a /\ q[j] = b
  BY DEF Before
<1>3. ASSUME NEW m \in DOMAIN q, NEW n \in DOMAIN q, m < n, q[m] = b, q[n] = a
      PROVE  FALSE
  <2>1. i < n \/ n < i \/ i = n
    BY <1>1
  <2>2. i = n
    BY <1>2, <1>3, <2>1 DEF Before
  <2>3. m < j
    BY <1>1, <1>2, <1>3, <2>2
  <2> QED
    BY <1>2, <1>3, <2>3 DEF Before
<1>4. q # <<>> => b # Head(q)
  <2> SUFFICES ASSUME q # <<>>, b = Head(q)
               PROVE  FALSE
    OBVIOUS
  <2>1. 1 \in DOMAIN q /\ q[1] = b /\ 1 < j
    BY <1>1, <1>2
  <2> QED
    BY <1>2, <2>1 DEF Before
<1> QED
  BY <1>2, <1>3, <1>4 DEF Before, In

(* What a step of a send may do to the line for one socket and its lock.   *)
LineStep(w) ==
  /\ \A x \in Sockets \ {w} : holder'[x] = holder[x] /\ waiters'[x] = waiters[x]
  /\ \A a \in Callers :
       /\ ~Before(waiters'[w], a, a)
       /\ holder'[w] = a => ~In(waiters'[w], a)
  /\ \A a, b \in Callers :
       Before(waiters[w], a, b) => ~Before(waiters'[w], b, a) /\ holder'[w] # b

LEMMA BeginLine ==
  ASSUME TypeOK, LineInv, NEW c \in Callers, NEW w \in Sockets,
         ~Sending(c), SendBegins(c, w)
  PROVE  LineStep(w) /\ \A a \in Callers : InSend(a, w)' => InSend(a, w) \/ a = c
<1> DEFINE q == waiters[w]
<1>1. /\ q \in Seq(Callers) /\ holder[w] \in Callers \cup {Nobody}
      /\ \A a \in Callers : ~Before(q, a, a)
      /\ ~In(q, holder[w]) /\ ~In(q, c) /\ holder[w] # c
  BY DEF TypeOK, RegistryTypeOK, LineInv, InLineOnce, Sending, InSend, IsWaiting, In
<1>2. CASE holder[w] = Nobody /\ q = <<>>
  <2>1. /\ waiters' = waiters /\ holder'[w] = c
        /\ \A x \in Sockets \ {w} : holder'[x] = holder[x]
    BY <1>2 DEF SendBegins, TypeOK, RegistryTypeOK
  <2>2. \A a, b : ~Before(q, a, b) /\ ~In(q, a)
    BY <1>2 DEF Before, In
  <2> QED
    BY <2>1, <2>2 DEF LineStep, InSend, IsWaiting, In
<1>3. CASE ~(holder[w] = Nobody /\ q = <<>>)
  <2>1. /\ holder' = holder /\ waiters'[w] = Append(q, c)
        /\ \A x \in Sockets \ {w} : waiters'[x] = waiters[x]
    BY <1>3 DEF SendBegins, TypeOK, RegistryTypeOK
  <2> DEFINE r == waiters'[w]
  <2>2. /\ \A a : In(r, a) => In(q, a) \/ a = c
        /\ \A a, b : Before(r, a, b) => Before(q, a, b) \/ (In(q, a) /\ b = c)
    BY <1>1, <2>1, AppendLine
  <2>3. \A a, b \in Callers : Before(q, a, b) => ~Before(q, b, a) /\ In(q, a) /\ In(q, b)
    BY <1>1, LineOrder
  <2> HIDE DEF q, r
  <2>4. \A a \in Callers : ~Before(r, a, a) /\ (holder'[w] = a => ~In(r, a))
    BY <1>1, <2>1, <2>2
  <2>5. \A a, b \in Callers : Before(q, a, b) => ~Before(r, b, a) /\ holder'[w] # b
    BY <1>1, <2>1, <2>2, <2>3
  <2>6. \A a \in Callers : InSend(a, w)' => InSend(a, w) \/ a = c
    BY <2>1, <2>2 DEF InSend, IsWaiting, In, q, r
  <2> QED
    BY <2>1, <2>4, <2>5, <2>6 DEF LineStep, q, r
<1> QED
  BY <1>2, <1>3

(* A queue that only lost callers, its lock unchanged or free or given to  *)
(* the first in line.                                                      *)
LEMMA ShorterLine ==
  ASSUME TypeOK, LineInv, NEW w \in Sockets,
         \A x \in Sockets \ {w} : holder'[x] = holder[x] /\ waiters'[x] = waiters[x],
         \A a : In(waiters'[w], a) => In(waiters[w], a),
         \A a, b : Before(waiters'[w], a, b) => Before(waiters[w], a, b),
         \/ holder'[w] \in {holder[w], Nobody}
         \/ /\ waiters[w] # <<>> /\ holder'[w] = Head(waiters[w])
            /\ waiters'[w] = Tail(waiters[w])
  PROVE  LineStep(w) /\ \A a \in Callers : InSend(a, w)' => InSend(a, w)
<1> DEFINE q == waiters[w]
           r == waiters'[w]
<1>1. /\ q \in Seq(Callers) /\ holder[w] \in Callers \cup {Nobody}
      /\ \A a \in Callers : ~Before(q, a, a)
      /\ ~In(q, holder[w])
  BY DEF TypeOK, RegistryTypeOK, LineInv, InLineOnce
<1>2. /\ \A a : In(r, a) => In(q, a)
      /\ \A a, b : Before(r, a, b) => Before(q, a, b)
  OBVIOUS
<1>3. \A a, b \in Callers : Before(q, a, b) =>
        ~Before(q, b, a) /\ In(q, a) /\ In(q, b) /\ (q # <<>> => b # Head(q))
  BY <1>1, LineOrder
<1>4. Nobody \notin Callers
  BY RegistryAssumption
<1>5. CASE holder'[w] \in {holder[w], Nobody}
  <2> HIDE DEF q, r
  <2>1. \A a \in Callers : ~Before(r, a, a) /\ (holder'[w] = a => ~In(r, a))
    BY <1>1, <1>2, <1>4, <1>5
  <2>2. \A a, b \in Callers : Before(q, a, b) => ~Before(r, b, a) /\ holder'[w] # b
    BY <1>1, <1>2, <1>3, <1>4, <1>5
  <2>3. \A a \in Callers : InSend(a, w)' => InSend(a, w)
    BY <1>2, <1>4, <1>5 DEF InSend, IsWaiting, In, q, r
  <2> QED
    BY <2>1, <2>2, <2>3 DEF LineStep, q, r
<1>6. CASE q # <<>> /\ holder'[w] = Head(q) /\ r = Tail(q)
  <2>1. /\ \A a : In(r, a) => Before(q, Head(q), a)
        /\ Head(q) \in Callers /\ In(q, Head(q))
    <3>1. Head(q) = q[1] /\ 1 \in DOMAIN q /\ Head(q) \in Callers
      BY <1>1, <1>6
    <3> QED
      BY <1>1, <1>6, <3>1, TailLine DEF In
  <2>2. \A a \in Callers : ~Before(r, a, a) /\ (holder'[w] = a => ~In(r, a))
    BY <1>1, <1>2, <1>6, <2>1
  <2>3. \A a, b \in Callers : Before(q, a, b) => ~Before(r, b, a) /\ holder'[w] # b
    BY <1>2, <1>3, <1>6
  <2>4. \A a \in Callers : InSend(a, w)' => InSend(a, w)
    <3> HIDE DEF q, r
    <3> QED
      BY <1>2, <1>6, <2>1 DEF InSend, IsWaiting, In, q, r
  <2> QED
    BY <2>2, <2>3, <2>4 DEF LineStep
<1> QED
  BY <1>5, <1>6

LEMMA LaterLine ==
  ASSUME TypeOK, LineInv, NEW c \in Callers, NEW w \in Sockets,
         \/ SendGranted(c, w) \/ SendTooLate(c, w)
         \/ SendCompletes(c, w) \/ SendFails(c, w) \/ SendCancelled(c, w)
  PROVE  LineStep(w) /\ \A a \in Callers : InSend(a, w)' => InSend(a, w)
<1>1. waiters[w] \in Seq(Callers)
  BY DEF TypeOK, RegistryTypeOK
<1>2. CASE SendGranted(c, w) \/ SendTooLate(c, w)
  <2>1. /\ waiters[w] # <<>> /\ waiters'[w] = Tail(waiters[w])
        /\ holder'[w] \in {holder[w], Head(waiters[w])}
        /\ \A x \in Sockets \ {w} : holder'[x] = holder[x] /\ waiters'[x] = waiters[x]
    BY <1>2 DEF SendGranted, SendTooLate, IsNext, TypeOK, RegistryTypeOK
  <2>2. /\ \A a : In(Tail(waiters[w]), a) => Before(waiters[w], Head(waiters[w]), a)
        /\ \A a, b : Before(Tail(waiters[w]), a, b) => Before(waiters[w], a, b)
    BY <1>1, <2>1, TailLine
  <2>3. \A a : In(waiters'[w], a) => In(waiters[w], a)
    BY <2>1, <2>2 DEF In, Before
  <2> QED
    BY <2>1, <2>2, <2>3, ShorterLine
<1>3. CASE holder' = [holder EXCEPT ![w] = Nobody] /\ UNCHANGED waiters
  <2>1. /\ holder'[w] = Nobody /\ waiters' = waiters
        /\ \A x \in Sockets \ {w} : holder'[x] = holder[x]
    BY <1>3 DEF TypeOK, RegistryTypeOK
  <2> QED
    BY <2>1, ShorterLine
<1>4. CASE \E i \in DOMAIN waiters[w] :
             waiters' = [waiters EXCEPT ![w] = RemoveAt(waiters[w], i)] /\ UNCHANGED holder
  <2>1. PICK i \in DOMAIN waiters[w] :
          waiters' = [waiters EXCEPT ![w] = RemoveAt(waiters[w], i)] /\ UNCHANGED holder
    BY <1>4
  <2>2. /\ waiters'[w] = RemoveAt(waiters[w], i) /\ holder' = holder
        /\ \A x \in Sockets \ {w} : waiters'[x] = waiters[x]
    BY <2>1 DEF TypeOK, RegistryTypeOK
  <2>3. /\ \A a : In(waiters'[w], a) => In(waiters[w], a)
        /\ \A a, b : Before(waiters'[w], a, b) => Before(waiters[w], a, b)
    BY <1>1, <2>2, RemoveLine
  <2> QED
    BY <2>2, <2>3, ShorterLine
<1> QED
  BY <1>2, <1>3, <1>4 DEF SendCompletes, SendFails, SendCancelled

(* Every step is a step of at most one line, entered by one who was in none. *)
LEMMA NextLine ==
  ASSUME TypeOK, LineInv, [Next]_vars
  PROVE  \/ UNCHANGED <<holder, waiters>>
         \/ \E w \in Sockets, c \in Callers :
              /\ LineStep(w)
              /\ \A a \in Callers : InSend(a, w)' => InSend(a, w) \/ (a = c /\ ~Sending(c))
<1>1. CASE \E w \in Sockets : SocketStep(w)
  BY <1>1 DEF SocketStep, ConnectSocket, DisconnectSocket, CloseSocket
<1>2. ASSUME NEW c \in Callers, NextSocket(c)
      PROVE  \/ UNCHANGED <<holder, waiters>>
             \/ \E w \in Sockets : ~Sending(c) /\ SendBegins(c, w)
  BY <1>2 DEF NextSocket, TypeOK
<1>3. CASE \E c \in Callers : Broadcast(c) \/ NextUser(c) \/ \E u \in Users : SendToUser(c, u)
  BY <1>3 DEF Broadcast, NextUser, SendToUser, registryVars
<1>4. ASSUME NEW c \in Callers, NEW w \in Sockets, SendStep(c, w)
      PROVE  \/ ~Sending(c) /\ SendBegins(c, w)
             \/ SendGranted(c, w) \/ SendTooLate(c, w)
             \/ SendCompletes(c, w) \/ SendFails(c, w) \/ SendCancelled(c, w)
  BY <1>4 DEF SendStep, SendToConnection, Idle, Resume, Complete, Fail, Cancel
<1>5. CASE UNCHANGED vars
  BY <1>5 DEF vars, registryVars
<1>6. ASSUME NEW c \in Callers, NEW w \in Sockets, ~Sending(c), SendBegins(c, w)
      PROVE  /\ LineStep(w)
             /\ \A a \in Callers : InSend(a, w)' => InSend(a, w) \/ (a = c /\ ~Sending(c))
  BY <1>6, BeginLine
<1> QED
  BY <1>1, <1>2, <1>3, <1>4, <1>5, <1>6, LaterLine DEF Next, CallStep

LEMMA LineInvariance == Spec => []LineInv
<1>1. Init => LineInv
  BY RegistryAssumption
     DEF Init, RegistryInit, LineInv, OneSend, InLineOnce, InSend, IsWaiting, Before, In
<1>2. TypeOK /\ TypeOK' /\ LineInv /\ [Next]_vars => LineInv'
  <2> SUFFICES ASSUME TypeOK, TypeOK', LineInv, [Next]_vars
               PROVE  LineInv'
    OBVIOUS
  <2>1. CASE UNCHANGED <<holder, waiters>>
    BY <2>1 DEF LineInv, OneSend, InLineOnce, InSend, IsWaiting, Before, In
  <2>2. ASSUME NEW w \in Sockets, NEW c \in Callers, LineStep(w),
               \A a \in Callers : InSend(a, w)' => InSend(a, w) \/ (a = c /\ ~Sending(c))
        PROVE  LineInv'
    <3>1. \A x \in Sockets \ {w} : holder'[x] = holder[x] /\ waiters'[x] = waiters[x]
      BY <2>2 DEF LineStep
    <3>2. \A x \in Sockets \ {w} : \A a \in Callers : InSend(a, x)' <=> InSend(a, x)
      BY <3>1 DEF InSend, IsWaiting
    <3>3. OneSend'
      <4> SUFFICES ASSUME NEW a \in Callers, NEW x \in Sockets, NEW y \in Sockets,
                          InSend(a, x)', InSend(a, y)', x # y
                   PROVE  FALSE
        BY DEF OneSend
      <4> QED
        BY <2>2, <3>2 DEF LineInv, OneSend, Sending
    <3>4. ASSUME NEW x \in Sockets
          PROVE  /\ \A a \in Callers : ~Before(waiters'[x], a, a)
                 /\ ~In(waiters'[x], holder'[x])
      <4>1. CASE x # w
        BY <3>1, <4>1 DEF LineInv, InLineOnce
      <4>2. CASE x = w
        <5>1. waiters'[w] \in Seq(Callers) /\ holder'[w] \in Callers \cup {Nobody}
          BY DEF TypeOK, RegistryTypeOK
        <5>2. ~In(waiters'[w], Nobody)
          BY <5>1, RegistryAssumption DEF In
        <5> QED
          BY <2>2, <4>2, <5>1, <5>2 DEF LineStep
      <4> QED
        BY <4>1, <4>2
    <3> QED
      BY <3>3, <3>4 DEF LineInv, InLineOnce
  <2> QED
    BY <2>1, <2>2, NextLine
<1> QED
  BY <1>1, <1>2, TypeCorrect, PTL DEF Spec

(* No deadlock between fan-outs: one that holds a send lock is waiting for *)
(* no send lock, so whoever it holds up waits for the socket alone.        *)
NoCircularWait ==
  \A w \in Sockets : holder[w] # Nobody => \A v \in Sockets : ~IsWaiting(holder[w], v)

(* A coroutine is in send_to_connection for one socket at a time, and one  *)
(* that sends to it waits for none.                                        *)
THEOREM NoSendDeadlock == Spec => [](OneSend /\ NoCircularWait)
<1>1. TypeOK /\ LineInv => OneSend /\ NoCircularWait
  <2> SUFFICES ASSUME TypeOK, LineInv, NEW w \in Sockets, holder[w] # Nobody,
                      NEW v \in Sockets, IsWaiting(holder[w], v)
               PROVE  FALSE
    BY DEF NoCircularWait, LineInv
  <2>1. holder[w] \in Callers
    BY DEF TypeOK, RegistryTypeOK
  <2>2. v = w
    BY <2>1 DEF LineInv, OneSend, InSend
  <2> QED
    BY <2>2 DEF LineInv, InLineOnce, IsWaiting, In
<1> QED
  BY <1>1, TypeCorrect, LineInvariance, PTL

(* First come, first served: who waits behind another for a send lock does *)
(* not get in front of it, and does not get the lock before it, whether    *)
(* callers in between go away, are cancelled or find the socket gone.      *)
NoOvertaking ==
  [][\A w \in Sockets : \A a, b \in Callers :
       Before(waiters[w], a, b) => ~Before(waiters'[w], b, a) /\ holder'[w] # b]_vars

(* The send lock of a socket is granted in the order of arrival. *)
THEOREM FirstComeFirstServed == Spec => NoOvertaking
<1>1. TypeOK /\ LineInv /\ [Next]_vars =>
        [\A w \in Sockets : \A a, b \in Callers :
           Before(waiters[w], a, b) => ~Before(waiters'[w], b, a) /\ holder'[w] # b]_vars
  <2> SUFFICES ASSUME TypeOK, LineInv, [Next]_vars, NEW x \in Sockets,
                      NEW a \in Callers, NEW b \in Callers, Before(waiters[x], a, b)
               PROVE  ~Before(waiters'[x], b, a) /\ holder'[x] # b
    OBVIOUS
  <2>1. /\ waiters[x] \in Seq(Callers) /\ \A c \in Callers : ~Before(waiters[x], c, c)
        /\ ~In(waiters[x], holder[x])
    BY DEF TypeOK, RegistryTypeOK, LineInv, InLineOnce
  <2>2. ~Before(waiters[x], b, a) /\ In(waiters[x], b)
    BY <2>1, LineOrder
  <2>3. CASE holder'[x] = holder[x] /\ waiters'[x] = waiters[x]
    BY <2>1, <2>2, <2>3
  <2>4. CASE \E w \in Sockets : LineStep(w) /\ ~(holder'[x] = holder[x] /\ waiters'[x] = waiters[x])
    BY <2>4 DEF LineStep
  <2> QED
    BY <2>3, <2>4, NextLine
<1> QED
  BY <1>1, TypeCorrect, LineInvariance, PTL DEF Spec, NoOvertaking
=============================================================================
