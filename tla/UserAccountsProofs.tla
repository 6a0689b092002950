-------------------------- MODULE UserAccountsProofs --------------------------
(***************************************************************************)
(* Proofs about UserAccounts for any emails and any number of requests and *)
(* accounts.  What is cached or sent later was read or committed earlier,  *)
(* so the invariant follows the pair of id and email through the requests. *)
(***************************************************************************)
EXTENDS UserAccounts, TLAPS

(* The rows of the table were committed. *)
RowsAreAccounts == \A i \in Ids : users[i] # None => <<i, users[i]>> \in accounts

(* So was what a request is about to greet or to cache. *)
Carries(r) == At(r, "refresh") \/ At(r, "set")

RequestsCarryAccounts ==
  \A r \in Requests : Carries(r) =>
    /\ request[r].id \in Ids /\ request[r].email \in Emails
    /\ <<request[r].id, request[r].email>> \in accounts

(* Registrations and logins have an email, authenticated requests an id. *)
RequestsComplete ==
  \A r \in Requests :
    /\ At(r, "check") \/ At(r, "commit") \/ At(r, "lookup") => request[r].email \in Emails
    /\ At(r, "get") \/ At(r, "select") => request[r].id \in Ids

IInv ==
  /\ TypeOK /\ EmailsUnique /\ WelcomesAreAccounts /\ SnapshotsAreAccounts
  /\ RowsAreAccounts /\ RequestsCarryAccounts /\ RequestsComplete

-----------------------------------------------------------------------------
LEMMA InvInit == Init => IInv
<1> SUFFICES ASSUME Init PROVE IInv
  OBVIOUS
<1>1. TypeOK
  BY AccountAssumption DEF Init, TypeOK
<1> QED
  BY <1>1
  DEF Init, IInv, EmailsUnique, WelcomesAreAccounts, SnapshotsAreAccounts, RowsAreAccounts,
      RequestsCarryAccounts, RequestsComplete, Carries, At

(* A request that goes on, or ends, keeps its type. *)
LEMMA RequestType ==
  ASSUME TypeOK, NEW r \in Requests, request[r] # None
  PROVE  /\ request[r] \in Request
         /\ \A x \in Request \cup {None} :
              [request EXCEPT ![r] = x] \in [Requests -> Request \cup {None}]
BY DEF TypeOK

(* A step that changes one request and nothing that was committed keeps    *)
(* the invariant if that request is fine afterwards.                       *)
LEMMA RequestFrame ==
  ASSUME IInv, NEW r \in Requests, NEW x \in Request \cup {None},
         request' = [request EXCEPT ![r] = x],
         UNCHANGED <<users, nextId, snapshots, welcomes, accounts>>,
         x # None /\ x.at \in {"refresh", "set"} =>
           x.id \in Ids /\ x.email \in Emails /\ <<x.id, x.email>> \in accounts,
         x # None /\ x.at \in {"check", "commit", "lookup"} => x.email \in Emails,
         x # None /\ x.at \in {"get", "select"} => x.id \in Ids
  PROVE  IInv'
<1>1. request'[r] = x /\ \A y \in Requests : y # r => request'[y] = request[y]
  BY DEF IInv, TypeOK
<1>2. TypeOK'
  BY DEF IInv, TypeOK
<1>3. RequestsCarryAccounts'
  BY <1>1 DEF IInv, RequestsCarryAccounts, Carries, At
<1>4. RequestsComplete'
  BY <1>1 DEF IInv, RequestsComplete, At
<1> QED
  BY <1>2, <1>3, <1>4
  DEF IInv, EmailsUnique, WelcomesAreAccounts, SnapshotsAreAccounts, RowsAreAccounts

LEMMA ArrivalInv ==
  ASSUME IInv, NEW r \in Requests, Arrival(r)
  PROVE  IInv'
<1>1. ASSUME NEW p \in {"check", "lookup", "get"}, NEW e \in Emails \cup {None},
             NEW i \in Ids \cup {0}, NEW b \in BOOLEAN, Arrives(r, p, e, i, b),
             p # "get" => e \in Emails, p = "get" => i \in Ids
      PROVE  IInv'
  <2> DEFINE x == [at |-> p, email |-> e, id |-> i, existed |-> b]
  <2>1. x \in Request
    BY DEF Request
  <2>2. request' = [request EXCEPT ![r] = x]
        /\ UNCHANGED <<users, nextId, snapshots, welcomes, accounts>>
    BY <1>1 DEF Arrives
  <2>3. x.at = p /\ x.email = e /\ x.id = i
    OBVIOUS
  <2> HIDE DEF x
  <2> QED
    BY <1>1, <2>1, <2>2, <2>3, RequestFrame
<1>2. CASE Register(r)
  BY <1>1, <1>2 DEF Register
<1>3. CASE Login(r)
  BY <1>1, <1>3 DEF Login
<1>4. CASE Authenticate(r)
  <2>1. PICK a \in accounts : Arrives(r, "get", None, a[1], users[a[1]] # None)
    BY <1>4 DEF Authenticate
  <2>2. a[1] \in Ids
    BY DEF IInv, TypeOK
  <2>3. (users[a[1]] # None) \in BOOLEAN
    OBVIOUS
  <2> QED
    BY <1>1, <2>1, <2>2, <2>3
<1> QED
  BY <1>2, <1>3, <1>4 DEF Arrival

LEMMA EndsInv ==
  ASSUME IInv, NEW r \in Requests, Ends(r),
         UNCHANGED <<users, nextId, snapshots, welcomes, accounts>>
  PROVE  IInv'
BY RequestFrame DEF Ends

(* A request that only goes on. *)
LEMMA GoesInv ==
  ASSUME IInv, NEW r \in Requests, request[r] # None,
         NEW p \in {"commit", "select", "admitted"}, Goes(r, p),
         UNCHANGED <<users, nextId, snapshots, welcomes, accounts>>,
         p = "commit" => request[r].email \in Emails,
         p = "select" => request[r].id \in Ids
  PROVE  IInv'
<1> DEFINE x == [request[r] EXCEPT !.at = p]
<1>1. request[r] \in Request
  BY RequestType DEF IInv
<1>2. x \in Request /\ x.at = p /\ x.email = request[r].email /\ x.id = request[r].id
  BY <1>1 DEF Request
<1>3. request' = [request EXCEPT ![r] = x]
  BY DEF Goes, IInv, TypeOK
<1> HIDE DEF x
<1> QED
  BY <1>2, <1>3, RequestFrame

(* The steps that only read, one by one. *)
LEMMA ReadInv ==
  ASSUME IInv, NEW r \in Requests,
         CheckEmail(r) \/ Lookup(r) \/ GetSnapshot(r) \/ SelectUser(r) \/ Respond(r) \/ Dies(r)
  PROVE  IInv'
<1>0. request[r] # None /\ request[r] \in Request
      /\ UNCHANGED <<users, nextId, snapshots, welcomes, accounts>>
  BY RequestType
  DEF IInv, CheckEmail, Lookup, GetSnapshot, SelectUser, Respond, Dies, At
<1>1. CASE Ends(r)
  BY <1>0, <1>1, EndsInv
<1>2. CASE CheckEmail(r) /\ Goes(r, "commit")
  <2>1. request[r].email \in Emails
    BY <1>2 DEF CheckEmail, IInv, RequestsComplete
  <2> QED
    BY <1>0, <1>2, <2>1, GoesInv
<1>3. CASE GetSnapshot(r)
  <2>1. request[r].id \in Ids
    BY <1>3 DEF GetSnapshot, IInv, RequestsComplete
  <2> QED
    BY <1>0, <1>3, <2>1, GoesInv DEF GetSnapshot
<1>4. ASSUME NEW i \in ByEmail(request[r].email), Lookup(r),
             request' = [request EXCEPT ![r].at = "set", ![r].id = i, ![r].existed = TRUE]
      PROVE  IInv'
  <2> DEFINE x == [request[r] EXCEPT !.at = "set", !.id = i, !.existed = TRUE]
  <2>1. request[r].email \in Emails
    BY <1>4 DEF Lookup, IInv, RequestsComplete
  <2>2. i \in Ids /\ users[i] = request[r].email /\ users[i] # None
    BY <2>1, AccountAssumption DEF ByEmail
  <2>3. <<i, request[r].email>> \in accounts
    BY <2>2 DEF IInv, RowsAreAccounts
  <2>4. x \in Request /\ x.at = "set" /\ x.email = request[r].email /\ x.id = i
    BY <1>0, <2>2 DEF Request
  <2>5. request' = [request EXCEPT ![r] = x]
    BY <1>4 DEF IInv, TypeOK
  <2> HIDE DEF x
  <2> QED
    BY <1>0, <2>1, <2>2, <2>3, <2>4, <2>5, RequestFrame
<1>5. CASE SelectUser(r) /\ users[request[r].id] # None
  <2> DEFINE x == [request[r] EXCEPT !.at = "set", !.email = users[request[r].id]]
  <2>1. request[r].id \in Ids
    BY <1>5 DEF SelectUser, IInv, RequestsComplete
  <2>2. users[request[r].id] \in Emails /\ <<request[r].id, users[request[r].id]>> \in accounts
    BY <1>5, <2>1 DEF IInv, TypeOK, RowsAreAccounts
  <2>3. x \in Request /\ x.at = "set" /\ x.email = users[request[r].id] /\ x.id = request[r].id
    BY <1>0, <2>2 DEF Request
  <2>4. request' = [request EXCEPT ![r] = x]
    BY <1>5 DEF SelectUser, IInv, TypeOK
  <2> HIDE DEF x
  <2> QED
    BY <1>0, <2>1, <2>2, <2>3, <2>4, RequestFrame
<1> QED
  BY <1>1, <1>2, <1>3, <1>4, <1>5 DEF CheckEmail, Lookup, SelectUser, Respond, Dies

(* The insert takes an email no row has, so emails stay unique. *)
LEMMA CommitInv ==
  ASSUME IInv, NEW r \in Requests, Commit(r)
  PROVE  IInv'
<1>1. request[r] # None /\ request[r] \in Request /\ request[r].email \in Emails
  BY RequestType DEF IInv, Commit, At, RequestsComplete
<1>2. nextId \in Ids /\ nextId' = nextId + 1 /\ nextId' \in 1 .. MaxId + 1
      /\ UNCHANGED <<snapshots, welcomes>>
  BY AccountAssumption DEF IInv, TypeOK, Commit, Ids
<1> DEFINE new == request[r].email
<1>3. CASE /\ ByEmail(new) = {}
           /\ users' = [users EXCEPT ![nextId] = new]
           /\ accounts' = accounts \cup {<<nextId, new>>}
           /\ request' = [request EXCEPT ![r].at = "refresh", ![r].id = nextId]
  <2> DEFINE x == [request[r] EXCEPT !.at = "refresh", !.id = nextId]
  <2>1. x \in Request /\ x.at = "refresh" /\ x.id = nextId /\ x.email = new
    BY <1>1, <1>2 DEF Request
  <2>2. request' = [request EXCEPT ![r] = x]
    BY <1>3 DEF IInv, TypeOK
  <2> HIDE DEF x
  <2>3. request'[r] = x /\ \A y \in Requests : y # r => request'[y] = request[y]
    BY <2>2 DEF IInv, TypeOK
  <2>4. users'[nextId] = new /\ \A i \in Ids : i # nextId => users'[i] = users[i]
    BY <1>2, <1>3 DEF IInv, TypeOK
  <2>5. \A i \in Ids : users[i] # new
    BY <1>3 DEF ByEmail
  <2>6. TypeOK'
    <3>1. users' \in [Ids -> Emails \cup {None}]
      BY <1>1, <1>2, <1>3 DEF IInv, TypeOK
    <3>2. accounts' \in SUBSET (Ids \X Emails)
      BY <1>1, <1>2, <1>3 DEF IInv, TypeOK
    <3>3. request' \in [Requests -> Request \cup {None}]
      BY <2>1, <2>2 DEF IInv, TypeOK
    <3> QED
      BY <1>2, <3>1, <3>2, <3>3 DEF IInv, TypeOK
  <2>7. EmailsUnique'
    BY <2>4, <2>5 DEF IInv, EmailsUnique
  <2>8. RowsAreAccounts'
    BY <1>3, <2>4 DEF IInv, RowsAreAccounts
  <2>9. WelcomesAreAccounts' /\ SnapshotsAreAccounts'
    BY <1>2, <1>3 DEF IInv, WelcomesAreAccounts, SnapshotsAreAccounts
  <2>10. RequestsCarryAccounts'
    <3> SUFFICES ASSUME NEW y \in Requests, Carries(y)'
                 PROVE  /\ request'[y].id \in Ids /\ request'[y].email \in Emails
                        /\ <<request'[y].id, request'[y].email>> \in accounts'
      BY DEF RequestsCarryAccounts
    <3>1. CASE y = r
      BY <1>1, <1>2, <1>3, <2>1, <2>3, <3>1
    <3>2. CASE y # r
      <4>1. request'[y] = request[y] /\ Carries(y)
        BY <2>3, <3>2 DEF Carries, At
      <4>2. QED
        <5>1. /\ request[y].id \in Ids /\ request[y].email \in Emails
              /\ <<request[y].id, request[y].email>> \in accounts
          BY <4>1 DEF IInv, RequestsCarryAccounts
        <5>2. accounts \subseteq accounts'
          BY <1>3
        <5> QED
          BY <4>1, <5>1, <5>2
    <3> QED
      BY <3>1, <3>2
  <2>11. RequestsComplete'
    BY <2>1, <2>3 DEF IInv, RequestsComplete, At
  <2> QED
    BY <2>6, <2>7, <2>8, <2>9, <2>10, <2>11 DEF IInv
<1>4. CASE UNCHANGED <<users, accounts>> /\ Ends(r)
  <2>1. request'[r] = None /\ \A y \in Requests : y # r => request'[y] = request[y]
    BY <1>4 DEF Ends, IInv, TypeOK
  <2>2. TypeOK'
    <3>1. request' \in [Requests -> Request \cup {None}]
      BY <1>4 DEF IInv, TypeOK, Ends
    <3> QED
      BY <1>2, <1>4, <3>1 DEF IInv, TypeOK
  <2>3. RequestsCarryAccounts'
    BY <1>4, <2>1 DEF IInv, RequestsCarryAccounts, Carries, At
  <2>4. RequestsComplete'
    BY <2>1 DEF IInv, RequestsComplete, At
  <2> QED
    <3>1. EmailsUnique' /\ RowsAreAccounts'
      BY <1>4 DEF IInv, EmailsUnique, RowsAreAccounts
    <3>2. WelcomesAreAccounts' /\ SnapshotsAreAccounts'
      BY <1>2, <1>4 DEF IInv, WelcomesAreAccounts, SnapshotsAreAccounts
    <3> QED
      BY <2>2, <2>3, <2>4, <3>1, <3>2 DEF IInv
<1> QED
  BY <1>3, <1>4 DEF Commit

(* The welcome goes out with what the request carries. *)
LEMMA RefreshInv ==
  ASSUME IInv, NEW r \in Requests, Refresh(r)
  PROVE  IInv'
<1>1. <<request[r].id, request[r].email>> \in accounts
      /\ request[r].id \in Ids /\ request[r].email \in Emails
  BY DEF Refresh, IInv, RequestsCarryAccounts, Carries
<1>2. /\ UNCHANGED <<users, nextId, snapshots, accounts>> /\ Ends(r)
      /\ welcomes' \subseteq welcomes \cup {<<request[r].id, request[r].email>>}
  BY DEF Refresh
<1>3. request'[r] = None /\ \A y \in Requests : y # r => request'[y] = request[y]
  BY <1>2 DEF Ends, IInv, TypeOK
<1>4. TypeOK'
  <2>1. request' \in [Requests -> Request \cup {None}]
    BY <1>2 DEF IInv, TypeOK, Ends
  <2>2. welcomes' \in SUBSET (Ids \X Emails)
    BY <1>1, <1>2 DEF IInv, TypeOK
  <2> QED
    BY <1>2, <2>1, <2>2 DEF IInv, TypeOK
<1>5. WelcomesAreAccounts'
  BY <1>1, <1>2 DEF IInv, WelcomesAreAccounts
<1>6. EmailsUnique' /\ RowsAreAccounts' /\ SnapshotsAreAccounts'
  BY <1>2 DEF IInv, EmailsUnique, RowsAreAccounts, SnapshotsAreAccounts
<1>7. RequestsCarryAccounts' /\ RequestsComplete'
  BY <1>2, <1>3 DEF IInv, RequestsCarryAccounts, RequestsComplete, Carries, At
<1> QED
  BY <1>4, <1>5, <1>6, <1>7 DEF IInv

(* So does the snapshot. *)
LEMMA SetSnapshotInv ==
  ASSUME IInv, NEW r \in Requests, SetSnapshot(r)
  PROVE  IInv'
<1>1. <<request[r].id, request[r].email>> \in accounts
      /\ request[r].id \in Ids /\ request[r].email \in Emails
      /\ request[r] # None /\ request[r] \in Request
  BY RequestType DEF SetSnapshot, IInv, RequestsCarryAccounts, Carries, At
<1> DEFINE x == [request[r] EXCEPT !.at = "admitted"]
<1>2. x \in Request /\ x.at = "admitted"
  BY <1>1 DEF Request
<1>3. request' = [request EXCEPT ![r] = x] /\ UNCHANGED <<users, nextId, welcomes, accounts>>
  BY DEF SetSnapshot, Goes, IInv, TypeOK
<1> HIDE DEF x
<1>4. request'[r] = x /\ \A y \in Requests : y # r => request'[y] = request[y]
  BY <1>3 DEF IInv, TypeOK
<1>5. snapshots' \in [Ids -> Emails \cup {None}]
  BY <1>1 DEF SetSnapshot, IInv, TypeOK
<1>6. \A i \in Ids : snapshots'[i] = snapshots[i]
                    \/ (i = request[r].id /\ snapshots'[i] = request[r].email)
  BY <1>1 DEF SetSnapshot, IInv, TypeOK
<1>7. SnapshotsAreAccounts'
  BY <1>1, <1>3, <1>6 DEF IInv, SnapshotsAreAccounts
<1>8. TypeOK'
  BY <1>2, <1>3, <1>5 DEF IInv, TypeOK
<1>9. EmailsUnique' /\ RowsAreAccounts' /\ WelcomesAreAccounts'
  BY <1>3 DEF IInv, EmailsUnique, RowsAreAccounts, WelcomesAreAccounts
<1>10. RequestsCarryAccounts' /\ RequestsComplete'
  BY <1>2, <1>3, <1>4 DEF IInv, RequestsCarryAccounts, RequestsComplete, Carries, At
<1> QED
  BY <1>7, <1>8, <1>9, <1>10 DEF IInv

(* Rows and snapshots that go away leave nothing behind that is wrong. *)
LEMMA RemovalInv ==
  ASSUME IInv, NEW i \in Ids, Expire(i) \/ DeleteUser(i)
  PROVE  IInv'
<1>1. UNCHANGED <<nextId, welcomes, accounts, request>>
  BY DEF Expire, DeleteUser
<1>2. TypeOK'
  BY DEF IInv, TypeOK, Expire, DeleteUser
<1>3. \A j \in Ids : users'[j] \in {users[j], None} /\ snapshots'[j] \in {snapshots[j], None}
  BY DEF IInv, TypeOK, Expire, DeleteUser
<1>4. EmailsUnique' /\ RowsAreAccounts' /\ SnapshotsAreAccounts' /\ WelcomesAreAccounts'
  BY <1>1, <1>3
  DEF IInv, EmailsUnique, RowsAreAccounts, SnapshotsAreAccounts, WelcomesAreAccounts
<1>5. RequestsCarryAccounts' /\ RequestsComplete'
  BY <1>1 DEF IInv, RequestsCarryAccounts, RequestsComplete, Carries, At
<1> QED
  BY <1>2, <1>4, <1>5 DEF IInv

LEMMA InvNext == IInv /\ [Next]_vars => IInv'
<1> SUFFICES ASSUME IInv, [Next]_vars PROVE IInv'
  OBVIOUS
<1>1. ASSUME NEW r \in Requests, Arrival(r) \/ Step(r) \/ Dies(r) PROVE IInv'
  BY <1>1, ArrivalInv, ReadInv, CommitInv, RefreshInv, SetSnapshotInv DEF Step
<1>2. ASSUME NEW i \in Ids, Expire(i) \/ DeleteUser(i) PROVE IInv'
  BY <1>2, RemovalInv
<1>3. CASE UNCHANGED vars
  BY <1>3
  DEF vars, IInv, TypeOK, EmailsUnique, WelcomesAreAccounts, SnapshotsAreAccounts,
      RowsAreAccounts, RequestsCarryAccounts, RequestsComplete, Carries, At
<1> QED
  BY <1>1, <1>2, <1>3 DEF Next

LEMMA Invariance == Spec => []IInv
BY InvInit, InvNext, PTL DEF Spec

-----------------------------------------------------------------------------
(* Every variable keeps its type. *)
THEOREM TypeCorrect == Spec => []TypeOK
<1>1. IInv => TypeOK
  BY DEF IInv
<1> QED
  BY <1>1, Invariance, PTL

(* Two users never share an email. *)
THEOREM OneUserPerEmail == Spec => []EmailsUnique
<1>1. IInv => EmailsUnique
  BY DEF IInv
<1> QED
  BY <1>1, Invariance, PTL

(* A welcome goes to a committed account at its own address. *)
THEOREM WelcomesCorrect == Spec => []WelcomesAreAccounts
<1>1. IInv => WelcomesAreAccounts
  BY DEF IInv
<1> QED
  BY <1>1, Invariance, PTL

(* A snapshot shows what its user registered with. *)
THEOREM SnapshotsCorrect == Spec => []SnapshotsAreAccounts
<1>1. IInv => SnapshotsAreAccounts
  BY DEF IInv
<1> QED
  BY <1>1, Invariance, PTL

-----------------------------------------------------------------------------
(* A deleted user whose snapshot is gone, and that no request has read.    *)
LockedOut(i) ==
  /\ i < nextId /\ users[i] = None /\ snapshots[i] = None
  /\ \A r \in Requests : At(r, "set") => request[r].id # i

AdmittedAs(r, i) == At(r, "admitted") /\ request[r].id = i

(* What a request of a locked out user may do next: nothing that admits it *)
(* or brings the snapshot back.                                            *)
LEMMA LockedOutRequest ==
  ASSUME IInv, NEW i \in Ids, LockedOut(i), NEW r \in Requests, Arrival(r) \/ Step(r) \/ Dies(r)
  PROVE  /\ \A y \in Requests : y # r => request'[y] = request[y]
         /\ At(r, "set")' => request'[r].id # i
         /\ AdmittedAs(r, i)' => AdmittedAs(r, i)
<1>0. request \in [Requests -> Request \cup {None}]
      /\ (request[r] # None => request[r] \in Request)
  BY DEF IInv, TypeOK
<1>1. CASE Arrival(r)
  <2>0. PICK p \in {"check", "lookup", "get"} : \E e, j, b : Arrives(r, p, e, j, b)
    BY <1>1 DEF Arrival, Register, Login, Authenticate
  <2>1. PICK e, j, b : Arrives(r, p, e, j, b)
    BY <2>0
  <2>2. /\ request'[r] = [at |-> p, email |-> e, id |-> j, existed |-> b]
        /\ \A y \in Requests : y # r => request'[y] = request[y]
    BY <1>0, <2>1 DEF Arrives
  <2>3. request'[r].at = p
    BY <2>2
  <2> QED
    BY <2>2, <2>3 DEF At, AdmittedAs
<1>2. CASE Ends(r)
  BY <1>0, <1>2 DEF Ends, At, AdmittedAs
<1>3. ASSUME NEW p \in {"commit", "select", "admitted"}, request[r] # None, Goes(r, p)
      PROVE  /\ request'[r].at = p /\ request'[r].id = request[r].id
             /\ \A y \in Requests : y # r => request'[y] = request[y]
  BY <1>0, <1>3 DEF Goes, Request
<1>4. CASE CheckEmail(r) /\ ~Ends(r)
  BY <1>3, <1>4 DEF CheckEmail, At, AdmittedAs
<1>5. CASE GetSnapshot(r)
  <2>1. CASE Goes(r, "select")
    BY <1>3, <1>5, <2>1 DEF GetSnapshot, At, AdmittedAs
  <2>2. CASE snapshots[request[r].id] # None /\ Goes(r, "admitted")
    <3>1. request[r].id # i
      BY <2>2 DEF LockedOut
    <3> QED
      BY <1>3, <1>5, <2>2, <3>1 DEF GetSnapshot, At, AdmittedAs
  <2> QED
    BY <1>5, <2>1, <2>2 DEF GetSnapshot
<1>6. CASE SetSnapshot(r)
  <2>1. request[r].id # i
    BY <1>6 DEF SetSnapshot, LockedOut
  <2> QED
    BY <1>3, <1>6, <2>1 DEF SetSnapshot, At, AdmittedAs
<1>7. CASE Commit(r) /\ ~Ends(r)
  <2>1. request[r] # None /\ request' = [request EXCEPT ![r].at = "refresh", ![r].id = nextId]
    BY <1>7 DEF Commit, At
  <2>2. /\ request'[r].at = "refresh"
        /\ \A y \in Requests : y # r => request'[y] = request[y]
    BY <1>0, <2>1 DEF Request
  <2> QED
    BY <2>2 DEF At, AdmittedAs
<1>8. CASE Lookup(r) /\ ~Ends(r)
  <2>1. PICK j \in ByEmail(request[r].email) :
          request' = [request EXCEPT ![r].at = "set", ![r].id = j, ![r].existed = TRUE]
    BY <1>8 DEF Lookup
  <2>2. request[r] # None /\ request[r].email \in Emails
    BY <1>8 DEF Lookup, At, IInv, RequestsComplete
  <2>3. j # i
    BY <2>2, AccountAssumption DEF ByEmail, LockedOut
  <2>4. /\ request'[r].at = "set" /\ request'[r].id = j
        /\ \A y \in Requests : y # r => request'[y] = request[y]
    BY <1>0, <2>1, <2>2 DEF Request
  <2> QED
    BY <2>3, <2>4 DEF At, AdmittedAs
<1>9. CASE SelectUser(r) /\ ~Ends(r)
  <2>1. /\ request[r] # None /\ users[request[r].id] # None
        /\ request' = [request EXCEPT ![r].at = "set", ![r].email = users[request[r].id]]
    BY <1>9 DEF SelectUser, At
  <2>2. request[r].id # i
    BY <2>1 DEF LockedOut
  <2>3. /\ request'[r].at = "set" /\ request'[r].id = request[r].id
        /\ \A y \in Requests : y # r => request'[y] = request[y]
    BY <1>0, <2>1 DEF Request
  <2> QED
    BY <2>2, <2>3 DEF At, AdmittedAs
<1> QED
  BY <1>1, <1>2, <1>4, <1>5, <1>6, <1>7, <1>8, <1>9
  DEF Step, Refresh, Respond, Dies

(* Once the snapshot of a deleted user is gone and no request that read    *)
(* the row is still to cache it, the user is locked out for good: no       *)
(* request or login caches a snapshot or is admitted any more, and the id  *)
(* is never given to another account.                                      *)
StayLockedOut ==
  [][\A i \in Ids : LockedOut(i) =>
       LockedOut(i)' /\ \A r \in Requests : AdmittedAs(r, i)' => AdmittedAs(r, i)]_vars

(* A locked out user is not let in again by any order of requests. *)
THEOREM LockedOutForGood == Spec => StayLockedOut
<1>1. IInv /\ [Next]_vars =>
        [\A i \in Ids : LockedOut(i) =>
           LockedOut(i)' /\ \A r \in Requests : AdmittedAs(r, i)' => AdmittedAs(r, i)]_vars
  <2> SUFFICES ASSUME IInv, Next, NEW i \in Ids, LockedOut(i)
               PROVE  LockedOut(i)' /\ \A r \in Requests : AdmittedAs(r, i)' => AdmittedAs(r, i)
    OBVIOUS
  <2>1. i \in Nat /\ nextId \in Nat /\ i # nextId
    BY AccountAssumption DEF IInv, TypeOK, LockedOut, Ids
  <2>2. ASSUME NEW r \in Requests, Arrival(r) \/ Step(r) \/ Dies(r)
        PROVE  LockedOut(i)' /\ \A y \in Requests : AdmittedAs(y, i)' => AdmittedAs(y, i)
    <3>1. nextId' \in {nextId, nextId + 1} /\ users'[i] = None
      BY <2>1, <2>2
      DEF LockedOut, IInv, TypeOK, Arrival, Register, Login, Authenticate, Arrives, Step, Dies,
          CheckEmail, Commit, Refresh, Lookup, GetSnapshot, SelectUser, SetSnapshot, Respond
    <3>2. snapshots'[i] = None
      <4>1. CASE SetSnapshot(r)
        BY <4>1 DEF SetSnapshot, LockedOut, IInv, TypeOK
      <4>2. CASE ~SetSnapshot(r)
        BY <2>2, <4>2
        DEF LockedOut, Arrival, Register, Login, Authenticate, Arrives, Step, Dies,
            CheckEmail, Commit, Refresh, Lookup, GetSnapshot, SelectUser, Respond
      <4> QED
        BY <4>1, <4>2
    <3>3. \A y \in Requests : At(y, "set")' => request'[y].id # i
      BY <2>2, LockedOutRequest DEF At, LockedOut
    <3>4. \A y \in Requests : AdmittedAs(y, i)' => AdmittedAs(y, i)
      BY <2>2, LockedOutRequest DEF At, AdmittedAs
    <3>5. i < nextId'
      BY <2>1, <3>1 DEF LockedOut
    <3> QED
      BY <3>1, <3>2, <3>3, <3>4, <3>5 DEF LockedOut
  <2>3. ASSUME NEW j \in Ids, Expire(j) \/ DeleteUser(j)
        PROVE  LockedOut(i)' /\ \A y \in Requests : AdmittedAs(y, i)' => AdmittedAs(y, i)
    <3>1. UNCHANGED <<nextId, request>> /\ users'[i] = None /\ snapshots'[i] = None
      BY <2>3 DEF Expire, DeleteUser, LockedOut, IInv, TypeOK
    <3> QED
      BY <3>1 DEF LockedOut, AdmittedAs, At
  <2> QED
    BY <2>2, <2>3 DEF Next
<1> QED
  BY <1>1, Invariance, PTL DEF Spec, StayLockedOut
=============================================================================
