----------------------------- MODULE TaskStore -----------------------------
(***************************************************************************)
(* What task requests promise about the table, whatever they cache, query  *)
(* or publish and wherever they die: each takes effect at most once, in    *)
(* one step, on a row of its user.  A create takes the next id; an update  *)
(* writes the columns asked for and no other, except those that already    *)
(* had the wanted value at some moment since it was asked; a deleted row   *)
(* is written no more.                                                     *)
(***************************************************************************)
EXTENDS Naturals

CONSTANTS Users, Titles, Statuses, Writers, MaxId, None

VARIABLES
  table,  \* a row or None for each id
  next,   \* the id of the next row
  asked   \* requests that have had no effect yet, and what is left to write

storeVars == <<table, next, asked>>

Ids == 1 .. MaxId
Wanted == [title : Titles \cup {None}, status : Statuses \cup {None}]
Nothing == [title |-> None, status |-> None]

Init ==
  /\ table = [i \in Ids |-> None]
  /\ next = 1
  /\ asked = [r \in Writers |-> None]

Asks(r, op) == asked[r] # None /\ asked[r].op = op
Mine(r) == table[asked[r].id] # None /\ table[asked[r].id].owner = asked[r].user
Settled(r) == asked' = [asked EXCEPT ![r] = None]

Ask(r) ==
  /\ asked[r] = None
  /\ \E op \in {"create", "update", "delete"}, u \in Users, i \in Ids \cup {0}, want \in Wanted :
       asked' = [asked EXCEPT ![r] = [op |-> op, user |-> u, id |-> i, want |-> want]]
  /\ UNCHANGED <<table, next>>

Create(r) ==
  /\ Asks(r, "create")
  /\ next <= MaxId
  /\ table' = [table EXCEPT ![next] = [owner |-> asked[r].user, title |-> asked[r].want.title,
                                       status |-> asked[r].want.status]]
  /\ next' = next + 1
  /\ Settled(r)

(* The columns that have the wanted value need not be written any more. *)
Meet(r) ==
  /\ Asks(r, "update") /\ Mine(r)
  /\ LET row == table[asked[r].id]  want == asked[r].want
     IN asked' = [asked EXCEPT ![r].want =
          [title |-> IF want.title = row.title THEN None ELSE want.title,
           status |-> IF want.status = row.status THEN None ELSE want.status]]
  /\ UNCHANGED <<table, next>>

(* With nothing left to write it does not matter what became of the row. *)
Change(r) ==
  /\ Asks(r, "update")
  /\ LET want == asked[r].want
     IN \/ want = Nothing /\ UNCHANGED table
        \/ /\ Mine(r)
           /\ table' = [table EXCEPT ![asked[r].id] =
                [owner |-> @.owner,
                 title |-> IF want.title = None THEN @.title ELSE want.title,
                 status |-> IF want.status = None THEN @.status ELSE want.status]]
  /\ Settled(r)
  /\ UNCHANGED next

Remove(r) ==
  /\ Asks(r, "delete")
  /\ Mine(r) \/ table[asked[r].id] = None
  /\ table' = [table EXCEPT ![asked[r].id] = None]
  /\ Settled(r)
  /\ UNCHANGED next

(* Refused, failed or dead before it had an effect. *)
Refuse(r) ==
  /\ asked[r] # None
  /\ Settled(r)
  /\ UNCHANGED <<table, next>>

Next ==
  \E r \in Writers :
    Ask(r) \/ Create(r) \/ Meet(r) \/ Change(r) \/ Remove(r) \/ Refuse(r)

Spec == Init /\ [][Next]_storeVars
=============================================================================
