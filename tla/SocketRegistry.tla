--------------------------- MODULE SocketRegistry ---------------------------
(***************************************************************************)
(* What a connection registry promises, whoever calls it: a socket is      *)
(* registered at most once and never comes back after it was dropped, one  *)
(* caller at a time writes to it, and a write starts only while the socket *)
(* is registered.  A socket may be dropped under a writer.                 *)
(***************************************************************************)
CONSTANTS Sockets, Callers, Nobody

VARIABLES
  status,  \* "new", "registered" or "dropped"
  writer   \* who is writing a frame to the socket

registryVars == <<status, writer>>

Init ==
  /\ status = [w \in Sockets |-> "new"]
  /\ writer = [w \in Sockets |-> Nobody]

Register(w) ==
  /\ status[w] = "new"
  /\ status' = [status EXCEPT ![w] = "registered"]
  /\ UNCHANGED writer

(* The socket is registered and written to before anyone else runs. *)
RegisterAndWrite(c, w) ==
  /\ status[w] = "new"
  /\ writer[w] = Nobody
  /\ status' = [status EXCEPT ![w] = "registered"]
  /\ writer' = [writer EXCEPT ![w] = c]

Drop(w) ==
  /\ status[w] # "dropped"
  /\ status' = [status EXCEPT ![w] = "dropped"]
  /\ UNCHANGED writer

StartWrite(c, w) ==
  /\ status[w] = "registered"
  /\ writer[w] = Nobody
  /\ writer' = [writer EXCEPT ![w] = c]
  /\ UNCHANGED status

EndWrite(w) ==
  /\ writer[w] # Nobody
  /\ writer' = [writer EXCEPT ![w] = Nobody]
  /\ UNCHANGED status

FailWrite(w) ==
  /\ writer[w] # Nobody
  /\ writer' = [writer EXCEPT ![w] = Nobody]
  /\ status' = [status EXCEPT ![w] = "dropped"]

Next ==
  \E w \in Sockets :
    \/ Register(w) \/ Drop(w) \/ EndWrite(w) \/ FailWrite(w)
    \/ \E c \in Callers : RegisterAndWrite(c, w) \/ StartWrite(c, w)

Spec == Init /\ [][Next]_registryVars
=============================================================================
