------------------------- MODULE MCWebSocketSession -------------------------
(* Sockets of one user; every session has its four coroutines.   *)
EXTENDS WebSocketSession

CONSTANTS u1, w1, w2

MCCallers == Sockets \X Roles
MCOwner == [w \in Sockets |-> u1]
=============================================================================
