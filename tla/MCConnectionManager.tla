------------------------- MODULE MCConnectionManager -------------------------
(* Two users; Owner gives the first user two sockets and the second the rest. *)
EXTENDS ConnectionManager

CONSTANTS u1, u2, w1, w2, w3

MCOwner == [w \in Sockets |-> IF w \in {w1, w2} THEN u1 ELSE u2]
=============================================================================
