--------------------------- MODULE MCLiveUpdates ---------------------------
(* A session of one of two users. *)
EXTENDS LiveUpdates

CONSTANTS u1, u2

FirstUser == [s \in Sessions |-> u1]
=============================================================================
