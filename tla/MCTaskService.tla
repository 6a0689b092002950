--------------------------- MODULE MCTaskService ---------------------------
(* Slots for write requests are interchangeable. *)
EXTENDS TaskService, TLC

Symmetry == Permutations(Writers)
=============================================================================
