--------------------------- MODULE MCPriorityQueue ---------------------------
(* No definition of PriorityQueue tells ids apart. *)
EXTENDS PriorityQueue, TLC

Symmetry == Permutations(Ids)
=============================================================================
