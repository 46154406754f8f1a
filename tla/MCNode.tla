-------------------------------- MODULE MCNode --------------------------------
(* Instance of Node for TLC: jobs and tasks are interchangeable.           *)
EXTENDS Node

Interchangeable == Permutations(Jobs) \cup Permutations(Tasks)
=============================================================================
