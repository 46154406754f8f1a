---------------------------- MODULE MCNodeManager ----------------------------
(* Instance of NodeManager for TLC: ids, keys and peers are interchangeable. *)
EXTENDS NodeManager

Interchangeable ==
    Permutations(Nodes) \cup Permutations(Schedulers) \cup Permutations(WorkerIds)
        \cup Permutations(SchedulerIds) \cup Permutations(Keys)
=============================================================================
