----------------------------- MODULE MCScheduler -----------------------------
(* Instance of Scheduler for TLC: workers are interchangeable.             *)
EXTENDS Scheduler, TLC

WorkerSymmetry == Permutations(Workers)
=============================================================================
