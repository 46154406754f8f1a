------------------------------ MODULE JobService ------------------------------
(***************************************************************************)
(* What the task manager promises to whoever submits jobs: they run one at *)
(* a time in the order of their submission, each that starts gets exactly  *)
(* one result, and only a job that has not started can be withdrawn        *)
(* without one.                                                            *)
(***************************************************************************)
EXTENDS Naturals, Sequences

CONSTANTS Jobs, NoJob

VARIABLES waiting, running, results

service == <<waiting, running, results>>

Init == waiting = <<>> /\ running = NoJob /\ results = <<>>

Submit(j) ==
    /\ j # running
    /\ \A i \in DOMAIN waiting : waiting[i] # j
    /\ \A i \in DOMAIN results : results[i].job # j
    /\ waiting' = Append(waiting, j)
    /\ UNCHANGED <<running, results>>

Withdraw(i) ==
    /\ waiting' = SubSeq(waiting, 1, i - 1) \o SubSeq(waiting, i + 1, Len(waiting))
    /\ UNCHANGED <<running, results>>

Start ==
    /\ running = NoJob
    /\ waiting # <<>>
    /\ running' = Head(waiting)
    /\ waiting' = Tail(waiting)
    /\ UNCHANGED results

Finish(result) ==
    /\ running # NoJob
    /\ results' = Append(results, [job |-> running, result |-> result])
    /\ running' = NoJob
    /\ UNCHANGED waiting

Next ==
    \/ \E j \in Jobs : Submit(j)
    \/ \E i \in DOMAIN waiting : Withdraw(i)
    \/ Start
    \/ Finish("completed") \/ Finish("error")

Spec == Init /\ [][Next]_service
=============================================================================
