------------------------------ MODULE DllWorker ------------------------------
(***************************************************************************)
(* The worker whose executors are child processes                          *)
(* (node/src/dll/dll_worker.rs, dll_executor.rs, node/executor).           *)
(* Each operator is the worker after a method; a method with a result      *)
(* gives the pair of worker and response.  An executor is known by the id  *)
(* of its process, which the system does not use again at once.            *)
(***************************************************************************)
EXTENDS Worker

-----------------------------------------------------------------------------
(* Processes.  Stopping one drops its stream, which kills it: what it held *)
(* is gone with it.                                                        *)
NextId(w) == Min((1 .. Cardinality(DOMAIN w.executors) + Cardinality(DOMAIN w.assignments) + 1)
                    \ (DOMAIN w.executors \cup Range(w.assignments)))

start_executor(w, id) == [w EXCEPT !.executors = With(w.executors, id, Idle)]

StopKeepsFree(w, e) == [w EXCEPT !.executors = Without(@, e)]

stop_executor(w, e) ==
    IF e \in DOMAIN w.executors
    THEN [w EXCEPT !.executors = Without(w.executors, e), !.free_executors = Drop(w.free_executors, e)]
    ELSE w

(* The worker and the id of the new process. *)
restart_executor(w, e) ==
    [worker |-> start_executor(stop_executor(w, e), NextId(w)), id |-> NextId(w)]
-----------------------------------------------------------------------------
(* Requests.  A task that is no longer assigned is not replaced. *)
ReplaceThenRestart(w, old, key) ==
    LET removed == [w EXCEPT !.assignments = Without(@, old)]
    IN  IF old \in DOMAIN w.assignments
        THEN restart_executor(assign_task(removed, w.assignments[old], key), w.assignments[old]).worker
        ELSE w

dll_replace(w, old, key) ==
    LET removed == [w EXCEPT !.assignments = Without(w.assignments, old)]
        fresh == restart_executor(removed, w.assignments[old])
    IN  IF old \in DOMAIN w.assignments THEN assign_task(fresh.worker, fresh.id, key) ELSE w

dll_replacing(w, job, replacements) ==
    LET after[k \in 0 .. Len(replacements)] ==
            IF k = 0 THEN w
            ELSE dll_replace(after[k - 1], <<job, replacements[k][1]>>, <<job, replacements[k][2]>>)
    IN  after

HasLibrary(w, request) == Contains(w.job_cache, request.job) \/ request.job_data

(* Only a job that is not cached takes the data of the request; pushing it *)
(* evicts the least recently used library and, separately, arguments.      *)
process_library(w, request) ==
    IF Contains(w.job_cache, request.job)
    THEN [w EXCEPT !.job_cache = Promote(w.job_cache, request.job)]
    ELSE [w EXCEPT !.job_cache = Push(w.job_cache, request.job),
                   !.job_args = Push(w.job_args, request.job)]

dll_process_request(w, request) ==
    IF HasLibrary(w, request)
    THEN process_tasks_assignment(
            dll_replacing(process_library(w, request), request.job, request.replacements)
                [Len(request.replacements)],
            request.job, request.tasks)
    ELSE [worker |-> w, response |-> Response("LibraryMissing", Asks(request))]
-----------------------------------------------------------------------------
(* What the executors' streams yield beside results.                       *)
(* A death that wait() has seen.  The id is shadowed by that of the new    *)
(* process, so the search for the task of the dead one finds nothing.      *)
Terminated(w, e) ==
    LET fresh == restart_executor(w, e)
        freed == Free(fresh.worker, fresh.id)
        found == {k \in DOMAIN w.assignments : w.assignments[k] = fresh.id}
    IN  IF found = {} THEN [worker |-> freed, response |-> NoResponse]
        ELSE LET key == CHOOSE k \in found : TRUE
             IN  [worker |-> [freed EXCEPT !.assignments = Without(w.assignments, key)],
                  response |-> Response("Answer", {key})]

(* select! drops recv() when another branch is ready while the restart     *)
(* waits for the new process to connect: that process is never entered.    *)
RecvDropped(w, e) == [worker |-> stop_executor(w, e), response |-> NoResponse]

(* What poll_next may yield for executor e; the end of the stream may be   *)
(* seen before the death.                                                  *)
dll_process_message(w, e) ==
    LET x == w.executors[e]
    IN  (IF x.polled /\ x.results # <<>> THEN {Result(w, e)} ELSE {})
          \cup (IF x.polled /\ ~x.alive THEN {Terminated(w, e), RecvDropped(w, e)} ELSE {})
          \cup (IF x.polled /\ ~x.alive /\ x.results = <<>> THEN {StreamEnds(w, e)} ELSE {})

ResetKeepsProcesses(w) ==
    FoldLeft(LAMBDA acc, key : Free(acc, w.assignments[key]),
             [w EXCEPT !.assignments = Empty], SetToSeq(DOMAIN w.assignments))

(* Every assigned executor is restarted and freed. *)
RestartNext(w, e) == LET fresh == restart_executor(w, e) IN Free(fresh.worker, fresh.id)

dll_resetting(w, ids) ==
    LET after[k \in 0 .. Len(ids)] ==
            IF k = 0 THEN w ELSE RestartNext(after[k - 1], ids[k])
    IN  after

dll_reset(w) ==
    LET order == SetToSeq(DOMAIN w.assignments)
        ids == [i \in DOMAIN order |-> w.assignments[order[i]]]
    IN  [dll_resetting(w, ids)[Len(ids)] EXCEPT !.assignments = Empty]
-----------------------------------------------------------------------------
(* The executor process: receive a job, execute it, send its result; or die.*)
recv_job(x) == [x EXCEPT !.running = TRUE]
die(x) == [x EXCEPT !.alive = FALSE, !.running = FALSE, !.jobs = <<>>]
=============================================================================
