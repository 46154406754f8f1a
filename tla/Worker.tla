-------------------------------- MODULE Worker --------------------------------
(***************************************************************************)
(* What the two workers of a node share (trait Worker, node/src/worker.rs):*)
(* the record of a worker, its answers and its caches.  A worker value has *)
(*                                                                         *)
(*   free_executors  the stack of executors without a task                 *)
(*   assignments     (job, task) |-> executor                              *)
(*   executors       executor |-> what is in its hands                     *)
(*   job_cache       jobs whose library or module is kept, latest first    *)
(*   job_args        jobs whose arguments are kept, latest first           *)
(*   panicked        an expect() or unwrap() of the event loop has failed  *)
(*                                                                         *)
(* A task is known by its key, the pair of its job and its number.  The    *)
(* data of tasks and results is left out; a Result and a                   *)
(* TaskExecutionError both answer one task and are not told apart.         *)
(***************************************************************************)
EXTENDS Collections, FiniteSetsExt

CONSTANTS
    Jobs,
    Tasks,
    NumExecutors,   \* available_parallelism()
    CacheSize       \* capacity of the LRU caches: 10

ASSUME WorkerAssumption == NumExecutors \in Nat \ {0} /\ CacheSize \in Nat \ {0}

Key == Jobs \X Tasks
Empty == [x \in {} |-> x]

(* A request for one job; a replacement is a pair (old task, new task). *)
Request == [job : Jobs, job_data : BOOLEAN, replacements : Seq(Tasks \X Tasks), tasks : Seq(Tasks)]

Asks(r) == {<<r.job, t>> : t \in ToSet(r.tasks) \cup {p[2] : p \in ToSet(r.replacements)}}
Gives(r) == {<<r.job, p[1]>> : p \in ToSet(r.replacements)}

(* A response, by the tasks it settles; NoResponse is None, or Ok(()). *)
Response(type, keys) == [type |-> type, keys |-> keys]
NoResponse == Response("None", {})
Responses == [type : {"None", "LibraryMissing", "NoFreeExecutors", "Answer"}, keys : SUBSET Key]

(* An executor: jobs sent to it, whether it has received the first, the    *)
(* results not yet read, whether it lives, whether StreamMap still polls   *)
(* it, and the notification of an abort it has not consumed.               *)
Idle == [jobs |-> <<>>, running |-> FALSE, results |-> <<>>,
         alive |-> TRUE, polled |-> TRUE, notified |-> FALSE]

Executor == [jobs : Seq(Key), running : BOOLEAN, results : Seq(Key),
             alive : BOOLEAN, polled : BOOLEAN, notified : BOOLEAN]

InHand(x) == ToSet(x.jobs) \cup ToSet(x.results)

IsMap(f, K, V) == f = [x \in DOMAIN f |-> f[x]] /\ \A x \in DOMAIN f : x \in K /\ f[x] \in V

IsWorker(w) ==
    /\ w = [free_executors |-> w.free_executors, assignments |-> w.assignments,
            executors |-> w.executors, job_cache |-> w.job_cache, job_args |-> w.job_args,
            panicked |-> w.panicked]
    /\ IsMap(w.executors, Nat, Executor)
    /\ IsMap(w.assignments, Key, Nat)
    /\ w.free_executors \in Seq(DOMAIN w.executors)
    /\ w.job_cache \in Seq(Jobs) /\ Len(w.job_cache) <= CacheSize
    /\ w.job_args \in Seq(Jobs) /\ Len(w.job_args) <= CacheSize
    /\ w.panicked \in BOOLEAN

(* LruCache::get and LruCache::push. *)
Promote(cache, job) == <<job>> \o Drop(cache, job)
Push(cache, job) == SubSeq(Promote(cache, job), 1, Min({CacheSize, Len(Promote(cache, job))}))
-----------------------------------------------------------------------------
(* What the two implementations have in common, line by line.              *)
Free(w, e) == [w EXCEPT !.free_executors = Append(@, e)]

new ==
    [free_executors |-> [i \in 1 .. NumExecutors |-> i], assignments |-> Empty,
     executors |-> [e \in 1 .. NumExecutors |-> Idle],
     job_cache |-> <<>>, job_args |-> <<>>, panicked |-> FALSE]

(* start_job expects the executor to be there: one that has died panics.   *)
start_job(w, e, key) ==
    LET x == w.executors[e]
    IN  IF x.alive
        THEN [w EXCEPT !.executors = [@ EXCEPT ![e] = [x EXCEPT !.jobs = Append(x.jobs, key)]]]
        ELSE [w EXCEPT !.panicked = TRUE]

assign_task(w, e, key) ==
    LET assigned == [w EXCEPT !.assignments = With(w.assignments, key, e)]
    IN  IF e \notin DOMAIN w.executors THEN w
        ELSE IF Contains(w.job_args, key[1])
        THEN start_job([assigned EXCEPT !.job_args = Promote(w.job_args, key[1])], e, key)
        ELSE assigned

AssignForgettingOne(w, job, tasks) ==
    [worker |-> IF tasks = <<>> \/ w.free_executors = <<>> THEN w
                ELSE assign_task([w EXCEPT !.free_executors = Front(@)],
                                 Last(w.free_executors), <<job, Last(tasks)>>),
     response |-> NoResponse]

(* Tasks are taken from the back; those that find no executor are refused. *)
AssignNext(s, key) ==
    LET w == s.worker
    IN  IF w.free_executors = <<>> THEN [worker |-> w, refused |-> s.refused \cup {key}]
        ELSE [worker |-> assign_task([w EXCEPT !.free_executors = Front(w.free_executors)],
                                     Last(w.free_executors), key),
              refused |-> s.refused]

Assigning(w, job, tasks) ==
    LET after[k \in 0 .. Len(tasks)] ==
            IF k = 0 THEN [worker |-> w, refused |-> {}]
            ELSE AssignNext(after[k - 1], <<job, tasks[Len(tasks) - k + 1]>>)
    IN  after

process_tasks_assignment(w, job, tasks) ==
    LET all == Assigning(w, job, tasks)[Len(tasks)]
    IN  [worker |-> all.worker,
         response |-> IF all.refused = {} THEN NoResponse
                      ELSE Response("NoFreeExecutors", all.refused)]

(* A result: answered and its executor freed, if it is still assigned.     *)
Result(w, e) ==
    LET x == w.executors[e]
        key == Head(x.results)
        read == [w EXCEPT !.executors = [@ EXCEPT ![e] = [x EXCEPT !.results = Tail(x.results)]]]
    IN  IF key \in DOMAIN w.assignments
        THEN [worker |-> Free([read EXCEPT !.assignments = Without(w.assignments, key)],
                              w.assignments[key]),
              response |-> Response("Answer", {key})]
        ELSE [worker |-> read, response |-> NoResponse]

(* The end of an executor's stream: StreamMap forgets it. *)
StreamEnds(w, e) ==
    [worker |-> [w EXCEPT !.executors = [@ EXCEPT ![e] = [w.executors[e] EXCEPT !.polled = FALSE]]],
     response |-> NoResponse]

(* The executor sends the result of the job it runs. *)
send_result(x) ==
    [x EXCEPT !.running = FALSE, !.jobs = Tail(x.jobs), !.results = Append(x.results, Head(x.jobs))]
=============================================================================
