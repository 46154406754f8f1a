------------------------------ MODULE WasmWorker ------------------------------
(***************************************************************************)
(* The worker whose executors are threads that run a WebAssembly component *)
(* (node/src/wasm/wasm_worker.rs, wasm_executor.rs).  An executor is never *)
(* restarted: it is aborted, by a notification its thread consumes when it *)
(* next looks at it.  Whether a module is kept as source or compiled makes *)
(* no difference to its users and is left out.                             *)
(***************************************************************************)
EXTENDS Worker

(* WasmExecutor::abort: one notification is kept, however many are sent. *)
abort(x) == [x EXCEPT !.notified = TRUE]

abort_executor(w, e) ==
    IF e \in DOMAIN w.executors
    THEN [w EXCEPT !.executors = [@ EXCEPT ![e] = abort(w.executors[e])]]
    ELSE w

(* assign_task with need_abort. *)
wasm_replace(w, old, key) ==
    LET removed == [w EXCEPT !.assignments = Without(w.assignments, old)]
        e == w.assignments[old]
    IN  IF old \in DOMAIN w.assignments THEN assign_task(abort_executor(removed, e), e, key) ELSE w

wasm_replacing(w, job, replacements) ==
    LET after[k \in 0 .. Len(replacements)] ==
            IF k = 0 THEN w
            ELSE wasm_replace(after[k - 1], <<job, replacements[k][1]>>, <<job, replacements[k][2]>>)
    IN  after

(* contains() leaves the order of the modules alone, unlike the arguments'. *)
HasModule(w, request) == Contains(w.job_cache, request.job) \/ request.job_data

process_module(w, request) ==
    IF Contains(w.job_cache, request.job) THEN w
    ELSE [w EXCEPT !.job_cache = Push(w.job_cache, request.job),
                   !.job_args = Push(w.job_args, request.job)]

wasm_process_request(w, request) ==
    IF HasModule(w, request)
    THEN process_tasks_assignment(
            wasm_replacing(process_module(w, request), request.job, request.replacements)
                [Len(request.replacements)],
            request.job, request.tasks)
    ELSE [worker |-> w, response |-> Response("LibraryMissing", Asks(request))]

(* A result, or the end of the stream of a thread that has panicked. *)
wasm_process_message(w, e) ==
    LET x == w.executors[e]
    IN  (IF x.polled /\ x.results # <<>> THEN {Result(w, e)} ELSE {})
          \cup (IF x.polled /\ ~x.alive /\ x.results = <<>> THEN {StreamEnds(w, e)} ELSE {})

(* Every assigned executor is aborted and freed. *)
AbortNext(w, e) == Free(abort_executor(w, e), e)

wasm_resetting(w, ids) ==
    LET after[k \in 0 .. Len(ids)] ==
            IF k = 0 THEN w ELSE AbortNext(after[k - 1], ids[k])
    IN  after

wasm_reset(w) ==
    LET order == SetToSeq(DOMAIN w.assignments)
        ids == [i \in DOMAIN order |-> w.assignments[order[i]]]
    IN  [wasm_resetting(w, ids)[Len(ids)] EXCEPT !.assignments = Empty]
-----------------------------------------------------------------------------
(* The executor thread: select! over a notification and execute().         *)
(* execute() first receives a job; peek().unwrap() panics if the module    *)
(* has been evicted since the job was sent.                                *)
execute(x, cache) ==
    IF Contains(cache, Head(x.jobs)[1]) THEN [x EXCEPT !.running = TRUE]
    ELSE [x EXCEPT !.alive = FALSE, !.jobs = <<>>]

(* A notification drops execute() and with it a job it has received.       *)
interrupted(x) ==
    [x EXCEPT !.notified = FALSE, !.running = FALSE,
              !.jobs = IF x.running THEN Tail(x.jobs) ELSE x.jobs]
=============================================================================
