----------------------------- MODULE TaskManager -----------------------------
(***************************************************************************)
(* The event loop of the task manager (task_manager/src/task_manager.rs):  *)
(* a queue of jobs, of which the first is split into tasks, sent to the    *)
(* scheduler chunk by chunk and reduced when every task is answered.       *)
(*                                                                         *)
(* `select!` runs one handler at a time to its end, so every handler is    *)
(* one action.  The scheduler is an open environment that keeps to the     *)
(* order of its connection handler (handle_task_manager_queue): while the  *)
(* connection waits for the scheduler it may answer SchedulerBusy, then it *)
(* says SchedulerFree once, then come results, which may be for any task:  *)
(* messages carry no job id, and the channel the scheduler answers through *)
(* may still hold what was meant for an earlier job.                       *)
(*                                                                         *)
(* Data abstraction.  A job is its number of tasks, numbered from 1; a     *)
(* task is its number; `parts` is the set of tasks for which a result is   *)
(* stored, here or, after take(parts), in the reducer.  Whether the result *)
(* was computed for this job cannot be told from it.  Statistics and       *)
(* messages to the log are left out, and so is the waiting for the last    *)
(* results, in which process_job is called over and over without effect.   *)
(*                                                                         *)
(* necklace-task-manager has the same loop with another splitter and       *)
(* reducer, Python functions that may fail.  The module models both        *)
(* programs: a step that only one of them has is marked with its name, and *)
(* what is shown of all steps holds of either.                             *)
(***************************************************************************)
EXTENDS Integers, FiniteSets, Sequences, SequencesExt

CONSTANTS
    Jobs,       \* uuids of the jobs
    Totals,     \* numbers of tasks a job may have
    Chunk,      \* splitter.next_chunk::<128>
    NoJob       \* current_job == None

ASSUME TaskManagerAssumption ==
    /\ Totals \subseteq Nat
    /\ Chunk \in Nat \ {0}
    /\ NoJob \notin Jobs

VARIABLES
    status,             \* "running" or "stopped"
    total_tasks,        \* tasks of each job submitted so far
    jobs_queue, current_job, jobs_finished,
    state,              \* state and phase of current_job
    split,              \* number of tasks the splitter has produced
    tasks,              \* TaskSet: tasks without an answer
    parts,
    ready,              \* scheduler.ready
    need_process_job,
    link,               \* the connection: "waiting" for the scheduler or "holding" it
    announced           \* job and number of tasks last sent on this connection

job == <<current_job, state, split, tasks, parts>>
queues == <<total_tasks, jobs_queue, jobs_finished>>
connection == <<ready, link, announced>>
vars == <<status, job, queues, need_process_job, connection>>

Running == status = "running"
Nothing == [job |-> NoJob, sent |-> 0]
AllTasks == 1 .. total_tasks[current_job]

Init ==
    /\ status = "running"
    /\ total_tasks = [j \in {} |-> 0]
    /\ jobs_queue = <<>>
    /\ current_job = NoJob
    /\ jobs_finished = <<>>
    /\ state = "none"
    /\ split = 0
    /\ tasks = {}
    /\ parts = {}
    /\ ready = FALSE
    /\ need_process_job = FALSE
    /\ link = "waiting"
    /\ announced = Nothing
-----------------------------------------------------------------------------
(* start(): a handler that breaks with a result ends the current job. *)
FinishedUnrecorded(result) == jobs_finished
Finished(result) == Append(jobs_finished, [job |-> current_job, result |-> result])

Break(result) ==
    /\ IF current_job = NoJob
       THEN UNCHANGED <<job, jobs_finished>>
       ELSE /\ jobs_finished' = Finished(result)
            /\ current_job' = NoJob
            /\ state' = "none"
            /\ split' = 0
            /\ tasks' = {}
            /\ parts' = {}
-----------------------------------------------------------------------------
(* process_job. *)

TakeNextJob ==
    /\ current_job = NoJob
    /\ IF jobs_queue = <<>>
       THEN /\ need_process_job' = FALSE
            /\ UNCHANGED <<job, jobs_queue>>
       ELSE /\ current_job' = Head(jobs_queue)
            /\ jobs_queue' = Tail(jobs_queue)
            /\ state' = "not started"
            /\ UNCHANGED <<split, tasks, parts, need_process_job>>
    /\ UNCHANGED <<total_tasks, jobs_finished, connection>>

SchedulerNotReady ==
    /\ state \in {"not started", "splitting", "waiting"}
    /\ ~ready
    /\ need_process_job' = FALSE
    /\ UNCHANGED <<job, queues, connection>>

StartJob ==
    /\ state = "not started"
    /\ ready
    /\ announced' = [job |-> current_job, sent |-> 0]
    /\ state' = "splitting"
    /\ split' = 0
    /\ tasks' = {}
    /\ parts' = {}
    /\ UNCHANGED <<current_job, queues, need_process_job, ready, link>>

(* next_chunk yields Chunk tasks, or what is left if there are fewer,      *)
(* perhaps none: that chunk is sent too and ends the phase.                *)
LastChunk == total_tasks[current_job] - split < Chunk
ChunkEnd == IF LastChunk THEN total_tasks[current_job] ELSE split + Chunk

SplitChunk ==
    /\ state = "splitting"
    /\ ready
    /\ split' = ChunkEnd
    /\ tasks' = tasks \cup (split + 1 .. ChunkEnd)
    /\ announced' = [announced EXCEPT !.sent = @ + ChunkEnd - split]
    /\ state' = IF LastChunk THEN "waiting" ELSE "splitting"
    /\ UNCHANGED <<current_job, parts, queues, need_process_job, ready, link>>

FewTasksOpen == Cardinality(tasks) <= 1
NoTaskOpen == tasks = {}
AllAnswered ==
    /\ state = "waiting"
    /\ ready
    /\ NoTaskOpen
    /\ state' = "reducing"
    /\ UNCHANGED <<current_job, split, tasks, parts, queues, need_process_job, connection>>

(* The chunks of the reducer change nothing but the minimum so far. *)
ReducerExhausted ==
    /\ state = "reducing"
    /\ Break("completed")
    /\ UNCHANGED <<total_tasks, jobs_queue, need_process_job, connection>>

(* task_manager only: bincode fails on the job or on a task. *)
SerializationFails ==
    /\ state \in {"not started", "splitting"}
    /\ ready
    /\ Break("error")
    /\ UNCHANGED <<total_tasks, jobs_queue, need_process_job, connection>>

(* necklace-task-manager only: the splitter cannot be made, or fails on a  *)
(* task after others of its chunk were entered in `tasks`, and none of the *)
(* chunk is sent; or the reducer fails.                                    *)
SplitterFails ==
    /\ state \in {"not started", "splitting"}
    /\ ready
    /\ Break("error")
    /\ UNCHANGED <<total_tasks, jobs_queue, need_process_job, connection>>

ReducerFails ==
    /\ state = "reducing"
    /\ Break("error")
    /\ UNCHANGED <<total_tasks, jobs_queue, need_process_job, connection>>

process_job ==
    /\ Running
    /\ need_process_job
    /\ \/ TakeNextJob
       \/ SchedulerNotReady
       \/ StartJob
       \/ SplitChunk
       \/ AllAnswered
       \/ ReducerExhausted
       \/ SerializationFails
       \/ SplitterFails
       \/ ReducerFails
    /\ UNCHANGED status
-----------------------------------------------------------------------------
(* process_scheduler. *)

(* process_result, for the results of TaskResults or JobComplete.          *)
StoredOfAny(results) == parts \cup results
Stored(results) == parts \cup (tasks \cap results)

Results(results) ==
    /\ Running
    /\ link = "holding"
    /\ IF state \in {"splitting", "waiting", "reducing"}
       THEN /\ tasks' = tasks \ results
            /\ parts' = Stored(results)
       ELSE UNCHANGED <<tasks, parts>>
    /\ UNCHANGED <<status, current_job, state, split, queues, need_process_job, connection>>

(* task_manager only: the necklace's results are decoded by its reducer. *)
UndecodableResult ==
    /\ Running
    /\ link = "holding"
    /\ state \in {"splitting", "waiting", "reducing"}
    /\ Break("error")
    /\ UNCHANGED <<status, total_tasks, jobs_queue, need_process_job, connection>>

TaskExecutionError ==
    /\ Running
    /\ link = "holding"
    /\ Break("error")
    /\ UNCHANGED <<status, total_tasks, jobs_queue, need_process_job, connection>>

(* A job the scheduler has not finished starts again. *)
NotRestarted == state
RestartedAlways == "not started"
Restarted == IF state \in {"splitting", "waiting"} THEN "not started" ELSE state

Restart ==
    /\ state' = Restarted
    /\ IF state' = state
       THEN UNCHANGED <<split, tasks, parts>>
       ELSE split' = 0 /\ tasks' = {} /\ parts' = {}
    /\ UNCHANGED current_job

(* SchedulerConnection::reconnect: new channels, so that nothing of the    *)
(* old connection is delivered any more.                                   *)
SchedulerDisconnected ==
    /\ Running
    /\ ready' = FALSE
    /\ link' = "waiting"
    /\ announced' = Nothing
    /\ Restart
    /\ UNCHANGED <<status, queues, need_process_job>>

SchedulerBusy ==
    /\ Running
    /\ link = "waiting"
    /\ ready' = FALSE
    /\ Restart
    /\ UNCHANGED <<status, queues, need_process_job, link, announced>>

WakeNever == need_process_job
WakeOnFree == TRUE

SchedulerFree ==
    /\ Running
    /\ link = "waiting"
    /\ link' = "holding"
    /\ ready' = TRUE
    /\ need_process_job' = WakeOnFree
    /\ UNCHANGED <<status, job, queues, announced>>

ConnectionNotEstablished ==
    /\ Running
    /\ link = "waiting"
    /\ status' = "stopped"
    /\ UNCHANGED <<job, queues, need_process_job, connection>>
-----------------------------------------------------------------------------
(* process_command. *)

AddJob(j, total) ==
    /\ Running
    /\ j \notin DOMAIN total_tasks
    /\ total_tasks' = [k \in DOMAIN total_tasks \cup {j} |->
                          IF k = j THEN total ELSE total_tasks[k]]
    /\ jobs_queue' = Append(jobs_queue, j)
    /\ need_process_job' = TRUE
    /\ UNCHANGED <<status, job, jobs_finished, connection>>

(* The scheduler is not told. *)
CancelCurrent ==
    /\ Running
    /\ current_job # NoJob
    /\ Break("error")
    /\ UNCHANGED <<status, total_tasks, jobs_queue, need_process_job, connection>>

CancelQueued(i) ==
    /\ Running
    /\ jobs_queue' = RemoveAt(jobs_queue, i)
    /\ UNCHANGED <<status, job, total_tasks, jobs_finished, need_process_job, connection>>
-----------------------------------------------------------------------------
Next ==
    \/ process_job
    \/ \E results \in SUBSET (1 .. Max(Totals \cup {0})) : Results(results)
    \/ UndecodableResult
    \/ TaskExecutionError
    \/ SchedulerDisconnected
    \/ SchedulerBusy
    \/ SchedulerFree
    \/ ConnectionNotEstablished
    \/ \E j \in Jobs, total \in Totals : AddJob(j, total)
    \/ CancelCurrent
    \/ \E i \in DOMAIN jobs_queue : CancelQueued(i)

Spec == Init /\ [][Next]_vars

(* select! polls its branches in random order, so process_job, once it     *)
(* stays ready, is chosen in the end.                                      *)
FairSpec == Spec /\ WF_vars(process_job)
-----------------------------------------------------------------------------
(* Types of the task manager's state (struct TaskManager, Job, JobState).  *)
TypeOK ==
    /\ status \in {"running", "stopped"}
    /\ DOMAIN total_tasks \subseteq Jobs
    /\ \A j \in DOMAIN total_tasks : total_tasks[j] \in Totals
    /\ jobs_queue \in Seq(DOMAIN total_tasks)
    /\ current_job \in DOMAIN total_tasks \cup {NoJob}
    /\ jobs_finished \in Seq([job: DOMAIN total_tasks, result: {"completed", "error"}])
    /\ state \in IF current_job = NoJob THEN {"none"}
                  ELSE {"not started", "splitting", "waiting", "reducing"}
    /\ split \in Nat
    /\ tasks \subseteq Nat
    /\ parts \subseteq Nat
    /\ ready \in BOOLEAN
    /\ need_process_job \in BOOLEAN
    /\ link \in {"waiting", "holding"}
    /\ announced \in [job: DOMAIN total_tasks \cup {NoJob}, sent: Nat]

(* A job in progress was announced on the present connection, and the      *)
(* scheduler has been sent exactly the tasks split so far, never more than *)
(* announced and all of them when the job waits for answers: what the      *)
(* scheduler relies on when it counts a job's tasks (process_task_manager, *)
(* scheduler.rs), across any lost connections.                             *)
AnnouncedHere ==
    state \in {"splitting", "waiting"} =>
        /\ ready
        /\ announced = [job |-> current_job, sent |-> split]
        /\ split <= total_tasks[current_job]
        /\ state = "waiting" => split = total_tasks[current_job]

(* Every task sent is open or has its result stored, not both, although    *)
(* results may come twice, late or for another job (process_result).       *)
PartsExact ==
    state \in {"splitting", "waiting"} =>
        /\ parts \cap tasks = {}
        /\ parts \cup tasks = 1 .. split

(* The reducer starts with an answer to every task of the job, and keeps   *)
(* them (process_job, JobPhase::WaitingTasksCompletions).                  *)
ReducerComplete == state = "reducing" => parts = AllTasks

(* The task manager sleeps only if it has no job or no scheduler, and      *)
(* never while it reduces.                                                 *)
Awake ==
    Running /\ ~need_process_job =>
        \/ current_job = NoJob /\ jobs_queue = <<>>
        \/ ~ready /\ state # "reducing"

(* To its clients the task manager is a queue of jobs with one result for  *)
(* each job that was started (jobs_queue, current_job, jobs_finished).     *)
Service == INSTANCE JobService WITH
    waiting <- jobs_queue, running <- current_job, results <- jobs_finished
ServesJobs == Service!Spec

(* While a scheduler serves us for good and answers the tasks it was sent, *)
(* every job gets its turn and its end.                                    *)
InHand(j) == j = current_job \/ \E i \in DOMAIN jobs_queue : jobs_queue[i] = j
Answering ==
    /\ <>[](Running /\ ready)
    /\ (state = "waiting" /\ tasks # {}) ~> (state # "waiting" \/ tasks = {})
JobsEnd == Answering => \A j \in Jobs : InHand(j) ~> ~InHand(j)

(* The inductive invariant of the proofs. *)
IInv ==
    /\ TypeOK
    /\ AnnouncedHere
    /\ PartsExact
    /\ ReducerComplete
    /\ Awake
    /\ state = "reducing" => tasks = {}
=============================================================================
