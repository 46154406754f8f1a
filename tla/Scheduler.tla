------------------------------ MODULE Scheduler ------------------------------
(***************************************************************************)
(* The event loop of the scheduler service (scheduler/src/scheduler.rs).   *)
(*                                                                         *)
(* One task manager feeds a job as batches of tasks, the node manager      *)
(* lends worker nodes, and the scheduler spreads the tasks over the        *)
(* workers, collects the results and sends them back.  `select!` runs one  *)
(* handler at a time to its end, so every handler is one action.  The      *)
(* three peers are an open environment: a worker event may carry any       *)
(* worker and any task at any time, because responses carry no job id and  *)
(* the event channel survives a reset, so that answers to an earlier job   *)
(* or from an earlier connection are still delivered.                      *)
(*                                                                         *)
(* Data abstraction.  A Vec of ids is its multiplicity function (how often *)
(* each id occurs); what a handler does with the place of an id in a Vec   *)
(* is a choice over the places it can have.  The two priority queues are   *)
(* maps: `peek_mut` may return any entry, since RefMut::drop lets the heap *)
(* order decay.  Unsigned subtraction wraps in the release build; a        *)
(* wrapped value is written as the negative number congruent to it.        *)
(***************************************************************************)
EXTENDS Integers, FiniteSets, Functions

CONSTANTS
    Workers,          \* worker ids, the slab keys of the node manager
    MaxTotal,         \* largest number of tasks in a job
    Subworkers,       \* executor counts a worker may announce
    FailLimit,        \* Config::failed_executions_limit
    BufferSize,       \* capacity of results_buffer, 200 in the code
    MaxList,          \* bound: ids in one worker error
    MaxCopies,        \* bound: copies of one task charged to one worker
    MaxReplace,       \* bound: replacements of one worker
    MaxDrift,         \* bound: how far a wrapped counter runs away
    NoJob             \* scheduled_job == None

ASSUME SchedulerAssumption ==
    /\ IsFiniteSet(Workers)
    /\ MaxTotal \in Nat \ {0}
    /\ Subworkers \subseteq Nat
    /\ FailLimit \in Nat
    /\ BufferSize \in Nat \ {0}
    /\ MaxList \in Nat
    /\ {MaxCopies, MaxReplace, MaxDrift} \subseteq Nat

VARIABLES
    status,           \* "running", or how the process ended
    scheduled_job,    \* Option<ScheduledJob>
    tasks_queue,      \* TaskId -> Task, the queued ids being its domain
    workers_queue,    \* WorkerId -> Worker
    nodes,            \* keys of ConnectionManager::nodes
    results_buffer,   \* results not yet sent
    need_schedule,
    tm_connected,     \* task_manager.connected is Some
    nm_connected,     \* node_manager.connected
    (* What the peers have been told, observed by the properties only. *)
    delivered,        \* results of the current job sent to the task manager
    verdict,          \* last word on the current job
    demand            \* the node manager's session holds a demand of ours

queues == <<tasks_queue, workers_queue, nodes, results_buffer, need_schedule>>
links == <<tm_connected, nm_connected, demand>>
told == <<delivered, verdict>>
vars == <<status, scheduled_job, queues, links, told>>
-----------------------------------------------------------------------------
(* Multiplicity functions, and the types. *)

TaskId == 1 .. MaxTotal
None(S) == [x \in S |-> 0]
Size(b) == Cardinality(UNION {{x} \X (1 .. b[x]) : x \in DOMAIN b})
(* Each removal of an id from a Vec: nothing happens if it is not there.   *)
MonusUnchecked(m, n) == m - n
Monus(m, n) == IF m > n THEN m - n ELSE 0
Lists == {l \in [TaskId -> 0 .. MaxList] : Size(l) <= MaxList}

Job == [total: TaskId, scheduled: Int, received: Nat, completed: Nat]
Task == [assignments: [Workers -> Nat], failed: 0 .. FailLimit]
Worker == [subworkers: Int, has_job_data: BOOLEAN,
           assignments: [TaskId -> Nat], replacements: [TaskId -> Nat]]

NewTask == [assignments |-> None(Workers), failed |-> 0]
NewWorker(n) == [subworkers |-> n, has_job_data |-> FALSE,
                 assignments |-> None(TaskId), replacements |-> None(TaskId)]
Empty == [x \in {} |-> 0]

has_assignments(task) == \E w \in Workers : task.assignments[w] > 0
can_accept(worker) ==
    worker.subworkers - (Size(worker.assignments) + Size(worker.replacements))
need_replace(worker) == Size(worker.replacements)

Running == status = "running"
Queued(t) == t \in DOMAIN tasks_queue
Connected(w) == w \in DOMAIN workers_queue

(* The bounds of the instance, none of which the code has. *)
Bounded ==
    /\ scheduled_job = NoJob
         \/ scheduled_job.scheduled \in -MaxDrift .. MaxTotal + MaxDrift
    /\ \A w \in DOMAIN workers_queue :
         /\ workers_queue[w].subworkers >= -MaxDrift
         /\ Size(workers_queue[w].replacements) <= MaxReplace
    /\ \A t \in DOMAIN tasks_queue, w \in Workers :
         tasks_queue[t].assignments[w] <= MaxCopies

Panic ==
    /\ status' = "panicked"
    /\ UNCHANGED <<scheduled_job, queues, links, told>>
-----------------------------------------------------------------------------
Init ==
    /\ status = "running"
    /\ scheduled_job = NoJob
    /\ tasks_queue = Empty
    /\ workers_queue = Empty
    /\ nodes = {}
    /\ results_buffer = None(TaskId)
    /\ need_schedule = FALSE
    /\ tm_connected = FALSE
    /\ nm_connected = FALSE
    /\ delivered = None(TaskId)
    /\ verdict = "none"
    /\ demand = FALSE

ResetKeepsNodes ==
    /\ workers_queue' = Empty
    /\ tasks_queue' = Empty
    /\ results_buffer' = None(TaskId)
    /\ UNCHANGED nodes
    /\ need_schedule' = FALSE
reset_scheduler ==
    /\ workers_queue' = Empty
    /\ tasks_queue' = Empty
    /\ results_buffer' = None(TaskId)
    /\ nodes' = {}
    /\ need_schedule' = FALSE
-----------------------------------------------------------------------------
(* process_scheduling: fill the free slots of the worker at the root of    *)
(* the worker queue, then the slots whose task somebody else has finished. *)

(* The handler peeks one task per slot and takes it if nobody works on it, *)
(* or if every task of the job counts as scheduled (speculative copies).   *)
(* `picked` is what it took, first pick of an idle task counting as        *)
(* scheduled.  Copies are taken only while scheduled = total, so the idle  *)
(* tasks picked twice are among those picked before that moment.           *)
IdlePicks(picked) ==
    {t \in DOMAIN tasks_queue :
        picked[t] > 0 /\ ~has_assignments(tasks_queue[t])}

PicksAllowed(picked) ==
    LET idle == IdlePicks(picked)
        before == scheduled_job.total - scheduled_job.scheduled
    IN  /\ \A t \in TaskId : picked[t] > 0 => Queued(t)
        /\ \/ Size(picked) = Cardinality(idle)
           \/ /\ before \in 0 .. Cardinality(idle)
              /\ Cardinality({t \in idle : picked[t] > 1}) <= before

(* The peeked task is refused: the queue is empty, or its root has work    *)
(* assigned while some task of the job is not scheduled.                   *)
RootRefused(picked) ==
    \/ DOMAIN tasks_queue = {}
    \/ /\ scheduled_job.total #
              scheduled_job.scheduled + Cardinality(IdlePicks(picked))
       /\ \E t \in DOMAIN tasks_queue :
              picked[t] > 0 \/ has_assignments(tasks_queue[t])

(* The request carries the job data if the worker lacks it. *)
Loaded(worker, picked, replaced) ==
    [worker EXCEPT
        !.has_job_data = worker.has_job_data \/ Size(picked) > 0,
        !.assignments = [t \in TaskId |-> worker.assignments[t] + picked[t]],
        !.replacements = [t \in TaskId |-> worker.replacements[t] - replaced[t]]]

AssignTasks(w, picked) ==
    LET worker == workers_queue[w]
        accept == can_accept(worker)
        slots == accept + need_replace(worker)
    IN  /\ accept >= 0
        /\ slots > 0
        /\ Size(picked) <= slots
        /\ PicksAllowed(picked)
        /\ Size(picked) < slots => RootRefused(picked)
        /\ tasks_queue' = [t \in DOMAIN tasks_queue |->
               [tasks_queue[t] EXCEPT !.assignments[w] = @ + picked[t]]]
        /\ \E replaced \in Lists :
              /\ Size(replaced) = Monus(Size(picked), accept)
              /\ \A t \in TaskId : replaced[t] <= worker.replacements[t]
              /\ workers_queue' = [workers_queue EXCEPT ![w] =
                                      Loaded(worker, picked, replaced)]
        /\ scheduled_job' = [scheduled_job EXCEPT
               !.scheduled = @ + Cardinality(IdlePicks(picked))]
        /\ need_schedule' = (Size(picked) = slots)
        /\ UNCHANGED <<status, nodes, results_buffer, links, told>>

(* More work is charged to the worker than it has executors: the free slot *)
(* count wraps and Vec::with_capacity panics.                              *)
CapacityOverflow(w) ==
    /\ can_accept(workers_queue[w]) < 0
    /\ Panic

NothingToAssign ==
    /\ \/ DOMAIN workers_queue = {}
       \/ \E w \in DOMAIN workers_queue :
              /\ can_accept(workers_queue[w]) = 0
              /\ need_replace(workers_queue[w]) = 0
    /\ need_schedule' = FALSE
    /\ UNCHANGED <<status, scheduled_job, tasks_queue, workers_queue, nodes,
                   results_buffer, links, told>>

(* Without a job the handler returns at once and changes nothing. *)
process_scheduling ==
    /\ Running
    /\ need_schedule
    /\ scheduled_job # NoJob
    /\ \/ \E w \in DOMAIN workers_queue :
             \/ \E picked \in Lists : AssignTasks(w, picked)
             \/ CapacityOverflow(w)
       \/ NothingToAssign
    /\ Bounded'
-----------------------------------------------------------------------------
(* process_workers: connection and result events. *)

WorkerConnected(w, n) ==
    /\ Running
    /\ need_schedule' = TRUE
    /\ nodes' = nodes \cup {w}
    /\ workers_queue' = [v \in DOMAIN workers_queue \cup {w} |->
                            IF v = w THEN NewWorker(n) ELSE workers_queue[v]]
    /\ UNCHANGED <<status, scheduled_job, tasks_queue, results_buffer, links, told>>

(* How often the loop over the assignments of the leaving worker w, one    *)
(* removal per copy, finds task t without an assignment after a removal.   *)
FreedBy(w, t) ==
    LET asg == tasks_queue[t].assignments
    IN  Cardinality({i \in 1 .. workers_queue[w].assignments[t] :
                        Size(asg) = asg[w] /\ i >= asg[w]})

process_worker_disconnect(w) ==
    /\ nodes' = nodes \ {w}
    /\ IF ~Connected(w)
       THEN UNCHANGED <<scheduled_job, tasks_queue, workers_queue, need_schedule>>
       ELSE /\ need_schedule' = TRUE
            /\ workers_queue' = Restrict(workers_queue, DOMAIN workers_queue \ {w})
            /\ IF scheduled_job = NoJob
               THEN UNCHANGED <<scheduled_job, tasks_queue>>
               ELSE /\ tasks_queue' = [t \in DOMAIN tasks_queue |->
                          [tasks_queue[t] EXCEPT !.assignments[w] =
                               Monus(@, workers_queue[w].assignments[t])]]
                    /\ scheduled_job' = [scheduled_job EXCEPT !.scheduled =
                          @ - Size([t \in DOMAIN tasks_queue |-> FreedBy(w, t)])]
    /\ UNCHANGED <<status, results_buffer, links, told>>

(* WorkerEvent::Disconnected, and Disconnect from the node manager. *)
WorkerDisconnected(w) ==
    /\ Running
    /\ process_worker_disconnect(w)
    /\ Bounded'

(* A result for a task that is not queued.  The handler looks the task up  *)
(* in the worker's replacements and removes, from its assignments, the     *)
(* entry at that place: an arbitrary one, or none and a panic.             *)
ResultOfUnqueued(w, t) ==
    /\ ~Queued(t)
    /\ Connected(w)
    /\ LET worker == workers_queue[w]
       IN  \/ /\ worker.replacements[t] = 0
              /\ need_schedule' = TRUE
              /\ UNCHANGED <<status, scheduled_job, tasks_queue, workers_queue,
                             nodes, results_buffer, links, told>>
           \/ /\ worker.replacements[t] > 0
              /\ \E u \in TaskId :
                    /\ worker.assignments[u] > 0
                    /\ workers_queue' = [workers_queue EXCEPT ![w].assignments[u] = @ - 1]
              /\ need_schedule' = TRUE
              /\ UNCHANGED <<status, scheduled_job, tasks_queue, nodes,
                             results_buffer, links, told>>
           \/ /\ worker.replacements[t] > 0
              /\ need_replace(worker) - worker.replacements[t] >= Size(worker.assignments)
              /\ Panic

(* Buffer::push: a full buffer goes out as a TaskResults batch first. *)
Flushes == Size(results_buffer) = BufferSize
Buffered(t) ==
    [u \in TaskId |-> (IF Flushes THEN 0 ELSE results_buffer[u])
                        + (IF u = t THEN 1 ELSE 0)]
SentForgetsBatch == delivered
Sent == [u \in TaskId |-> delivered[u] + (IF Flushes THEN results_buffer[u] ELSE 0)]

(* Copies of t that the result frees on worker v, and those of them whose  *)
(* slot the worker keeps busy with work that must now be replaced.         *)
FreedCopiesOwnOnly(w, t, v) == IF v = w THEN 1 ELSE 0
FreedCopies(w, t, v) ==
    LET copies == tasks_queue[t].assignments[v]
    IN  IF v = w /\ copies = 0 THEN 1 ELSE copies
ReplacedCopies(w, t, v) ==
    LET copies == tasks_queue[t].assignments[v]
    IN  IF v = w THEN Monus(copies, 1) ELSE copies

AfterResult(w, t) ==
    [v \in DOMAIN workers_queue |->
        [workers_queue[v] EXCEPT
            !.assignments[t] = Monus(@, FreedCopies(w, t, v)),
            !.replacements[t] = @ + ReplacedCopies(w, t, v)]]

AllDoneOfReceived(completed) == completed = scheduled_job.received
AllDone(completed) == completed = scheduled_job.total

ResultOfQueued(w, t) ==
    /\ Queued(t)
    /\ LET completed == scheduled_job.completed + 1
       IN  /\ scheduled_job' = [scheduled_job EXCEPT !.completed = completed]
           /\ IF AllDone(completed)
              THEN /\ delivered' = [u \in TaskId |-> Sent[u] + Buffered(t)[u]]
                   /\ verdict' = "complete"
                   /\ demand' = FALSE
                   /\ reset_scheduler
              ELSE /\ delivered' = Sent
                   /\ results_buffer' = Buffered(t)
                   /\ tasks_queue' = Restrict(tasks_queue, DOMAIN tasks_queue \ {t})
                   /\ workers_queue' = AfterResult(w, t)
                   /\ need_schedule' = TRUE
                   /\ UNCHANGED <<nodes, verdict, demand>>
    /\ UNCHANGED <<status, tm_connected, nm_connected>>

WorkerResult(w, t) ==
    /\ Running
    /\ scheduled_job # NoJob
    /\ ResultOfQueued(w, t) \/ ResultOfUnqueued(w, t)
    /\ Bounded'
-----------------------------------------------------------------------------
(* process_workers: errors, each of which returns tasks to the queue. *)

(* How often a loop over the returned ids meets task t while it has no     *)
(* assignment (the test comes before the removal).                         *)
IdleWhenReturned(w, t, n) ==
    LET asg == tasks_queue[t].assignments
    IN  Cardinality({i \in 1 .. n : Size(asg) = asg[w] /\ i > asg[w]})

(* Returned ids that are not queued and stand in worker.replacements, or   *)
(* were put there by the same handler: each removes an assignment at an    *)
(* unrelated place, or panics.                                             *)
Misplaced(w, returned, put) ==
    [t \in TaskId |->
        IF ~Queued(t) /\ workers_queue[w].replacements[t] + put[t] > 0
        THEN returned[t] ELSE 0]

(* The entries the queued ids take out of worker.assignments. *)
Taken(w, returned) ==
    [t \in TaskId |-> IF Queued(t) THEN returned[t] ELSE 0]

ReturnPanics(w, returned, put) ==
    LET worker == workers_queue[w]
        misplaced == Misplaced(w, returned, put)
        LastPlace(t) == IF worker.replacements[t] > 0
                        THEN need_replace(worker) - worker.replacements[t]
                        ELSE need_replace(worker) + Size(put) - put[t]
    IN  \E t \in TaskId :
          /\ misplaced[t] > 0
          /\ LastPlace(t) >= Monus(Size(worker.assignments),
                                   Size(Taken(w, returned)) + Size(misplaced) - 1)

ReturnedTasks(w, returned) ==
    [t \in DOMAIN tasks_queue |->
        [tasks_queue[t] EXCEPT !.assignments[w] = Monus(@, returned[t])]]

ReturnedAssignments(w, returned, wrong) ==
    [t \in TaskId |-> Monus(workers_queue[w].assignments[t],
                            Taken(w, returned)[t] + wrong[t])]

ReturnedSchedule(w, returned) ==
    scheduled_job.scheduled -
        Size([t \in DOMAIN tasks_queue |-> IdleWhenReturned(w, t, returned[t])])

(* `wrong` is what the misplaced removals took; ids put back on the way    *)
(* count for the ids that come after them.                                 *)
WrongRemovals(w, returned, put, wrong) ==
    /\ Size(wrong) >= Size(Misplaced(w, returned, None(TaskId)))
    /\ Size(wrong) <= Size(Misplaced(w, returned, put))
    /\ \A t \in TaskId : wrong[t] <= workers_queue[w].assignments[t]

(* The replacement pairs (old, new) return `new` like a task and put `old` *)
(* back on the replacements when `new` is queued; `returned` holds both    *)
(* kinds and `old` the ids put back.                                       *)
LibraryMissing(w, returned, old) ==
    /\ Running
    /\ scheduled_job # NoJob
    /\ Connected(w)
    /\ Size(old) <= Size(Taken(w, returned))
    /\ \/ /\ ReturnPanics(w, returned, old)
          /\ Panic
       \/ \E wrong \in Lists :
          /\ WrongRemovals(w, returned, old, wrong)
          /\ need_schedule' = TRUE
          /\ tasks_queue' = ReturnedTasks(w, returned)
          /\ workers_queue' = [workers_queue EXCEPT ![w] =
                [workers_queue[w] EXCEPT
                   !.has_job_data = FALSE,
                   !.assignments = ReturnedAssignments(w, returned, wrong),
                   !.replacements = [t \in TaskId |->
                                        workers_queue[w].replacements[t] + old[t]]]]
          /\ scheduled_job' = [scheduled_job EXCEPT !.scheduled =
                                   ReturnedSchedule(w, returned)]
          /\ UNCHANGED <<status, nodes, results_buffer, links, told>>
    /\ Bounded'

NoFreeExecutors(w, returned) ==
    /\ Running
    /\ scheduled_job # NoJob
    /\ Connected(w)
    /\ LET some == workers_queue[w].subworkers # 0
       IN  \/ /\ ReturnPanics(w, returned, None(TaskId))
              /\ Panic
           \/ \E wrong \in Lists :
              /\ WrongRemovals(w, returned, None(TaskId), wrong)
              /\ need_schedule' = (need_schedule \/ some)
              /\ tasks_queue' = ReturnedTasks(w, returned)
              /\ workers_queue' = [workers_queue EXCEPT ![w] =
                    [workers_queue[w] EXCEPT
                       !.subworkers = IF some THEN @ - Size(returned) ELSE @,
                       !.assignments = ReturnedAssignments(w, returned, wrong)]]
              /\ scheduled_job' = [scheduled_job EXCEPT !.scheduled =
                                       ReturnedSchedule(w, returned)]
              /\ UNCHANGED <<status, nodes, results_buffer, links, told>>
    /\ Bounded'

Only(t) == [u \in TaskId |-> IF u = t THEN 1 ELSE 0]

JobKept == scheduled_job
JobTaken == NoJob

(* The failure that exceeds the limit ends the job; queues, buffer and the *)
(* demand for workers stay as they are until the next job.                 *)
TaskExecutionError(w, t) ==
    /\ Running
    /\ scheduled_job # NoJob
    /\ Connected(w)
    /\ \/ /\ ReturnPanics(w, Only(t), None(TaskId))
          /\ Panic
       \/ \E wrong \in Lists :
          /\ WrongRemovals(w, Only(t), None(TaskId), wrong)
          /\ need_schedule' = TRUE
          /\ workers_queue' = [workers_queue EXCEPT ![w].assignments =
                                  ReturnedAssignments(w, Only(t), wrong)]
          /\ IF Queued(t) /\ tasks_queue[t].failed = FailLimit
             THEN /\ tasks_queue' = ReturnedTasks(w, Only(t))
                  /\ scheduled_job' = JobTaken
                  /\ verdict' = "failed"
             ELSE /\ tasks_queue' = [u \in DOMAIN tasks_queue |->
                        [ReturnedTasks(w, Only(t))[u] EXCEPT !.failed = @ + Only(t)[u]]]
                  /\ scheduled_job' = [scheduled_job EXCEPT !.scheduled =
                                           ReturnedSchedule(w, Only(t))]
                  /\ UNCHANGED verdict
          /\ UNCHANGED <<status, nodes, results_buffer, links, delivered>>
    /\ Bounded'
-----------------------------------------------------------------------------
(* process_task_manager.  One task manager at a time holds the channel, so *)
(* its messages come between its Connected and its Disconnect.             *)

TaskManagerConnected ==
    /\ Running
    /\ ~tm_connected
    /\ tm_connected' = TRUE
    /\ UNCHANGED <<status, scheduled_job, queues, nm_connected, demand, told>>

(* Stale tasks of an earlier job die with the queues. *)
NewJob(total) ==
    /\ Running
    /\ tm_connected
    /\ reset_scheduler
    /\ demand' = (demand \/ nm_connected)
    /\ scheduled_job' = [total |-> total, scheduled |-> 0, received |-> 0, completed |-> 0]
    /\ delivered' = None(TaskId)
    /\ verdict' = "none"
    /\ UNCHANGED <<status, tm_connected, nm_connected>>

(* A batch of n tasks.  The task manager numbers the tasks of a job from   *)
(* the first and sends no more than it announced.                          *)
TaskBatch(n) ==
    /\ Running
    /\ tm_connected
    /\ scheduled_job # NoJob
    /\ scheduled_job.received + n <= scheduled_job.total
    /\ LET received == scheduled_job.received + n
           batch == scheduled_job.received + 1 .. received
       IN  /\ scheduled_job' = [scheduled_job EXCEPT !.received = received]
           /\ tasks_queue' = [t \in DOMAIN tasks_queue \cup batch |->
                                 IF t \in batch THEN NewTask ELSE tasks_queue[t]]
    /\ need_schedule' = TRUE
    /\ UNCHANGED <<status, workers_queue, nodes, results_buffer, links, told>>

TaskManagerDisconnect ==
    /\ Running
    /\ tm_connected
    /\ scheduled_job' = NoJob
    /\ tm_connected' = FALSE
    /\ demand' = FALSE
    /\ reset_scheduler
    /\ UNCHANGED <<status, nm_connected, told>>
-----------------------------------------------------------------------------
(* process_node_manager. *)

(* A restored session keeps the demand it had; nothing is sent. *)
RestoredSession ==
    /\ Running
    /\ ~nm_connected
    /\ nm_connected' = TRUE
    /\ UNCHANGED <<status, scheduled_job, queues, tm_connected, demand, told>>

(* A created session knows nothing of us: all workers are gone, and the    *)
(* job, if there is one, demands workers anew.                             *)
DemandNotRepeated == FALSE
DemandRepeated == TRUE

CreatedSession ==
    /\ Running
    /\ ~nm_connected
    /\ nm_connected' = TRUE
    /\ workers_queue' = Empty
    /\ nodes' = {}
    /\ IF scheduled_job = NoJob
       THEN /\ demand' = FALSE
            /\ UNCHANGED <<scheduled_job, tasks_queue>>
       ELSE /\ demand' = DemandRepeated
            /\ scheduled_job' = [scheduled_job EXCEPT !.scheduled = scheduled_job.completed]
            /\ tasks_queue' = [t \in DOMAIN tasks_queue |->
                  [tasks_queue[t] EXCEPT !.assignments = None(Workers)]]
    /\ UNCHANGED <<status, results_buffer, need_schedule, tm_connected, told>>

NodeManagerDisconnected ==
    /\ Running
    /\ nm_connected' = FALSE
    /\ UNCHANGED <<status, scheduled_job, queues, tm_connected, demand, told>>

(* The connection attempts are exhausted: start() returns the error. *)
ConnectionNotEstablished ==
    /\ Running
    /\ ~nm_connected
    /\ status' = "stopped"
    /\ UNCHANGED <<scheduled_job, queues, links, told>>
-----------------------------------------------------------------------------
Next ==
    \/ process_scheduling
    \/ \E w \in Workers :
          \/ \E n \in Subworkers : WorkerConnected(w, n)
          \/ WorkerDisconnected(w)
          \/ \E t \in TaskId : WorkerResult(w, t)
          \/ \E returned, old \in Lists : LibraryMissing(w, returned, old)
          \/ \E returned \in Lists : NoFreeExecutors(w, returned)
          \/ \E t \in TaskId : TaskExecutionError(w, t)
    \/ TaskManagerConnected
    \/ \E total \in 1 .. MaxTotal : NewJob(total)
    \/ \E n \in 1 .. MaxTotal : TaskBatch(n)
    \/ TaskManagerDisconnect
    \/ RestoredSession
    \/ CreatedSession
    \/ NodeManagerDisconnected
    \/ ConnectionNotEstablished

Spec == Init /\ [][Next]_vars
-----------------------------------------------------------------------------
(* Types of the scheduler's state (struct Scheduler, ScheduledJob, Worker, *)
(* Task); `scheduled` may be negative, a wrapped counter.                  *)
TypeOK ==
    /\ status \in {"running", "panicked", "stopped"}
    /\ scheduled_job \in Job \cup {NoJob}
    /\ DOMAIN tasks_queue \subseteq TaskId
    /\ \A t \in DOMAIN tasks_queue : tasks_queue[t] \in Task
    /\ DOMAIN workers_queue \subseteq Workers
    /\ \A w \in DOMAIN workers_queue : workers_queue[w] \in Worker
    /\ nodes \subseteq Workers
    /\ results_buffer \in [TaskId -> Nat]
    /\ need_schedule \in BOOLEAN
    /\ tm_connected \in BOOLEAN
    /\ nm_connected \in BOOLEAN
    /\ delivered \in [TaskId -> Nat]
    /\ verdict \in {"none", "complete", "failed"}
    /\ demand \in BOOLEAN

(* No slot of a worker is charged for work the queue does not know: every  *)
(* assignment counted against a connected worker is matched by an entry    *)
(* for that worker in the task, whatever mixture of copies, late results,  *)
(* errors and reconnections led there (process_workers, scheduler.rs).     *)
NoPhantomAssignments ==
    \A w \in DOMAIN workers_queue, t \in TaskId :
        workers_queue[w].assignments[t] <=
            IF Queued(t) THEN tasks_queue[t].assignments[w] ELSE 0

(* Every task received for the job is in exactly one place: queued,        *)
(* buffered or sent to the task manager, and its result is passed on once, *)
(* although several workers may run it and answers may be late.            *)
EachTaskOnce ==
    scheduled_job # NoJob =>
        \A t \in TaskId :
            delivered[t] + results_buffer[t] + (IF Queued(t) THEN 1 ELSE 0) =
                IF t <= scheduled_job.received THEN 1 ELSE 0

(* JobComplete is sent only when the result of every task of the job has   *)
(* been sent, and leaves nothing behind in the queue or the buffer.        *)
CompleteMeansAll ==
    verdict = "complete" /\ scheduled_job # NoJob =>
        /\ \A t \in 1 .. scheduled_job.total : delivered[t] = 1
        /\ DOMAIN tasks_queue = {}
        /\ results_buffer = None(TaskId)

(* process_scheduling always finds the connection of the worker it peeked: *)
(* Nodes::send never drops a request with the tasks it was charged for.    *)
WorkersReachable == DOMAIN workers_queue = nodes

(* After JobComplete or TaskExecutionError a job gets no further result    *)
(* and no second verdict; only the next job clears it.                     *)
VerdictIsFinal ==
    [][verdict # "none" /\ verdict' # "none" =>
          verdict' = verdict /\ delivered' = delivered]_vars

(* The node manager keeps the demand of a job that is still running: it is *)
(* withdrawn only when the job is over, also across lost sessions.         *)
DemandKept ==
    [][demand /\ ~demand' => verdict' = "complete" \/ scheduled_job' = NoJob]_vars

(* No handler panics.  Vec::swap_remove asserts that the place it is given *)
(* lies inside the vector (process_workers, the arms for unqueued tasks).  *)
NoPanic == status # "panicked"

(* What the proofs of these properties add to them. *)
Accounting ==
    scheduled_job # NoJob =>
        /\ scheduled_job.received <= scheduled_job.total
        /\ scheduled_job.completed + Cardinality(DOMAIN tasks_queue) = scheduled_job.received
FailedMeansNoJob == verdict = "failed" => scheduled_job = NoJob

IInv ==
    /\ TypeOK
    /\ NoPhantomAssignments
    /\ EachTaskOnce
    /\ CompleteMeansAll
    /\ WorkersReachable
    /\ Accounting
    /\ FailedMeansNoJob
=============================================================================
