# grid-server in TLA+

grid-server distributes a computation over machines. Five kinds of process talk
over QUIC streams:

    HTTP client -> task manager -> scheduler <-> node manager <-> nodes
                                       \________________________/
                                         tasks and results

* A **task manager** splits a job into numbered tasks, sends them to one
  scheduler in batches, collects the results and reduces them to an answer. There
  are two: `task_manager` assigns passengers to taxies, `necklace-task-manager`
  takes its splitter and reducer from a Python module.
* A **scheduler** serves one task manager at a time. It asks the node manager for
  workers, connects to them, spreads the tasks (with speculative copies when all
  tasks are running), collects the results and returns them in batches.
* The **node manager** knows all nodes and schedulers. It lends each node to one
  scheduler at a time and keeps the sessions of peers that lose their connection.
* A **node** runs tasks in executors (native libraries or WebAssembly) for the
  scheduler it is lent to.

Each service is one event loop around `select!`: a handler runs to its end before
the next starts. The concurrency is between the services, and between the loop
and the connection tasks that feed it through channels.

## Inventory

| component | state | operations | what makes it correct |
|---|---|---|---|
| Scheduler `scheduler/src/scheduler.rs` | job counters, task queue, worker queue, table of connections, result buffer, `need_schedule` | schedule; worker connected, disconnected, result, three errors; new job, batch, task manager gone; node manager session restored, created, lost | every task's result is passed on exactly once; completion means all; a worker's slots match the tasks it runs; the tables agree; demands survive sessions; no handler panics |
| Node manager `node_manager/src/node_manager.rs` | slabs of nodes and schedulers, demand queue, waiting workers, timers, kept sessions, one wake-up permit | connect or restore, disconnect, heartbeat, timer, demand, release, pass over the queue | each worker in one place; counts exact; peers informed across disconnections; sessions belong to their peer; no lost wake-up |
| Task manager `task_manager/src/task_manager.rs` | job queue, current job and its phase, open tasks, parts, `ready` | process job (five phases), six scheduler events, five commands | a job ends once, with the results of its own tasks; a restart forgets the first attempt; the answer is the minimum over all combinations |
| Splitter, reducer | iterator positions | `next` | the tasks enumerate each pair (combination, complement) once per taxi; the reducer visits every assignment of passengers |
| Job library `task_manager/job/src/path_finding.rs` | none | `job`: shortest paths, transformed graph, least path | the distance of a combination is the least drive of the taxi over all orders |
| Node `node/src/node.rs`, `client.rs`, `node_manager.rs` | client, its buffer, session, heartbeat | assign and unassign client, connect, disconnect, request, response | only the assigned scheduler is served; nothing of an earlier client is left |
| Node workers `dll_worker.rs`, `wasm_worker.rs` with their executors | free executors, assignments, caches of libraries and arguments | tasks, replacements, results, death and restart, abort, reset | an executor is free or runs one task; every accepted task is answered |
| Priority queue `shared/src/utils/priority_queue.rs` | heap, index map | push, pop, remove, change in place | heap order; index map exact |
| Linked vector map and set `linked_vec_map.rs`, vector map `vec_map.rs` | index, circular list, free list, raw pointers of iterators | map, entry and iterator calls | no leak, no use after free; a map in order of insertion |
| Bit set, multilevel map, buffer | vectors of words, nested vectors | set and map operations | agree with the set or map they represent |
| HTTP, command line, certificates, codecs, retry | none that the services depend on | I/O | not modelled |

Hard behaviours: late and duplicate answers (responses carry no job id), slab ids
that are reused while events with the old id are in a channel, timers that race
with reconnections, sessions kept for absent peers, speculative copies, counters
that wrap, and tables that must agree after any order of these. They are listed
with their lines in `PROJECT.json` under `hazards`.

## Modules

### Scheduler

State and names are those of `struct Scheduler`. A `Vec` of ids is the function
that counts how often each id occurs. Where the code uses the place of an id in a
`Vec`, the model chooses among the places it can have. The priority queues are
maps; `peek_mut` may yield any entry, because `RefMut::drop` sifts only downwards
and so the heap order decays. `delivered`, `verdict` and `demand` record what the
peers have been told. Each arm of each handler is an action:

| action | code |
|---|---|
| `process_scheduling` (`AssignTasks`, `CapacityOverflow`, `NothingToAssign`) | `process_scheduling` |
| `WorkerConnected`, `WorkerDisconnected`, `WorkerResult`, `LibraryMissing`, `TaskExecutionError`, `NoFreeExecutors` | arms of `process_workers` |
| `TaskManagerConnected`, `NewJob`, `TaskBatch`, `TaskManagerDisconnect` | `process_task_manager` |
| `RestoredSession`, `CreatedSession`, `NodeManagerDisconnected`, `ConnectionNotEstablished` | `process_node_manager` |

The two loops of `process_scheduling` (free slots, then replacements) are one
choice of `picked`, the multiset of tasks taken; `PicksAllowed` says which
multisets the loops can take and `RootRefused` when they stop early. The peers are
open: a worker event may carry any worker and any task, which includes all answers
that are late, repeated or from an earlier job.

`SchedulerWithNodes` closes the scheduler with nodes that answer each task at most
once over ordered connections; it is used to show that a panic the open model
allows does happen.

Left out: average times, `failed_tasks` (never written), logging, the read-only
`process_command`, and jobs of zero tasks.

### NodeManager

State and names are those of `struct NodeManager`. `heard` in the record of a peer is
what it knows from the messages it got: the workers lent to a scheduler, the client of
a node; with the messages in its `disconnect_buffer` it would know `pending`.

Messages are lost. Nobody looks at the `Result` of a send, so what is sent to a
connection that has ended is gone, and the buffer starts empty when its `Disconnect` is
read: nothing sent in between is sent again. `NodeConnectionEnds` and
`SchedulerConnectionEnds` set `ended` at any time, from the first message that does not
arrive; until the `Disconnect`, `SchedulerTold` and `NodeTold` then change nothing. The
connection that restores a session may end as early: the buffer sent into it then counts
as lost whole, although its first messages may have arrived. That makes `heard` older
than it could be, for a peer that `Unreachable` excepts in either case. A `Disconnect`
may also come without an end that lost anything.

`node_links` and `scheduler_links` are the connection tasks,
each with the slab id it will put into its events. Slabs and the delay queue hand
out any vacant key, and any timer may run out at any time. A scheduler empties its
list of workers when it demands or releases, and so `heard` becomes empty there;
messages that cross on the wire (a `Connect` under way while the scheduler releases)
are left to the planned composition.

`process_queue` is stated without its loop: `given` assigns the first workers in
line to demands, each to the first demand that accepts it after the ones before
it, and stops at the first worker that nobody accepts (`Lendable`).

A panic stops the process; the actions that reach one (`restore_*_session`,
`HeartbeatPanics`) are part of the model, so the invariants hold with them.

### TaskManager and JobService

State and names are those of `struct TaskManager` and `Job`. A job is its number of
tasks, `state` its `JobState` with the phase of a started job, `split` the position
of the splitter, `tasks` the `TaskSet` of open tasks and `parts` the tasks for which
a result is stored. `link` and `announced` stand for the scheduler at the other end:
whether the connection has the scheduler's lock, and what was sent on it.

| action | code |
|---|---|
| `process_job` (`TakeNextJob`, `SchedulerNotReady`, `StartJob`, `SplitChunk`, `AllAnswered`, `ReducerExhausted`, `SerializationFails`, `SplitterFails`, `ReducerFails`) | `process_job` |
| `Results`, `UndecodableResult`, `TaskExecutionError`, `SchedulerDisconnected`, `SchedulerBusy`, `SchedulerFree`, `ConnectionNotEstablished` | arms of `process_scheduler`, with `process_result` |
| `AddJob`, `CancelCurrent`, `CancelQueued` | arms of `process_command` |
| `Break` | the match on the handler's result in `start` |

The scheduler keeps to the order of `handle_task_manager_queue`: it may answer
`SchedulerBusy` while the connection waits for the lock, then says `SchedulerFree`
once, then sends results. These may be for any tasks, in any order, more than once:
they carry no job id, and the channel the scheduler answers through outlives the
connection of one task manager.

`JobService` is what a client of the task manager may rely on: a queue from which
jobs start one at a time in the order of submission, each that starts gets one
result, and only a waiting job can be withdrawn. `ServesJobs` states that
`TaskManager` implements it, with `jobs_queue`, `current_job` and `jobs_finished`
for its state.

The two task managers have the same event loop, and the module models both. The
steps that only one has are marked: the Python splitter and reducer of the necklace
may fail (`SplitterFails`, `ReducerFails`), and only the other decodes results as
they come (`UndecodableResult`). What holds of all steps together holds of either.

Noted in passing: the command `QueuedJobs` lists `jobs_finished`
(`task_manager.rs:342`). It changes nothing and is not modelled.

### Worker, DllWorker, WasmWorker and Node

`Node` is the event loop of a node with everything it talks to: the task of its
connection to the node manager, the task that accepts its client, and its executors.
`Worker` has what the two workers share, which includes the methods both implement
with the same lines (`assign_task`, `process_tasks_assignment`, the arm of a result);
`DllWorker` (executors are child processes) and `WasmWorker` (executors are threads)
have the rest of `trait Worker` under the names `dll_...` and `wasm_...`. Each is an
operator from the worker before to the worker after and the response; a loop over tasks,
replacements or executors is a recursive function of the iterations done (`Assigning`,
`dll_replacing`, `dll_resetting`...). `kind` chooses a worker when the node starts, as
the command line does. `Collections` has the maps and lists that `Worker` and
`NodeManager` share.

| action | code |
|---|---|
| `ProcessConnected`, `ProcessDisconnected`, `AssignClient`, `UnassignClient`, `ConnectionNotEstablished` | `process_node_manager` in `node.rs` |
| `HeartbeatFails` | the heartbeat branch of `start` |
| `ClientConnected`, `ClientDisconnected`, `ClientMessage` | `process_request` in `node.rs`, `Client::recv` |
| `WorkerRecv`, `WorkerSpins` | `worker.recv()` and the response that follows |
| `ReceiveJob`, `FinishJob`, `Interrupt`, `ProcessDies` | the executor process or thread |
| `connect_node_manager`, `NodeManagerSends`, `accept_client`, `wait_client`, `ClientSends` | the connection tasks and the peers behind them |

An event is in the queue of its connection task until the loop reads it; a task that
has ended has dropped its receiver, so a send fails although its `Disconnected` event
is still unread. `asked` is what the client waits for. Two ghosts name the ways a task
is never answered: `late`, when a replacement reaches the node after the task it
replaces was answered, and `lost`, when the executor has lost an assigned task (its
process died, an abort meant for another job dropped it, or the arguments of its job
were evicted while the library stayed).

* `accept_client` ends with its first connection: `wait_client` is not called again,
  so responses put into the client's buffer after a disconnection are never sent, and
  the buffer is empty whenever `ClientConnected` happens.
* `RecvDropped`: `worker.recv()` is a branch of `select!`. A restart has already
  removed the dead process from the tables when it waits for the new one to connect;
  if another branch is ready then, the future is dropped and the node has an executor
  less. The new process remains without an owner, and a later restart may accept its
  connection; the model does not tell the two processes apart.
* With every stream gone, `recv` of the worker loops without yielding: `WorkerSpins`.

Left out: the data of tasks, the compilation of WebAssembly modules, the library cache
inside an executor process, addresses and discovery.

### VecMap, LinkedVecMap and OrderedMap

`VecMap` is the vector of options with its count, one operator per method.
`LinkedVecMap` is the linked map with its memory: a node is an address, its fields are
functions of the address, `live` is the set of allocated addresses. `insert`, `remove`,
`attach`, `detach`, the recycling of nodes through the free list, the guard node, the
entry API, the five iterators with their `Drop` and `Clone` and the `Drop` of the map
(`DropMap`) are translated pointer by pointer. The allocator is the constant `Vacant`,
any function that gives an address not in use; a call that needs new nodes has room for
them (`Room`), since a program that runs out of memory is aborted. What the borrow checker excludes is excluded by the
guards `Iterable` and `Writable`; `held` are the entries in the hands of a caller.

`OrderedMap` is the abstract specification: a sequence of entries, iterators that are
sequences of what they have still to yield, and what each call returns. `Implements`
is the refinement, with the list read from front to back as the entries. What the
refinement proof needs in words of its own is in `LinkedVecMapShapes`, which has no
actions.

The set is the map with the value `()`. Reserve, comparison, hashing, formatting and
serialisation only read the entries in order.

### BitSet, MultilevelVecMap, PathFinding and JobPipeline

One job from its data to its answer: `NextTask` is `TaskSplitter::next`,
`process_result` stores the two distances of a task, and each `Reduce` is one
`TaskReducer::next` with the `min` that follows. A combination of passengers is the
number whose bits they are. The distances are computed by `PathFinding`, the function
a node runs for a task: `dijkstra`, `reduce_graph` (which replaces rows while later
searches read them), `transform_graph` and `min_path`; the memo of `min_path` is left
out, and the sums of `u32` wrap. `LeastDrive`, the reference, goes over all orders of
the passengers along shortest walks. The open tasks are kept in `BitSet` and the
distances in `MultilevelVecMap`, whose rule that a key with more words than levels is
neither stored nor found (`Fits`) is part of the model; its nested vectors are
abstracted to a function. Chunks, restarts and errors are in `TaskManager` and left
out here. `told` is the number of passengers the reducer is told, which is the number
of taxies (see the findings).

### PriorityQueue

The heap and its index (`shared/src/utils/priority_queue.rs`). Each operation is an
action that makes the change and sets up the loop that follows; each iteration of
`bubble_up` and `heapify` is a step. Since the operations take `&mut self` nothing
else runs until `pc` is "idle" again; the steps are there because the index is
wrong in between, and because loops as steps can be proved about without recursion.
Positions count from 1. The order is `Max`; `Min` mirrors it.

`get_mut` sifts only downwards when the reference is dropped, and `map` sifts each
position up and down once, which does not restore an arbitrary heap. `decayed`
records that one of them was used in a way that may break the order; it is reset
when at most one entry is left. The scheduler uses `map` only to make all
priorities of its tasks equal.

## Runs

| run | bounds | shows |
|---|---|---|
| `scheduler` | 2 workers with 1 executor, jobs of at most 2 tasks, buffer of 1, failure limit 0 | all seven properties of the scheduler |
| `scheduler_panic` | 2 workers, 1 or 2 executors | `NoPanic` is violated (finding) |
| `node_manager` | 1 node with 2 connections and 2 worker ids, 2 schedulers with 2 connections that need 1 worker each, 2 timers | the four invariants, also when two sessions of one peer exist |
| `node_manager_live` | 2 nodes of 2 platforms, 1 scheduler with unlimited demands for one platform; connections of one node and of the scheduler end unnoticed | where information is lost, `SessionsKept` with several nodes, `WakeupsKept`, and `HeadServed` under fairness |
| `node_manager_timeout` | 1 node, 1 scheduler | `TimeoutEndsSession` is violated (finding) |
| `task_manager` | 3 jobs of 0, 2 or 3 tasks, chunks of 2 | the seven properties of the task manager, with fairness |
| `job_pipeline` | 1 x 1 and 2 x 2 taxies and passengers on all strongly connected graphs of 2 and 3 vertices with 2 weights, 3 x 3 on a ring and a star with words of 2 bits | the tasks cover all combinations, the task set counts the open ones, the reducer finds all parts, the answer is the least drive |
| `job_pipeline_wide` | 2 taxies, 1 passenger | `PartsFound` is violated (finding) |
| `priority_queue` | 6 ids, 3 priorities | index, order and root of the heap |
| `node` | both kinds, 2 executors, 1 job of 2 tasks, 1 death, caches and queues of 1 | the tables of a node through restarts, aborts, replacements and changes of client |
| `node_live` | both kinds, 1 executor, 2 jobs of 1 task in caches of 1 | `TasksAnswered` under fairness |
| `linked_vec_map` | 3 keys, one of them with 2 values, 8 addresses, 1 shared iterator, an `IntoIter` and its clone | memory safety, index and list, and the refinement of `OrderedMap` |

Why the bounds suffice. A copy of a task on a second worker needs two workers; a
buffer of one flushes at the second result, so every job of two tasks crosses that
boundary; the failure limit is crossed by the first failure. Several copies of one task on one worker are not in the
instance; what concerns them is proved for all bounds (below). In the node manager the
two sessions of one node compete for two slab ids and for two timers, so ids are
reused while old events are on their way, and two schedulers compete for workers. Ends of connections
that lose messages are in `node_manager_live`, for the scheduler and one of the nodes
(`Frail`); in `node_manager` nothing the invariants mention depends on them (`heard`, `pending` and
`ended` are read by no other part of the model), and with them it has over 20 million
states. A job
of 2 tasks ends with an empty chunk, one of 3 with a short one, one of none with its
first; three jobs allow one in the queue while another runs and a third has ended. In
the pipeline, two taxies share the passengers as a combination and its complement,
which is how the tasks are made; with three the shares are no longer complements, and
with words of 2 bits tasks and combinations go beyond the first word. Graphs are
strongly connected, since a sum with a missing edge wraps (`NoEdge`, here 100, stands
for `u32::MAX`). A removal from the heap must bubble up only when the last entry comes
from another subtree, which takes six entries. In the node, two executors are needed
for a task to be refused, replaced or dropped while another runs; two jobs and a cache
of one let a library and its arguments be evicted, which is in `node_live`, where one
executor and one task keep the liveness check small. Three keys give the linked list
an entry with two neighbours that are not the guard; a free list, a drain and an
`IntoIter` with its clone take at most eight nodes.

Some cases are beyond the instances. With caches of one, a library and its arguments are
evicted together, and with one task in `node_live` nothing is replaced there: the proofs
about `Node` cover both for its safety properties, and no run covers them for
`TasksAnswered`. With one shared iterator TLC never clones an `Iter`; the proofs about the
linked map do.

`MaxCopies`, `MaxReplace`, `MaxList` and `MaxDrift` bound
counters the code does not bound: how many copies one worker holds, how many
replacements, how long the list in an error is, how far a wrapped counter drifts. So do `MaxEvents`, `MaxTasks`,
`MaxReplaced` and `MaxDeaths` of a node: unread events, tasks of a request, those that
replace another, processes that die; and `MaxLinks` of the node
manager, connections of one peer whose `Disconnect` is not read, and `Frail`, the peers
whose connections may end unnoticed. `Demanded` are the platforms a demand may name.
Symmetry is used for ids, keys, peers and workers, which no definition tells
apart, and not in the liveness runs. Deadlock is checked for the linked map, on which a
call is always possible, and not elsewhere: a job or an operation ends, and a service stops
when it panics or when the service it depends on cannot be reached.

Fairness. `FairSpec` assumes weak fairness of `process_queue` alone in the node
manager, and of `process_job` alone in the task manager: `select!` polls its branches
in random order, so a permit that stays is taken in the end. In the
node the handlers of events, each executor's stream and each executor are treated
fairly: `select!` and `StreamMap` choose at random, executors are scheduled by the
system, and a job's function returns. Nothing is assumed of
peers, timers or the network; what `JobsEnd` needs of the scheduler (that it serves
this task manager for good and answers open tasks) is a premise of the property.

The properties beside the types:

* `NoPhantomAssignments`: what a worker is charged for, some task knows of.
* `EachTaskOnce`: a received task is queued, buffered or delivered, exactly once.
* `CompleteMeansAll`: `JobComplete` follows the results of all tasks.
* `WorkersReachable`: the worker queue and the table of connections agree.
* `VerdictIsFinal`: no result and no other verdict after the verdict on a job.
* `DemandKept`: the demand is withdrawn only when the job is over.
* `EachWorkerOnce`: a worker waits or is lent to one scheduler, in every table.
* `DemandsExact`: a demand counts the workers it was given, within its limit.
* `SchedulersInformed`, `NodesInformed`: which steps leave a peer uninformed of what is
  lent to whom, now or on its return. For schedulers it is only the loss of messages to a
  connection that has ended before its `Disconnect` is read; for nodes also the late
  `Disconnect` of the connection that had the slab id before, which empties the buffer.
  Without either exception TLC finds a behaviour that needs it.
* `SessionsKept`: a kept session is that of the peer it is kept for.
* `WakeupsKept`, `HeadServed`: no wake-up is lost except by the expiry of the first
  waiting worker, and a pass that is due serves the first waiting worker.
* `AnnouncedHere`: a job in progress was announced on the present connection, and
  the tasks sent on it are those the splitter has produced.
* `PartsExact`, `ReducerComplete`: each task sent is open or answered, never both,
  and the reducer starts when all are answered.
* `Awake`, `JobsEnd`: no missed wake-up, and every job ends.
* `ServesJobs`: the refinement of `JobService`.

* `TasksCover`: the tasks have consecutive numbers, as many as announced, and ask for
  each combination of each taxi once.
* `OpenTasksExact`: the task set holds the tasks without stored distances, and its
  length, which alone ends the wait for results, counts them.
* `PartsFound`, `AnswerMinimal`: the reducer finds every part, and its answer is the
  least total drive over all ways to give each passenger to a taxi and all orders.
* `ExecutorsConserved`: an executor is free or has one task, and a free process has
  nothing in its hands.
* `HeldUnlessLost`: an assigned task is with its executor unless it is `lost`; the panic of
  a wasm thread that finds its module evicted counts as the death of its executor.
* `AskedAccounted`: while the client is connected it waits for what unread requests ask
  for and what is assigned, less what an unread request replaces, and for the `late`.
* `TasksAnswered`: a task is answered or refused in the end, or it is `late` or `lost`,
  or the node has stopped. The exceptions are the code's.
* `MemorySafe`, `IndexAgrees`, `Implements`: each allocated node has one owner; index
  and list agree in both directions; the linked map is an `OrderedMap`.
* `IndexExact`: index and heap agree at each iteration of the loops, but for the
  entry that `bubble_up` carries.
* `HeapOrder`, `RootLargest`: between operations every parent is at least its
  children, and the root the largest, unless a priority was raised in place.

### Findings

* `scheduler.rs:276`: the place of an id in `replacements` is used to remove from
  `assignments`. Two workers run copies of a task, one finishes, the other answers:
  `swap_remove` panics. The same lines appear in the three error arms.
* `node_manager.rs:145`: the disconnect timeout of a scheduler does not end its
  session; it cancels the connection of the node with the same number.
* `task_manager.rs:184`: the reducer is given the number of taxies as the number of
  passengers. With more taxies than passengers it asks for a part nobody computed
  and panics; with fewer it computes the minimum over some passengers only.

## Proofs

`SchedulerProofs` proves every property of the `scheduler` run, the types first, for all values of the constants that satisfy
`SchedulerAssumption` (finitely many workers; natural bounds; jobs and buffer not
empty).

`NoPhantomAssignments` is inductive with the types: each handler takes from a
worker at least what it takes from the entries of the task for that worker, or
removes the task and its charges on all workers together (`FreedCopies`).
`EachTaskOnce` and `CompleteMeansAll` are not. That a job completes with every task
delivered needs `Accounting`: completed tasks and queued tasks together are the
received ones, which never exceed the total. When `completed` reaches the total,
the queue has therefore lost its last task, and `EachTaskOnce` puts the results of
all tasks into the buffer or with the task manager. That no result follows a
failure needs `FailedMeansNoJob`. `IInv` is the conjunction of all these; TLC
confirmed it on the instances before it was proved. The proof has a lemma for each
handler and each part it can disturb, and lemmas on `Size` and on the types of the
helpers below them. The action properties `VerdictIsFinal` and `DemandKept` follow
from `IInv` step by step.

`TaskManagerProofs` proves every property of the `task_manager` run but `JobsEnd`,
for both task managers and any jobs, job sizes and chunk size that satisfy `TaskManagerAssumption` (natural
sizes, a chunk not empty, a null job that is no job). `IInv` is the conjunction of the invariants with one
addition, that no task is open while the reducer runs: without it a late result
could add to the parts in a state that satisfies the other invariants. The step
lemmas follow four kinds of handler: those that end the job (`BreakKeepsIInv`), those
that restart it (`RestartKeepsIInv`), results, and the phases of `process_job`. The
refinement of `JobService` uses only the types: that a new id is none of the known
ones makes `AddJob` a `Submit`, and every `Break` is a `Finish` or a stuttering step.

`PriorityQueueProofs` proves `TypeOK`, `IndexExact` and `HeapOrder` of the priority
queue for any ids and any integer priorities. While a loop runs the heap is not
ordered, so the inductive invariant has `LoopOrder`: the order holds everywhere but
around the position of the loop, and the children of that position are not above
its parent. The lemmas `RiseOrder`, `SinkOrder` and `ChangeOrder` state on values
alone that an iteration, or the change of one entry, keeps this; the rest of the
proof shows that each action is such a change.

`RootLargest` follows from `HeapOrder` by induction along the path to the root. The
library's induction theorems take an operator as a parameter, which the installed
provers cannot instantiate; `Basics` gets round this with sets in the place of
operators. `LeastNatural` (a set of numbers that is not empty has a least member) comes
from the library's theorem that strict inclusion of finite sets is well-founded;
`EveryNatural` is induction for the members of a set, and `Recursion` says that the
function a recursive definition asks for exists, so that a recursive function can be
reasoned about.

`NodeManagerProofs` proves every property of the `node_manager` and `node_manager_live`
runs but `HeadServed`, for any peers, ids, timer keys, platforms and bounds that satisfy
`NodeManagerAssumption` (finitely many workers; `None` is no id). `EachWorkerOnce` and
`DemandsExact` need each other: a worker leaves a demand's count exactly when it leaves
that scheduler's list. The rest of `IInv` says what the tables have to do with each
other while peers come and go:

* `PoolKnown`: a worker is assigned to a scheduler that exists, and so is every demand.
  Without it a release or the loss of a node could leave a worker in no list.
* `KeptOffline`: a kept session is that of a peer that is offline. It makes
  `SessionsKept` survive the restoring of sessions and the expiry of timers.
* `OneConnection`: a connected scheduler has one connection, and its id is in the
  slab. It does not hold of nodes, which is why `NodesInformed` has its exception.

There is a lemma for each handler. The pass over the queue is the largest: the workers
lent in it are the places of `given` with a scheduler's id (`Picked`), in order, and
lemmas on `Nth` and `Picked` show that they are distinct and leave the line as a suffix.
That no demand is exceeded is shown with the first lending that would (`LeastNatural`).
`SchedulersInformed`, `NodesInformed` and `WakeupsKept` are action properties proved from
`IInv` step by step. The first needs that a `Disconnect` finds its scheduler online
(`OneConnection`), so that the buffer it empties holds nothing; `TellsOf` and
`StaysInformed` say what a send does to a record in each of the three states of a
connection.

`JobPipelineProofs` proves `TasksCover` for any number of taxies and of passengers,
except 0 passengers. `SplitInv` says where the splitter stands: `Position` (the number
of the next task is a function of taxi and combination), `Numbered` (the numbers used
have no gaps and no repetitions) and `Covered` (the tasks made are those of the
combinations before the place). That each combination comes once needs that the upper
half of the combinations are the complements of the lower half, i.e. that the power of two
is even; it is a recursive function in the model and its values come from `Recursion`.
Without passengers the power is 1, and `NothingAnnounced` states what happens:
`total_tasks` is 0 and the splitter makes a task for each taxi all the same. No
doc or test says what such a job should do. `PipelineAssumption` only says that taxies
and passengers are finitely many and that a word is not empty.

The same module proves `OpenTasksExact` and `PartsFound`, for jobs whose combinations two
words hold (`KeysFit`: fewer passengers than twice the bits of a word and no multiple of
them, which leaves out the passengers of the hazard at `multilevel_vec_map.rs`: their map
has a single level and stores nothing). `PartsInv` says that the task set has only numbers of
tasks made and counts them (`Counted`), and that each map has exactly the keys of the
combinations that were answered (`Keyed`); a result that comes a second time finds its
number gone and changes neither. That one task stored does not stand for another needs
two facts on data: a number below a power of two is told apart by its bits
(`BitsTellApart`), and words and levels put different combinations under different keys
(`SplitAlong`, `KeysApart`). `PartsFound` needs the other direction as well: each set of
passengers is the bits of a number (`BitsOfSet`), so that what the reducer puts together
from the digits of its counter is a combination the splitter has sent, and all of them
were answered when the task set is empty (`Settled`). The theorem asks for no more taxies than passengers;
`job_pipeline_wide` shows that without this `PartsFound` is false.

`NodeProofs` proves every property of the `node` run for both kinds of worker and any
number of executors, jobs, tasks, unread events and deaths: `NodeAssumption` and
`WorkerAssumption` say that the bounds are natural numbers and that the executors, the
caches and the channels are not of size 0, `NoClientAssumption` that the absence of a
client is not a client. `IInv` adds to the four invariants:

* `Orderly`: an executor is free or some task's, a task's executor is not free, and no
  two tasks have the same one. It allows a task whose process is gone, which
  `RecvDropped` leaves behind.
* `Hands`: a process holds at most one task, the one assigned to it, which is why a free
  process holds nothing; a thread may hold a task that was given up, but never goes.
* `DeadLost`: what is assigned to a dead process is lost. Otherwise its restart could
  take a result that was still waited for.
* `Sequel`: an unconnected client has nothing assigned, and the first event of a
  connection is `Connected`. It makes an answer always one that is delivered.
* `Distinct`, `Asking`: unread requests do not get in each other's way. A single unread
  event hides most of this; with more of them the tasks an unread request gives up
  have to be left out of what the client waits for. TLC checked `IInv` with two unread
  events before it was proved.

The first two thirds of the proof are about a worker alone. `Good` is the part of `IInv`
about it, `Apart` the same with one executor in hand, as every operation has on the way;
`Handled`, `Received` and `ResetIs` say what a request, an item of a stream and a reset
make of a good worker. The loops use `LoopExists` of `Basics`: a recursive function that
has an invariant at every iteration exists and has it. The last third has a lemma for each action, in three parts: what is
about the worker (`Workers`), what is about the client (`Clients`), and the rest.

### The linked map

`LinkedVecMapProofs` proves `TypeOK`, `MemorySafe` and `IndexAgrees`, and that the linked
map implements `OrderedMap` (`Implements`), for any finite set of
addresses, any keys and values that are natural numbers, any number of iterators and any
allocator that gives an address not in use (`LinkedVecMapAssumption`).

`MemorySafe` and `IndexAgrees` follow the pointers of a state, and say nothing of a
drain that is half way or of where an iterator stands; neither is inductive. `Safe`, the
inductive invariant (in `LinkedVecMapShapes`, with the other predicates the proof speaks
in), says that there are a function `c` from places to nodes and a
function `f`, the ring and the free list, such that

* `Ring`: `c` starts and ends at the guard, `prev` leads from each place to the next and
  `next` back, no node of an entry is the guard or in two places;
* `Chain`: `f` starts at `map.free`, `next` leads on to Null, no node is twice in it;
* `Linked`: guard, ring, free list and the nodes that `IntoIter` iterators own are
  pairwise disjoint, and together all that is allocated;
* `Tells`: the index has the nodes of the ring at their keys and nothing else;
* `Stands`: what is borrowed while an iterator lives, and its place. `Iter`, `IterMut`
  and `Entries` walk over a window of the ring (`InRing`), and an entry the caller holds
  is behind the window, which is why its removal does not disturb the iterator; a drain
  walks over a window of the free list with `prev` still intact in it (`InChain`); an
  `IntoIter` owns a chain linked both ways (`Owns`), disjoint from that of its clones.

The proof of the invariants is in three layers. The first is about lists: what `attach`, `detach`, the
recycling of a node, `drain`, `into_iter` and the loops of `drop_entries` and
`clear_free_list` make of `c` and `f` (`AttachIs`, `DrainLinked`, `RingIs`). `Until` and
`Path` are recursive functions, so what the loops visit is proved by induction with the
lemmas of `Basics`. The second layer adds the index: what a call makes of a map
(`AddedIs`, `LostIs`, `RewrittenIs`). The third has one lemma for each action, with the
iterators. `LinkedIndex` includes that a clone, made by inserting the entries one by one
into a new map, has the same entries in the same order (`CloneIs`), and `CloneIntoIterSafe`
that the loop that copies what is left of an `IntoIter` makes new nodes only.

`LinkedRefines` is the refinement. The mapping reads the ring as a sequence of items,
each iterator as the items of its path (`AllPending`), and the held entries as their keys
(`HeldKeys`). Every call is one step of `OrderedMap`, and the lemma for it has its name with
`Abs` added (`InsertAbs`, `NextBackAbs`). On the side of the map, an insertion, a
removal and a rewrite are `Append` and `RemoveAt` on the items (`AddedItems`, `LostItems`,
`RenewedItems`), and the place that `OrderedMap` chooses for a key is the one the index
leads to, because keys are distinct in the ring (`AbsPresent`, `AbsAbsent`). On the side of
iterators three things have to be shown that no invariant of the runs says:

* where an iterator ends is where nothing is left (`IterStands`): `Iter` and `IterMut`
  stop where head meets tail, and count down `remaining` beside that;
* a call, or a step of one iterator, changes nothing for the others (`YetKept`): what an
  `IntoIter` frees is in no other iterator (`FreedPending`), the content a drain takes is
  in no entry (`SparesGone`), and an entry that is removed, or moved to the back, while
  `entries()` goes on is behind it (`SeenPending`);
* a clone of an `IntoIter` has the items that are left of the original, in nodes of its
  own (`CopiedSame`).

Only model-checked: liveness (`HeadServed`, `JobsEnd`, `TasksAnswered`), which is out of
reach of the proof system used; `AnswerMinimal`, for which what recursive functions compute on a graph would have to be
proved by induction over data; and the three violations.

## Not modelled

* HTTP API, command line, certificates, endpoints, benchmarks: I/O and configuration.
* Codec, channels, retry: thin wrappers of bincode, tokio channels and a loop with a
  delay. The order they keep, the single wake-up permit and the giving up are in the
  modules that use them.
* The Python splitter and reducer of the necklace task manager: external code.
* The queue of several task managers for one scheduler (`handle_task_manager_queue`):
  `TaskManager` has its effect on one of them.
* Operations of the containers that no service calls: unchecked and multiple access,
  ranges and set algebra of the bit set, removal from the multilevel map.
* Durations: any timer may run out at any time. Averages and statistics.

## Plan

1. `NodeManager`: an abstract specification of lending (`NodePool`: a partial function
   from workers to schedulers) that `NodeManager` implements.
2. Compositions: scheduler and node manager over channels (crossing `Connect` and
   `ReleaseDemand`, demands while the node manager is away), scheduler and several task
   managers in line, the scheduler with the order of its priority queues.
