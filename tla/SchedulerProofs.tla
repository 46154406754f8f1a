--------------------------- MODULE SchedulerProofs ---------------------------
(* Theorems about the scheduler, for every number of workers and tasks,    *)
(* every buffer size and every value of the bounds: its types, and its     *)
(* safety properties by induction on IInv.                                 *)
EXTENDS Scheduler, FiniteSetTheorems, TLAPS

(* The size of a multiplicity function over a finite set is a number.      *)
LEMMA SizeNat ==
  ASSUME NEW S, IsFiniteSet(S), NEW b \in [S -> Nat]
  PROVE  Size(b) \in Nat
<1> DEFINE U == {{x} \X (1 .. b[x]) : x \in S}
           f == [x \in S |-> {x} \X (1 .. b[x])]
<1>1. IsFiniteSet(U)
  <2>1. f \in Surjection(S, U)
    BY DEF Surjection
  <2> HIDE DEF U, f
  <2> QED BY <2>1, FS_Surjection
<1>2. ASSUME NEW x \in S PROVE IsFiniteSet({x} \X (1 .. b[x]))
  <2>1. IsFiniteSet({x})
    BY FS_Singleton
  <2>2. IsFiniteSet(1 .. b[x])
    BY FS_Interval
  <2> QED BY <2>1, <2>2, FS_Product
<1>3. IsFiniteSet(UNION U)
  BY <1>1, <1>2, FS_UNION
<1>4. DOMAIN b = S
  OBVIOUS
<1> QED BY <1>3, <1>4, FS_CardinalityType DEF Size

(* The multiplicities of a list of task ids. *)
LEMMA ListType == Lists \subseteq [TaskId -> Nat]
  BY SchedulerAssumption DEF Lists

LEMMA TaskIdFinite == IsFiniteSet(TaskId)
  BY SchedulerAssumption, FS_Interval DEF TaskId

LEMMA CardNat ==
  ASSUME NEW S, IsFiniteSet(S), NEW T \in SUBSET S
  PROVE  Cardinality(T) \in Nat
  BY FS_Subset, FS_CardinalityType

(* What a handler starts from: the empty and the fresh entries are typed.  *)
LEMMA FreshTypes ==
  /\ None(TaskId) \in [TaskId -> Nat]
  /\ NewTask \in Task
  /\ \A n \in Subworkers : NewWorker(n) \in Worker
  /\ DOMAIN Empty = {}
  BY SchedulerAssumption DEF None, NewTask, NewWorker, Task, Worker, Empty

LEMMA SizesNat ==
  ASSUME TypeOK
  PROVE  /\ \A l \in [TaskId -> Nat] : Size(l) \in Nat
         /\ \A w \in DOMAIN workers_queue :
              /\ Size(workers_queue[w].assignments) \in Nat
              /\ Size(workers_queue[w].replacements) \in Nat
              /\ can_accept(workers_queue[w]) \in Int
  <1>1. \A l \in [TaskId -> Nat] : Size(l) \in Nat
    BY SizeNat, TaskIdFinite
  <1> QED BY <1>1 DEF TypeOK, Worker, can_accept

(* Updates of one entry. *)
LEMMA TaskUpdate ==
  ASSUME NEW task \in Task, NEW w \in Workers, NEW n \in Nat
  PROVE  /\ [task EXCEPT !.assignments[w] = n] \in Task
         /\ [task EXCEPT !.assignments[w] = n].assignments[w] = n
         /\ [task EXCEPT !.assignments[w] = n].failed = task.failed
         /\ \A v \in Workers \ {w} :
              [task EXCEPT !.assignments[w] = n].assignments[v] = task.assignments[v]
  BY DEF Task

LEMMA TypeAssign ==
  ASSUME TypeOK, scheduled_job # NoJob,
         NEW w \in DOMAIN workers_queue, NEW picked \in Lists, AssignTasks(w, picked)
  PROVE  TypeOK'
<1> USE DEF TypeOK
<1>1. picked \in [TaskId -> Nat]
  BY ListType
<1>2. Cardinality(IdlePicks(picked)) \in Nat
  <2>1. IdlePicks(picked) \subseteq TaskId
    BY DEF IdlePicks
  <2> QED BY <2>1, CardNat, TaskIdFinite
<1>3. DOMAIN tasks_queue' \subseteq TaskId /\ \A t \in DOMAIN tasks_queue' : tasks_queue'[t] \in Task
  <2>1. \A t \in DOMAIN tasks_queue : tasks_queue[t].assignments[w] + picked[t] \in Nat
    BY <1>1 DEF Task
  <2>2. DOMAIN tasks_queue' = DOMAIN tasks_queue
    BY DEF AssignTasks
  <2>3. ASSUME NEW t \in DOMAIN tasks_queue PROVE tasks_queue'[t] \in Task
    <3>1. tasks_queue'[t] = [tasks_queue[t] EXCEPT !.assignments[w] =
                                tasks_queue[t].assignments[w] + picked[t]]
      BY DEF AssignTasks
    <3> QED BY <2>1, <3>1, TaskUpdate
  <2> QED BY <2>2, <2>3
<1>4. scheduled_job' \in Job
  BY <1>2 DEF AssignTasks, Job
<1>5. DOMAIN workers_queue' \subseteq Workers /\ \A v \in DOMAIN workers_queue' : workers_queue'[v] \in Worker
  <2>1. PICK replaced \in Lists :
          /\ \A t \in TaskId : replaced[t] <= workers_queue[w].replacements[t]
          /\ workers_queue' = [workers_queue EXCEPT ![w] = Loaded(workers_queue[w], picked, replaced)]
    BY DEF AssignTasks
  <2>2. replaced \in [TaskId -> Nat]
    BY ListType
  <2>3. [t \in TaskId |-> workers_queue[w].assignments[t] + picked[t]] \in [TaskId -> Nat]
    BY <1>1 DEF Worker
  <2>4. [t \in TaskId |-> workers_queue[w].replacements[t] - replaced[t]] \in [TaskId -> Nat]
    BY <2>1, <2>2 DEF Worker
  <2>5. Loaded(workers_queue[w], picked, replaced) \in Worker
    BY <2>3, <2>4 DEF Worker, Loaded
  <2> QED BY <2>1, <2>5
<1>6. need_schedule' \in BOOLEAN
  BY DEF AssignTasks
<1> QED BY <1>3, <1>4, <1>5, <1>6 DEF AssignTasks, links, told

LEMMA MonusNat ==
  ASSUME NEW m \in Nat, NEW n \in Nat
  PROVE  Monus(m, n) \in Nat /\ Monus(m, n) <= m
  BY DEF Monus

(* Returning a list of assignments of w keeps the types, and changes no    *)
(* other column of the assignment matrix.                                  *)
LEMMA ReturnedTasksTypes ==
  ASSUME TypeOK, NEW w \in Workers, NEW l \in [TaskId -> Nat]
  PROVE  /\ DOMAIN ReturnedTasks(w, l) = DOMAIN tasks_queue
         /\ \A t \in DOMAIN tasks_queue :
              /\ ReturnedTasks(w, l)[t] \in Task
              /\ ReturnedTasks(w, l)[t].failed = tasks_queue[t].failed
              /\ ReturnedTasks(w, l)[t].assignments[w] =
                    Monus(tasks_queue[t].assignments[w], l[t])
              /\ \A v \in Workers \ {w} :
                    ReturnedTasks(w, l)[t].assignments[v] = tasks_queue[t].assignments[v]
<1>1. DOMAIN ReturnedTasks(w, l) = DOMAIN tasks_queue
  BY DEF ReturnedTasks
<1>2. ASSUME NEW t \in DOMAIN tasks_queue
      PROVE  /\ ReturnedTasks(w, l)[t] \in Task
             /\ ReturnedTasks(w, l)[t].failed = tasks_queue[t].failed
             /\ ReturnedTasks(w, l)[t].assignments[w] =
                   Monus(tasks_queue[t].assignments[w], l[t])
             /\ \A v \in Workers \ {w} :
                   ReturnedTasks(w, l)[t].assignments[v] = tasks_queue[t].assignments[v]
  <2> DEFINE n == Monus(tasks_queue[t].assignments[w], l[t])
             r == ReturnedTasks(w, l)[t]
  <2>1. r = [tasks_queue[t] EXCEPT !.assignments[w] = n]
    BY DEF ReturnedTasks
  <2>2. tasks_queue[t] \in Task /\ tasks_queue[t].assignments[w] \in Nat /\ l[t] \in Nat
    BY DEF TypeOK, Task
  <2>3. n \in Nat
    BY <2>2, MonusNat
  <2> HIDE DEF n, r
  <2>4. /\ r \in Task
        /\ r.failed = tasks_queue[t].failed
        /\ r.assignments[w] = n
        /\ \A v \in Workers \ {w} : r.assignments[v] = tasks_queue[t].assignments[v]
    BY <2>1, <2>2, <2>3 DEF Task
  <2> QED BY <2>4 DEF n, r
<1> QED BY <1>1, <1>2

LEMMA ReturnTypes ==
  ASSUME TypeOK, scheduled_job # NoJob, NEW w \in DOMAIN workers_queue,
         NEW returned \in [TaskId -> Nat], NEW wrong \in [TaskId -> Nat]
  PROVE  /\ ReturnedAssignments(w, returned, wrong) \in [TaskId -> Nat]
         /\ ReturnedSchedule(w, returned) \in Int
         /\ Taken(w, returned) \in [TaskId -> Nat]
<1> USE DEF TypeOK
<1>1. Taken(w, returned) \in [TaskId -> Nat]
  BY DEF Taken
<1>2. ReturnedAssignments(w, returned, wrong) \in [TaskId -> Nat]
  <2>1. \A t \in TaskId : /\ workers_queue[w].assignments[t] \in Nat
                          /\ Taken(w, returned)[t] + wrong[t] \in Nat
    BY <1>1 DEF Worker
  <2> QED BY <2>1, MonusNat DEF ReturnedAssignments
<1>3. ReturnedSchedule(w, returned) \in Int
  <2> DEFINE b == [t \in DOMAIN tasks_queue |-> IdleWhenReturned(w, t, returned[t])]
  <2>1. IsFiniteSet(DOMAIN tasks_queue)
    BY TaskIdFinite, FS_Subset
  <2>2. ASSUME NEW t \in DOMAIN tasks_queue
        PROVE  IdleWhenReturned(w, t, returned[t]) \in Nat
    <3> DEFINE I == {i \in 1 .. returned[t] :
                       /\ Size(tasks_queue[t].assignments) = tasks_queue[t].assignments[w]
                       /\ i > tasks_queue[t].assignments[w]}
    <3>1. I \in SUBSET (1 .. returned[t]) /\ returned[t] \in Nat
      OBVIOUS
    <3>2. IsFiniteSet(1 .. returned[t])
      BY <3>1, FS_Interval
    <3>3. Cardinality(I) \in Nat
      BY <3>1, <3>2, CardNat
    <3> QED BY <3>3 DEF IdleWhenReturned
  <2>3. b \in [DOMAIN tasks_queue -> Nat]
    BY <2>2
  <2> HIDE DEF b
  <2>4. Size(b) \in Nat
    BY <2>1, <2>3, SizeNat
  <2> QED BY <2>4 DEF ReturnedSchedule, Job, b
<1> QED BY <1>1, <1>2, <1>3

-----------------------------------------------------------------------------
(* Type correctness, one lemma per handler. *)

LEMMA TypeReset ==
  ASSUME TypeOK, reset_scheduler
  PROVE  /\ DOMAIN tasks_queue' = {}
         /\ DOMAIN workers_queue' = {}
         /\ nodes' = {}
         /\ results_buffer' = None(TaskId)
         /\ results_buffer' \in [TaskId -> Nat]
         /\ need_schedule' = FALSE
  BY FreshTypes DEF reset_scheduler

LEMMA TypePanic ==
  ASSUME TypeOK, Panic
  PROVE  TypeOK'
  BY DEF TypeOK, Panic, queues, links, told

LEMMA TypeConnected ==
  ASSUME TypeOK, NEW w \in Workers, NEW n \in Subworkers, WorkerConnected(w, n)
  PROVE  TypeOK'
<1>1. NewWorker(n) \in Worker
  BY FreshTypes
<1>2. DOMAIN workers_queue' \subseteq Workers /\ \A v \in DOMAIN workers_queue' : workers_queue'[v] \in Worker
  BY <1>1 DEF TypeOK, WorkerConnected
<1> QED BY <1>2 DEF TypeOK, WorkerConnected, links, told

LEMMA TypeDisconnect ==
  ASSUME TypeOK, NEW w \in Workers, process_worker_disconnect(w)
  PROVE  TypeOK'
<1>1. CASE ~Connected(w)
  BY <1>1 DEF TypeOK, process_worker_disconnect, links, told
<1>2. CASE Connected(w) /\ scheduled_job = NoJob
  BY <1>2 DEF TypeOK, process_worker_disconnect, Connected, Restrict, links, told
<1>3. CASE Connected(w) /\ scheduled_job # NoJob
  <2> DEFINE l == [t \in TaskId |-> workers_queue[w].assignments[t]]
             b == [t \in DOMAIN tasks_queue |-> FreedBy(w, t)]
  <2>1. l \in [TaskId -> Nat]
    BY <1>3 DEF TypeOK, Worker, Connected
  <2>2. tasks_queue' = ReturnedTasks(w, l)
    BY <1>3 DEF process_worker_disconnect, TypeOK, ReturnedTasks
  <2>3. DOMAIN tasks_queue' \subseteq TaskId /\ \A t \in DOMAIN tasks_queue' : tasks_queue'[t] \in Task
    <3> HIDE DEF l
    <3>1. /\ DOMAIN tasks_queue' = DOMAIN tasks_queue
          /\ \A t \in DOMAIN tasks_queue : tasks_queue'[t] \in Task
      BY <2>1, <2>2, ReturnedTasksTypes
    <3> QED BY <3>1 DEF TypeOK
  <2>4. ASSUME NEW t \in DOMAIN tasks_queue PROVE FreedBy(w, t) \in Nat
    <3> DEFINE N == workers_queue[w].assignments[t]
               I == {i \in 1 .. N :
                       /\ Size(tasks_queue[t].assignments) = tasks_queue[t].assignments[w]
                       /\ i >= tasks_queue[t].assignments[w]}
    <3>1. I \in SUBSET (1 .. N) /\ N \in Nat
      BY <1>3 DEF TypeOK, Worker, Connected
    <3>2. IsFiniteSet(1 .. N)
      BY <3>1, FS_Interval
    <3>3. Cardinality(I) \in Nat
      BY <3>1, <3>2, CardNat
    <3> QED BY <3>3 DEF FreedBy
  <2>5. Size(b) \in Nat
    <3>1. b \in [DOMAIN tasks_queue -> Nat]
      BY <2>4
    <3>2. IsFiniteSet(DOMAIN tasks_queue)
      BY TaskIdFinite, FS_Subset DEF TypeOK
    <3> HIDE DEF b
    <3> QED BY <3>1, <3>2, SizeNat
  <2>6. scheduled_job' \in Job
    <3> HIDE DEF l, b
    <3>1. scheduled_job' = [scheduled_job EXCEPT !.scheduled = @ - Size(b)]
      BY <1>3 DEF process_worker_disconnect, b
    <3> QED BY <3>1, <2>5, <1>3 DEF TypeOK, Job
  <2> QED BY <1>3, <2>3, <2>6 DEF TypeOK, process_worker_disconnect, Connected, Restrict, links, told
<1> QED BY <1>1, <1>2, <1>3

(* Buffer::push and what has been sent are lists of task ids. *)
LEMMA ResultTypes ==
  ASSUME TypeOK, NEW t \in TaskId
  PROVE  Buffered(t) \in [TaskId -> Nat] /\ Sent \in [TaskId -> Nat]
  BY DEF TypeOK, Buffered, Sent

(* A result changes column t of every worker: it takes the freed copies,   *)
(* and leaves the other tasks of the worker alone.                         *)
LEMMA AfterResultWorker ==
  ASSUME TypeOK, NEW w \in Workers, NEW t \in DOMAIN tasks_queue,
         NEW v \in DOMAIN workers_queue
  PROVE  LET a == AfterResult(w, t)[v]
             freed == FreedCopies(w, t, v)
         IN  /\ a \in Worker
             /\ freed \in Nat
             /\ freed >= tasks_queue[t].assignments[v]
             /\ a.assignments[t] = Monus(workers_queue[v].assignments[t], freed)
             /\ \A u \in TaskId \ {t} : a.assignments[u] = workers_queue[v].assignments[u]
<1> DEFINE worker == workers_queue[v]
           copies == tasks_queue[t].assignments[v]
           freed == FreedCopies(w, t, v)
           m == Monus(worker.assignments[t], freed)
           r == worker.replacements[t] + ReplacedCopies(w, t, v)
           a == AfterResult(w, t)[v]
<1>1. worker \in Worker /\ t \in TaskId /\ v \in Workers
  BY DEF TypeOK
<1>2. copies \in Nat
  BY DEF TypeOK, Task
<1>3. freed \in Nat /\ freed >= copies
  BY <1>2 DEF FreedCopies
<1>4. m \in Nat
  <2>1. worker.assignments[t] \in Nat
    BY <1>1 DEF Worker
  <2> HIDE DEF worker, freed
  <2> QED BY <2>1, <1>3, MonusNat
<1>5. r \in Nat
  <2>1. ReplacedCopies(w, t, v) \in Nat
    BY <1>2 DEF ReplacedCopies, Monus
  <2> QED BY <2>1, <1>1 DEF Worker
<1>6. a = [worker EXCEPT !.assignments[t] = m, !.replacements[t] = r]
  BY DEF AfterResult
<1> HIDE DEF worker, m, r, a
<1>7. /\ a \in Worker
      /\ a.assignments[t] = m
      /\ \A u \in TaskId \ {t} : a.assignments[u] = worker.assignments[u]
  BY <1>1, <1>4, <1>5, <1>6 DEF Worker
<1> QED BY <1>3, <1>7 DEF worker, m, a

LEMMA TypeResult ==
  ASSUME TypeOK, NEW w \in Workers, NEW t \in TaskId, WorkerResult(w, t)
  PROVE  TypeOK'
<1>1. CASE ResultOfQueued(w, t)
  <2>1. scheduled_job \in Job /\ t \in DOMAIN tasks_queue
    BY <1>1 DEF TypeOK, WorkerResult, ResultOfQueued, Queued
  <2>2. scheduled_job' \in Job
    BY <1>1, <2>1 DEF ResultOfQueued, Job
  <2>3. CASE AllDone(scheduled_job.completed + 1)
    <3>1. reset_scheduler /\ verdict' = "complete" /\ demand' = FALSE
          /\ delivered' = [u \in TaskId |-> Sent[u] + Buffered(t)[u]]
      BY <1>1, <2>3 DEF ResultOfQueued
    <3>2. delivered' \in [TaskId -> Nat]
      BY <3>1, ResultTypes
    <3> QED BY <1>1, <2>2, <3>1, <3>2, TypeReset DEF TypeOK, ResultOfQueued
  <2>4. CASE ~AllDone(scheduled_job.completed + 1)
    <3>1. /\ delivered' = Sent
          /\ results_buffer' = Buffered(t)
          /\ tasks_queue' = Restrict(tasks_queue, DOMAIN tasks_queue \ {t})
          /\ workers_queue' = AfterResult(w, t)
          /\ need_schedule' = TRUE
          /\ UNCHANGED <<nodes, verdict, demand>>
      BY <1>1, <2>4 DEF ResultOfQueued
    <3>2. DOMAIN workers_queue' = DOMAIN workers_queue
      BY <3>1 DEF AfterResult
    <3>3. \A v \in DOMAIN workers_queue' : workers_queue'[v] \in Worker
      BY <2>1, <3>1, <3>2, AfterResultWorker
    <3> QED BY <1>1, <2>2, <3>1, <3>2, <3>3, ResultTypes DEF TypeOK, ResultOfQueued, Restrict
  <2> QED BY <2>3, <2>4
<1>2. CASE ResultOfUnqueued(w, t)
  <2>1. CASE Panic
    BY <2>1, TypePanic
  <2>2. CASE UNCHANGED workers_queue /\ need_schedule' = TRUE
             /\ UNCHANGED <<status, scheduled_job, tasks_queue, nodes, results_buffer, links, told>>
    BY <2>2 DEF TypeOK, links, told
  <2>3. ASSUME NEW u \in TaskId, workers_queue[w].assignments[u] > 0,
               workers_queue' = [workers_queue EXCEPT ![w].assignments[u] = @ - 1],
               need_schedule' = TRUE, Connected(w),
               UNCHANGED <<status, scheduled_job, tasks_queue, nodes, results_buffer, links, told>>
        PROVE  TypeOK'
    <3> DEFINE n == workers_queue[w].assignments[u] - 1
               new == [workers_queue[w] EXCEPT !.assignments[u] = n]
    <3>1. workers_queue[w] \in Worker /\ n \in Nat
      BY <2>3 DEF TypeOK, Connected, Worker
    <3>2. new \in Worker
      <4> HIDE DEF n
      <4> QED BY <3>1 DEF Worker
    <3>3. workers_queue' = [workers_queue EXCEPT ![w] = new]
      BY <2>3
    <3> HIDE DEF new
    <3> QED BY <2>3, <3>2, <3>3 DEF TypeOK, links, told
  <2> QED BY <1>2, <2>1, <2>2, <2>3 DEF ResultOfUnqueued
<1> QED BY <1>1, <1>2 DEF WorkerResult

LEMMA OnlyType == \A t \in TaskId : Only(t) \in [TaskId -> Nat]
  BY DEF Only

LEMMA TypeLibraryMissing ==
  ASSUME TypeOK, NEW w \in Workers, NEW returned \in Lists, NEW old \in Lists,
         LibraryMissing(w, returned, old)
  PROVE  TypeOK'
<1>1. returned \in [TaskId -> Nat] /\ old \in [TaskId -> Nat]
  BY ListType
<1>2. scheduled_job # NoJob /\ w \in DOMAIN workers_queue
  BY DEF LibraryMissing, Connected
<1>3. CASE Panic
  BY <1>3, TypePanic
<1>4. ASSUME NEW wrong \in Lists,
             need_schedule' = TRUE,
             tasks_queue' = ReturnedTasks(w, returned),
             workers_queue' = [workers_queue EXCEPT ![w] =
                [workers_queue[w] EXCEPT
                   !.has_job_data = FALSE,
                   !.assignments = ReturnedAssignments(w, returned, wrong),
                   !.replacements = [t \in TaskId |->
                                        workers_queue[w].replacements[t] + old[t]]]],
             scheduled_job' = [scheduled_job EXCEPT !.scheduled = ReturnedSchedule(w, returned)],
             UNCHANGED <<status, nodes, results_buffer, links, told>>
      PROVE  TypeOK'
  <2> DEFINE asg == ReturnedAssignments(w, returned, wrong)
             rep == [t \in TaskId |-> workers_queue[w].replacements[t] + old[t]]
             new == [workers_queue[w] EXCEPT
                        !.has_job_data = FALSE, !.assignments = asg, !.replacements = rep]
  <2>1. wrong \in [TaskId -> Nat]
    BY ListType
  <2>2. asg \in [TaskId -> Nat] /\ ReturnedSchedule(w, returned) \in Int
    BY <1>1, <1>2, <2>1, ReturnTypes
  <2>3. rep \in [TaskId -> Nat]
    BY <1>1, <1>2 DEF TypeOK, Worker
  <2>4. new \in Worker
    <3> HIDE DEF asg, rep
    <3> QED BY <1>2, <2>2, <2>3 DEF TypeOK, Worker
  <2>5. scheduled_job' \in Job
    BY <1>2, <1>4, <2>2 DEF TypeOK, Job
  <2>6. workers_queue' = [workers_queue EXCEPT ![w] = new]
    BY <1>4
  <2>7. DOMAIN tasks_queue' \subseteq TaskId /\ \A t \in DOMAIN tasks_queue' : tasks_queue'[t] \in Task
    BY <1>1, <1>4, ReturnedTasksTypes DEF TypeOK
  <2> HIDE DEF new
  <2> QED BY <1>4, <2>4, <2>5, <2>6, <2>7 DEF TypeOK, links, told
<1> QED BY <1>3, <1>4 DEF LibraryMissing

LEMMA TypeNoFreeExecutors ==
  ASSUME TypeOK, NEW w \in Workers, NEW returned \in Lists, NoFreeExecutors(w, returned)
  PROVE  TypeOK'
<1>1. returned \in [TaskId -> Nat]
  BY ListType
<1>2. scheduled_job # NoJob /\ w \in DOMAIN workers_queue
  BY DEF NoFreeExecutors, Connected
<1>3. CASE Panic
  BY <1>3, TypePanic
<1> DEFINE some == workers_queue[w].subworkers # 0
           sub == IF some THEN workers_queue[w].subworkers - Size(returned)
                          ELSE workers_queue[w].subworkers
<1>4. ASSUME NEW wrong \in Lists,
             need_schedule' = (need_schedule \/ some),
             tasks_queue' = ReturnedTasks(w, returned),
             workers_queue' = [workers_queue EXCEPT ![w] =
                [workers_queue[w] EXCEPT
                   !.subworkers = sub,
                   !.assignments = ReturnedAssignments(w, returned, wrong)]],
             scheduled_job' = [scheduled_job EXCEPT !.scheduled = ReturnedSchedule(w, returned)],
             UNCHANGED <<status, nodes, results_buffer, links, told>>
      PROVE  TypeOK'
  <2> DEFINE asg == ReturnedAssignments(w, returned, wrong)
             new == [workers_queue[w] EXCEPT !.subworkers = sub, !.assignments = asg]
  <2>1. wrong \in [TaskId -> Nat]
    BY ListType
  <2>2. asg \in [TaskId -> Nat] /\ ReturnedSchedule(w, returned) \in Int
    BY <1>1, <1>2, <2>1, ReturnTypes
  <2>3. sub \in Int
    <3>1. Size(returned) \in Nat
      BY <1>1, SizeNat, TaskIdFinite
    <3> QED BY <1>2, <3>1 DEF TypeOK, Worker
  <2>4. new \in Worker
    <3> HIDE DEF asg, sub
    <3> QED BY <1>2, <2>2, <2>3 DEF TypeOK, Worker
  <2>5. scheduled_job' \in Job
    BY <1>2, <1>4, <2>2 DEF TypeOK, Job
  <2>6. workers_queue' = [workers_queue EXCEPT ![w] = new]
    BY <1>4
  <2>7. DOMAIN tasks_queue' \subseteq TaskId /\ \A t \in DOMAIN tasks_queue' : tasks_queue'[t] \in Task
    BY <1>1, <1>4, ReturnedTasksTypes DEF TypeOK
  <2>8. need_schedule' \in BOOLEAN
    BY <1>4 DEF TypeOK
  <2> HIDE DEF new
  <2> QED BY <1>4, <2>4, <2>5, <2>6, <2>7, <2>8 DEF TypeOK, links, told
<1> QED BY <1>3, <1>4 DEF NoFreeExecutors

LEMMA FailureCount ==
  ASSUME NEW f \in 0 .. FailLimit, NEW n \in {0, 1}, f = FailLimit => n = 0
  PROVE  f + n \in 0 .. FailLimit
  BY SchedulerAssumption

(* One more failure of t, counted after its assignment is returned. *)
LEMMA TaskErrorTasks ==
  ASSUME TypeOK, NEW w \in Workers, NEW t \in TaskId,
         ~(Queued(t) /\ tasks_queue[t].failed = FailLimit), NEW q,
         q = [u \in DOMAIN tasks_queue |->
                [ReturnedTasks(w, Only(t))[u] EXCEPT !.failed = @ + Only(t)[u]]]
  PROVE  /\ DOMAIN q = DOMAIN tasks_queue
         /\ \A u \in DOMAIN tasks_queue :
              /\ q[u] \in Task
              /\ q[u].assignments = ReturnedTasks(w, Only(t))[u].assignments
<1>1. ASSUME NEW u \in DOMAIN tasks_queue
      PROVE  /\ q[u] \in Task
             /\ q[u].assignments = ReturnedTasks(w, Only(t))[u].assignments
  <2> DEFINE r == ReturnedTasks(w, Only(t))[u]
             n == Only(t)[u]
  <2>1. u \in TaskId
    BY DEF TypeOK
  <2>2. n \in {0, 1} /\ (n = 1 => u = t)
    BY <2>1 DEF Only
  <2>3. r \in Task /\ r.failed = tasks_queue[u].failed
    BY OnlyType, ReturnedTasksTypes
  <2>4. r.failed = FailLimit => n = 0
    BY <2>2, <2>3 DEF Queued
  <2> DEFINE k == r.failed + n
  <2>5. q[u] = [r EXCEPT !.failed = k]
    OBVIOUS
  <2>6. k \in 0 .. FailLimit
    <3> HIDE DEF r, n
    <3>1. r.failed \in 0 .. FailLimit /\ FailLimit \in Nat
      BY <2>3, SchedulerAssumption DEF Task
    <3> QED BY <2>2, <2>4, <3>1, FailureCount
  <2> HIDE DEF r, n, k
  <2>7. q[u] \in Task /\ q[u].assignments = r.assignments
    BY <2>3, <2>5, <2>6 DEF Task
  <2> QED BY <2>7 DEF r
<1> QED BY <1>1

LEMMA TypeTaskExecutionError ==
  ASSUME TypeOK, NEW w \in Workers, NEW t \in TaskId, TaskExecutionError(w, t)
  PROVE  TypeOK'
<1>1. Only(t) \in [TaskId -> Nat]
  BY OnlyType
<1>2. scheduled_job # NoJob /\ w \in DOMAIN workers_queue
  BY DEF TaskExecutionError, Connected
<1>3. CASE Panic
  BY <1>3, TypePanic
<1>4. CASE ~Panic
  <2>1. PICK wrong \in Lists :
          /\ need_schedule' = TRUE
          /\ workers_queue' = [workers_queue EXCEPT ![w].assignments =
                                  ReturnedAssignments(w, Only(t), wrong)]
          /\ IF Queued(t) /\ tasks_queue[t].failed = FailLimit
             THEN /\ tasks_queue' = ReturnedTasks(w, Only(t))
                  /\ scheduled_job' = JobTaken
                  /\ verdict' = "failed"
             ELSE /\ tasks_queue' = [u \in DOMAIN tasks_queue |->
                        [ReturnedTasks(w, Only(t))[u] EXCEPT !.failed = @ + Only(t)[u]]]
                  /\ scheduled_job' = [scheduled_job EXCEPT !.scheduled =
                                           ReturnedSchedule(w, Only(t))]
                  /\ UNCHANGED verdict
          /\ UNCHANGED <<status, nodes, results_buffer, links, delivered>>
    BY <1>4 DEF TaskExecutionError
  <2>2. wrong \in [TaskId -> Nat]
    BY ListType
  <2> DEFINE asg == ReturnedAssignments(w, Only(t), wrong)
             new == [workers_queue[w] EXCEPT !.assignments = asg]
  <2>3. asg \in [TaskId -> Nat] /\ ReturnedSchedule(w, Only(t)) \in Int
    BY <1>1, <1>2, <2>2, ReturnTypes
  <2>4. new \in Worker
    <3> HIDE DEF asg
    <3> QED BY <1>2, <2>3 DEF TypeOK, Worker
  <2>5. workers_queue' = [workers_queue EXCEPT ![w] = new]
    BY <2>1
  <2>6. /\ DOMAIN workers_queue' \subseteq Workers
        /\ \A v \in DOMAIN workers_queue' : workers_queue'[v] \in Worker
    <3> HIDE DEF new
    <3> QED BY <2>4, <2>5 DEF TypeOK
  <2>7. CASE Queued(t) /\ tasks_queue[t].failed = FailLimit
    <3>1. DOMAIN tasks_queue' \subseteq TaskId /\ \A u \in DOMAIN tasks_queue' : tasks_queue'[u] \in Task
      BY <1>1, <2>1, <2>7, ReturnedTasksTypes DEF TypeOK
    <3>2. scheduled_job' = NoJob /\ verdict' = "failed"
      BY <2>1, <2>7 DEF JobTaken
    <3>3. UNCHANGED <<status, nodes, results_buffer, links, delivered>> /\ need_schedule' = TRUE
      BY <2>1
    <3> QED BY <2>6, <3>1, <3>2, <3>3 DEF TypeOK, links
  <2>8. CASE ~(Queued(t) /\ tasks_queue[t].failed = FailLimit)
    <3>1. tasks_queue' = [u \in DOMAIN tasks_queue |->
                        [ReturnedTasks(w, Only(t))[u] EXCEPT !.failed = @ + Only(t)[u]]]
      BY <2>1, <2>8
    <3>2. DOMAIN tasks_queue' \subseteq TaskId /\ \A u \in DOMAIN tasks_queue' : tasks_queue'[u] \in Task
      BY <2>8, <3>1, TaskErrorTasks DEF TypeOK
    <3>3. scheduled_job' \in Job
      <4>1. scheduled_job' = [scheduled_job EXCEPT !.scheduled = ReturnedSchedule(w, Only(t))]
        BY <2>1, <2>8
      <4> QED BY <1>2, <2>3, <4>1 DEF TypeOK, Job
    <3>4. UNCHANGED <<status, nodes, results_buffer, links, delivered, verdict>> /\ need_schedule' = TRUE
      BY <2>1, <2>8
    <3> QED BY <2>6, <3>2, <3>3, <3>4 DEF TypeOK, links
  <2> QED BY <2>7, <2>8
<1> QED BY <1>3, <1>4

LEMMA TypeBatch ==
  ASSUME TypeOK, NEW n \in 1 .. MaxTotal, TaskBatch(n)
  PROVE  TypeOK'
<1> DEFINE batch == scheduled_job.received + 1 .. scheduled_job.received + n
<1>1. scheduled_job \in Job /\ scheduled_job' \in Job /\ batch \subseteq TaskId
  <2>1. scheduled_job \in Job
    BY DEF TypeOK, TaskBatch
  <2>2. /\ scheduled_job' = [scheduled_job EXCEPT !.received = scheduled_job.received + n]
        /\ scheduled_job.received + n <= scheduled_job.total
    BY DEF TaskBatch
  <2>3. scheduled_job.total \in 1 .. MaxTotal /\ scheduled_job.received \in Nat /\ MaxTotal \in Nat
    BY <2>1, SchedulerAssumption DEF Job, TaskId
  <2>4. batch \subseteq TaskId
    BY <2>2, <2>3 DEF TaskId
  <2>5. scheduled_job.received + n \in Nat
    BY <2>3
  <2> HIDE DEF batch
  <2> QED BY <2>1, <2>2, <2>4, <2>5 DEF Job
<1>2. tasks_queue' = [t \in DOMAIN tasks_queue \cup batch |->
                        IF t \in batch THEN NewTask ELSE tasks_queue[t]]
  BY DEF TaskBatch
<1> HIDE DEF batch
<1> QED BY <1>1, <1>2, FreshTypes DEF TypeOK, TaskBatch, links, told

LEMMA TypeCreatedSession ==
  ASSUME TypeOK, CreatedSession
  PROVE  TypeOK'
<1>1. CASE scheduled_job = NoJob
  BY <1>1, FreshTypes DEF TypeOK, CreatedSession, told
<1>2. CASE scheduled_job # NoJob
  <2>1. scheduled_job' \in Job /\ demand' \in BOOLEAN
    BY <1>2 DEF TypeOK, CreatedSession, Job, DemandRepeated
  <2>2. ASSUME NEW t \in DOMAIN tasks_queue
        PROVE  tasks_queue'[t] \in Task
    <3>1. tasks_queue'[t] = [tasks_queue[t] EXCEPT !.assignments = None(Workers)]
      BY <1>2 DEF CreatedSession
    <3>2. None(Workers) \in [Workers -> Nat]
      BY DEF None
    <3> QED BY <3>1, <3>2 DEF TypeOK, Task
  <2>3. DOMAIN tasks_queue' = DOMAIN tasks_queue
    BY <1>2 DEF CreatedSession
  <2> QED BY <1>2, <2>1, <2>2, <2>3, FreshTypes DEF TypeOK, CreatedSession, told
<1> QED BY <1>1, <1>2

LEMMA TypeNext ==
  ASSUME TypeOK, [Next]_vars
  PROVE  TypeOK'
<1>1. CASE process_scheduling
  <2>1. ASSUME NEW w \in DOMAIN workers_queue, NEW picked \in Lists, AssignTasks(w, picked)
        PROVE  TypeOK'
    BY <1>1, <2>1, TypeAssign DEF process_scheduling
  <2>2. ASSUME NEW w \in DOMAIN workers_queue, CapacityOverflow(w) PROVE TypeOK'
    BY <2>2, TypePanic DEF CapacityOverflow
  <2>3. CASE NothingToAssign
    BY <2>3 DEF TypeOK, NothingToAssign, links, told
  <2> QED BY <1>1, <2>1, <2>2, <2>3 DEF process_scheduling
<1>2. ASSUME NEW w \in Workers, NEW n \in Subworkers, WorkerConnected(w, n) PROVE TypeOK'
  BY <1>2, TypeConnected
<1>3. ASSUME NEW w \in Workers, WorkerDisconnected(w) PROVE TypeOK'
  BY <1>3, TypeDisconnect DEF WorkerDisconnected
<1>4. ASSUME NEW w \in Workers, NEW t \in TaskId, WorkerResult(w, t) PROVE TypeOK'
  BY <1>4, TypeResult
<1>5. ASSUME NEW w \in Workers, NEW returned \in Lists, NEW old \in Lists,
             LibraryMissing(w, returned, old)
      PROVE  TypeOK'
  BY <1>5, TypeLibraryMissing
<1>6. ASSUME NEW w \in Workers, NEW returned \in Lists, NoFreeExecutors(w, returned)
      PROVE  TypeOK'
  BY <1>6, TypeNoFreeExecutors
<1>7. ASSUME NEW w \in Workers, NEW t \in TaskId, TaskExecutionError(w, t) PROVE TypeOK'
  BY <1>7, TypeTaskExecutionError
<1>8. CASE TaskManagerConnected
  BY <1>8 DEF TypeOK, TaskManagerConnected, queues, told
<1>9. ASSUME NEW total \in 1 .. MaxTotal, NewJob(total) PROVE TypeOK'
  <2>1. reset_scheduler /\ scheduled_job' \in Job /\ delivered' = None(TaskId)
    BY <1>9, SchedulerAssumption DEF NewJob, Job, TaskId
  <2>2. demand' \in BOOLEAN
    BY <1>9 DEF TypeOK, NewJob
  <2> QED BY <1>9, <2>1, <2>2, TypeReset, FreshTypes DEF TypeOK, NewJob
<1>10. ASSUME NEW n \in 1 .. MaxTotal, TaskBatch(n) PROVE TypeOK'
  BY <1>10, TypeBatch
<1>11. CASE TaskManagerDisconnect
  BY <1>11, TypeReset DEF TypeOK, TaskManagerDisconnect, told
<1>12. CASE RestoredSession
  BY <1>12 DEF TypeOK, RestoredSession, queues, told
<1>13. CASE CreatedSession
  BY <1>13, TypeCreatedSession
<1>14. CASE NodeManagerDisconnected
  BY <1>14 DEF TypeOK, NodeManagerDisconnected, queues, told
<1>15. CASE ConnectionNotEstablished
  BY <1>15 DEF TypeOK, ConnectionNotEstablished, queues, links, told
<1>16. CASE UNCHANGED vars
  BY <1>16 DEF TypeOK, vars, queues, links, told
<1> QED BY <1>1, <1>2, <1>3, <1>4, <1>5, <1>6, <1>7, <1>8, <1>9, <1>10, <1>11, <1>12, <1>13,
           <1>14, <1>15, <1>16 DEF Next

(* The state of the scheduler keeps its types: in particular no result     *)
(* count, failure count or list of the queues ever goes below zero,        *)
(* although handlers remove entries for answers they did not expect.       *)
THEOREM TypeCorrect == Spec => []TypeOK
<1>1. Init => TypeOK
  BY FreshTypes DEF Init, TypeOK
<1> QED BY <1>1, TypeNext, PTL DEF Spec

-----------------------------------------------------------------------------
(* No phantom assignments: each handler keeps the slots of the workers     *)
(* covered by the entries of the tasks.                                    *)

LEMMA PhantomAssign ==
  ASSUME TypeOK, NoPhantomAssignments, scheduled_job # NoJob,
         NEW w \in DOMAIN workers_queue, NEW picked \in Lists, AssignTasks(w, picked)
  PROVE  NoPhantomAssignments'
<1>1. picked \in [TaskId -> Nat] /\ w \in Workers
  BY ListType DEF TypeOK
<1>2. PICK replaced : workers_queue' = [workers_queue EXCEPT ![w] =
                                          Loaded(workers_queue[w], picked, replaced)]
  BY DEF AssignTasks
<1>3. DOMAIN tasks_queue' = DOMAIN tasks_queue /\ DOMAIN workers_queue' = DOMAIN workers_queue
  BY <1>2 DEF AssignTasks
<1>4. ASSUME NEW t \in DOMAIN tasks_queue
      PROVE  /\ tasks_queue'[t].assignments[w] = tasks_queue[t].assignments[w] + picked[t]
             /\ \A v \in Workers \ {w} :
                   tasks_queue'[t].assignments[v] = tasks_queue[t].assignments[v]
  <2> DEFINE n == tasks_queue[t].assignments[w] + picked[t]
  <2>1. tasks_queue[t] \in Task /\ n \in Nat
    BY <1>1 DEF TypeOK, Task
  <2>2. tasks_queue'[t] = [tasks_queue[t] EXCEPT !.assignments[w] = n]
    BY DEF AssignTasks
  <2> HIDE DEF n
  <2>3. /\ tasks_queue'[t].assignments[w] = n
        /\ \A v \in Workers \ {w} :
              tasks_queue'[t].assignments[v] = tasks_queue[t].assignments[v]
    BY <1>1, <2>1, <2>2 DEF Task
  <2> QED BY <2>3 DEF n
<1>5. \A t \in TaskId :
        workers_queue'[w].assignments[t] = workers_queue[w].assignments[t] + picked[t]
  <2>1. workers_queue'[w] = Loaded(workers_queue[w], picked, replaced)
    BY <1>2
  <2> QED BY <2>1 DEF Loaded, TypeOK, Worker
<1>6. \A v \in DOMAIN workers_queue \ {w} : workers_queue'[v] = workers_queue[v]
  BY <1>2
<1>7. ASSUME NEW t \in TaskId, ~Queued(t) PROVE picked[t] = 0
  BY <1>1, <1>7 DEF AssignTasks, PicksAllowed
<1>8. ASSUME NEW v \in DOMAIN workers_queue, NEW t \in TaskId
      PROVE  workers_queue'[v].assignments[t] <=
                IF t \in DOMAIN tasks_queue THEN tasks_queue'[t].assignments[v] ELSE 0
  <2>1. workers_queue[v].assignments[t] <=
           IF t \in DOMAIN tasks_queue THEN tasks_queue[t].assignments[v] ELSE 0
    BY DEF NoPhantomAssignments, Queued
  <2>2. workers_queue[v].assignments[t] \in Nat /\ picked[t] \in Nat /\ v \in Workers
    BY <1>1 DEF TypeOK, Worker
  <2>3. t \in DOMAIN tasks_queue => tasks_queue[t].assignments[v] \in Nat
    BY <2>2 DEF TypeOK, Task
  <2>4. CASE v = w
    BY <1>4, <1>5, <1>7, <2>1, <2>2, <2>3, <2>4 DEF Queued
  <2>5. CASE v # w
    BY <1>4, <1>6, <2>1, <2>2, <2>5
  <2> QED BY <2>4, <2>5
<1> QED BY <1>3, <1>8 DEF NoPhantomAssignments, Queued

(* A worker entry that shrinks no slower than the column of the tasks. *)
LEMMA PhantomColumn ==
  ASSUME TypeOK, NoPhantomAssignments, NEW w \in DOMAIN workers_queue,
         NEW returned \in [TaskId -> Nat], NEW wrong \in [TaskId -> Nat],
         DOMAIN workers_queue' = DOMAIN workers_queue,
         \A v \in DOMAIN workers_queue \ {w} : workers_queue'[v] = workers_queue[v],
         workers_queue'[w].assignments = ReturnedAssignments(w, returned, wrong),
         DOMAIN tasks_queue' = DOMAIN tasks_queue,
         \A t \in DOMAIN tasks_queue :
             tasks_queue'[t].assignments = ReturnedTasks(w, returned)[t].assignments
  PROVE  NoPhantomAssignments'
<1>1. ASSUME NEW v \in DOMAIN workers_queue, NEW t \in TaskId
      PROVE  workers_queue'[v].assignments[t] <=
                IF t \in DOMAIN tasks_queue THEN tasks_queue'[t].assignments[v] ELSE 0
  <2>1. workers_queue[v].assignments[t] <=
           IF t \in DOMAIN tasks_queue THEN tasks_queue[t].assignments[v] ELSE 0
    BY DEF NoPhantomAssignments, Queued
  <2>2. /\ workers_queue[v].assignments[t] \in Nat
        /\ returned[t] \in Nat /\ wrong[t] \in Nat
        /\ v \in Workers /\ w \in Workers
    BY DEF TypeOK, Worker
  <2>3. t \in DOMAIN tasks_queue =>
           /\ tasks_queue[t].assignments[v] \in Nat
           /\ tasks_queue'[t].assignments[v] =
                 IF v = w THEN Monus(tasks_queue[t].assignments[w], returned[t])
                 ELSE tasks_queue[t].assignments[v]
    <3>1. t \in DOMAIN tasks_queue => tasks_queue[t].assignments[v] \in Nat
      BY <2>2 DEF TypeOK, Task
    <3> QED BY <2>2, <3>1, ReturnedTasksTypes
  <2>4. CASE v # w
    BY <2>1, <2>2, <2>3, <2>4
  <2>5. CASE v = w
    <3>1. workers_queue'[w].assignments[t] =
            Monus(workers_queue[w].assignments[t],
                  (IF t \in DOMAIN tasks_queue THEN returned[t] ELSE 0) + wrong[t])
      BY DEF ReturnedAssignments, Taken, Queued
    <3> QED BY <2>1, <2>2, <2>3, <2>5, <3>1 DEF Monus
  <2> QED BY <2>4, <2>5
<1> QED BY <1>1 DEF NoPhantomAssignments, Queued

LEMMA PhantomPanic ==
  ASSUME NoPhantomAssignments, Panic
  PROVE  NoPhantomAssignments'
  BY DEF NoPhantomAssignments, Panic, queues, Queued

LEMMA PhantomEmpty ==
  ASSUME DOMAIN workers_queue' = {}
  PROVE  NoPhantomAssignments'
  BY DEF NoPhantomAssignments

LEMMA PhantomConnected ==
  ASSUME TypeOK, NoPhantomAssignments, NEW w \in Workers, NEW n \in Subworkers,
         WorkerConnected(w, n)
  PROVE  NoPhantomAssignments'
<1>1. ASSUME NEW v \in DOMAIN workers_queue', NEW t \in TaskId
      PROVE  workers_queue'[v].assignments[t] <=
                IF t \in DOMAIN tasks_queue THEN tasks_queue[t].assignments[v] ELSE 0
  <2>1. CASE v = w
    <3>1. workers_queue'[v] = NewWorker(n)
      BY <2>1 DEF WorkerConnected
    <3>2. workers_queue'[v].assignments[t] = 0
      BY <3>1 DEF NewWorker, None
    <3>3. t \in DOMAIN tasks_queue => tasks_queue[t].assignments[v] \in Nat
      BY <2>1 DEF TypeOK, Task
    <3> QED BY <3>2, <3>3
  <2>2. CASE v # w
    <3>1. v \in DOMAIN workers_queue /\ workers_queue'[v] = workers_queue[v]
      BY <2>2 DEF WorkerConnected
    <3> QED BY <3>1 DEF NoPhantomAssignments, Queued
  <2> QED BY <2>1, <2>2
<1> QED BY <1>1 DEF NoPhantomAssignments, Queued, WorkerConnected

LEMMA PhantomDisconnect ==
  ASSUME TypeOK, NoPhantomAssignments, NEW w \in Workers, process_worker_disconnect(w)
  PROVE  NoPhantomAssignments'
<1>1. CASE ~Connected(w)
  BY <1>1 DEF NoPhantomAssignments, process_worker_disconnect, Queued
<1>2. CASE Connected(w)
  <2>1. DOMAIN workers_queue' = DOMAIN workers_queue \ {w}
        /\ \A v \in DOMAIN workers_queue' : workers_queue'[v] = workers_queue[v]
    BY <1>2 DEF process_worker_disconnect, Restrict
  <2>2. DOMAIN tasks_queue' = DOMAIN tasks_queue
        /\ \A t \in DOMAIN tasks_queue, v \in Workers \ {w} :
              tasks_queue'[t].assignments[v] = tasks_queue[t].assignments[v]
    <3>1. CASE scheduled_job = NoJob
      BY <1>2, <3>1 DEF process_worker_disconnect
    <3>2. CASE scheduled_job # NoJob
      <4> DEFINE l == [t \in TaskId |-> workers_queue[w].assignments[t]]
      <4>1. l \in [TaskId -> Nat]
        BY <1>2 DEF TypeOK, Worker, Connected
      <4>2. tasks_queue' = ReturnedTasks(w, l)
        BY <1>2, <3>2 DEF process_worker_disconnect, TypeOK, ReturnedTasks
      <4> HIDE DEF l
      <4>3. /\ DOMAIN tasks_queue' = DOMAIN tasks_queue
            /\ \A t \in DOMAIN tasks_queue : \A v \in Workers \ {w} :
                  tasks_queue'[t].assignments[v] = tasks_queue[t].assignments[v]
        BY <4>1, <4>2, ReturnedTasksTypes
      <4> QED BY <4>3
    <3> QED BY <3>1, <3>2
  <2> QED BY <2>1, <2>2 DEF NoPhantomAssignments, Queued, TypeOK
<1> QED BY <1>1, <1>2

LEMMA PhantomResult ==
  ASSUME TypeOK, NoPhantomAssignments, NEW w \in Workers, NEW t \in TaskId,
         WorkerResult(w, t)
  PROVE  NoPhantomAssignments'
<1>1. CASE ResultOfQueued(w, t) /\ AllDone(scheduled_job.completed + 1)
  BY <1>1, TypeReset, PhantomEmpty DEF ResultOfQueued
<1>2. CASE ResultOfQueued(w, t) /\ ~AllDone(scheduled_job.completed + 1)
  <2>1. /\ t \in DOMAIN tasks_queue
        /\ tasks_queue' = Restrict(tasks_queue, DOMAIN tasks_queue \ {t})
        /\ workers_queue' = AfterResult(w, t)
    BY <1>2 DEF ResultOfQueued, Queued
  <2>2. DOMAIN workers_queue' = DOMAIN workers_queue
    BY <2>1 DEF AfterResult
  <2>3. /\ DOMAIN tasks_queue' = DOMAIN tasks_queue \ {t}
        /\ \A u \in DOMAIN tasks_queue' : tasks_queue'[u] = tasks_queue[u]
    BY <2>1 DEF Restrict
  <2>4. ASSUME NEW v \in DOMAIN workers_queue, NEW u \in TaskId
        PROVE  workers_queue'[v].assignments[u] <=
                  IF u \in DOMAIN tasks_queue' THEN tasks_queue'[u].assignments[v] ELSE 0
    <3>1. workers_queue[v].assignments[u] <=
             IF u \in DOMAIN tasks_queue THEN tasks_queue[u].assignments[v] ELSE 0
      BY DEF NoPhantomAssignments, Queued
    <3>2. CASE u # t
      <4>1. workers_queue'[v].assignments[u] = workers_queue[v].assignments[u]
        BY <2>1, <3>2, AfterResultWorker
      <4>2. u \in DOMAIN tasks_queue' <=> u \in DOMAIN tasks_queue
        BY <2>3, <3>2
      <4> QED BY <2>3, <3>1, <4>1, <4>2
    <3>3. CASE u = t
      <4> DEFINE freed == FreedCopies(w, t, v)
                 a == workers_queue[v].assignments[t]
      <4>1. /\ freed \in Nat /\ freed >= tasks_queue[t].assignments[v]
            /\ workers_queue'[v].assignments[t] = Monus(a, freed)
        BY <2>1, AfterResultWorker
      <4>2. a \in Nat /\ tasks_queue[t].assignments[v] \in Nat
        BY <2>1 DEF TypeOK, Worker, Task
      <4>3. a <= tasks_queue[t].assignments[v]
        BY <2>1, <3>1, <3>3
      <4> HIDE DEF a, freed
      <4>4. Monus(a, freed) = 0
        BY <4>1, <4>2, <4>3 DEF Monus
      <4> QED BY <2>3, <3>3, <4>1, <4>4
    <3> QED BY <3>2, <3>3
  <2> QED BY <2>2, <2>4 DEF NoPhantomAssignments, Queued
<1>3. CASE ResultOfUnqueued(w, t)
  <2>1. CASE Panic
    BY <2>1, PhantomPanic
  <2>2. CASE UNCHANGED <<workers_queue, tasks_queue>>
    BY <2>2 DEF NoPhantomAssignments, Queued
  <2>3. ASSUME NEW u \in TaskId, workers_queue[w].assignments[u] > 0, Connected(w),
               workers_queue' = [workers_queue EXCEPT ![w].assignments[u] = @ - 1],
               UNCHANGED tasks_queue
        PROVE  NoPhantomAssignments'
    <3> DEFINE n == workers_queue[w].assignments[u] - 1
               new == [workers_queue[w] EXCEPT !.assignments[u] = n]
    <3>1. /\ workers_queue[w] \in Worker /\ n \in Nat
          /\ n <= workers_queue[w].assignments[u]
      BY <2>3 DEF TypeOK, Connected, Worker
    <3>2. /\ new.assignments[u] = n
          /\ \A s \in TaskId \ {u} : new.assignments[s] = workers_queue[w].assignments[s]
      <4> HIDE DEF n
      <4> QED BY <3>1 DEF Worker
    <3>3. workers_queue' = [workers_queue EXCEPT ![w] = new]
      BY <2>3
    <3> HIDE DEF new, n
    <3>4. ASSUME NEW v \in DOMAIN workers_queue, NEW s \in TaskId
          PROVE  /\ workers_queue'[v].assignments[s] \in Int
                 /\ workers_queue[v].assignments[s] \in Int
                 /\ workers_queue'[v].assignments[s] <= workers_queue[v].assignments[s]
      BY <3>1, <3>2, <3>3 DEF TypeOK, Worker
    <3>5. ASSUME NEW v \in DOMAIN workers_queue, NEW s \in TaskId
          PROVE  workers_queue'[v].assignments[s] <=
                    IF s \in DOMAIN tasks_queue THEN tasks_queue[s].assignments[v] ELSE 0
      <4>1. workers_queue[v].assignments[s] <=
               IF s \in DOMAIN tasks_queue THEN tasks_queue[s].assignments[v] ELSE 0
        BY DEF NoPhantomAssignments, Queued
      <4>2. s \in DOMAIN tasks_queue => tasks_queue[s].assignments[v] \in Int
        BY DEF TypeOK, Task
      <4> QED BY <3>4, <4>1, <4>2
    <3>6. DOMAIN workers_queue' = DOMAIN workers_queue
      BY <3>3
    <3> QED BY <2>3, <3>5, <3>6 DEF NoPhantomAssignments, Queued
  <2> QED BY <1>3, <2>1, <2>2, <2>3 DEF ResultOfUnqueued
<1> QED BY <1>1, <1>2, <1>3 DEF WorkerResult

LEMMA PhantomLibraryMissing ==
  ASSUME TypeOK, NoPhantomAssignments, NEW w \in Workers, NEW returned \in Lists,
         NEW old \in Lists, LibraryMissing(w, returned, old)
  PROVE  NoPhantomAssignments'
<1>1. returned \in [TaskId -> Nat] /\ w \in DOMAIN workers_queue
  BY ListType DEF LibraryMissing, Connected
<1>2. CASE Panic
  BY <1>2, PhantomPanic
<1>3. CASE ~Panic
  <2>1. PICK wrong \in Lists :
          /\ tasks_queue' = ReturnedTasks(w, returned)
          /\ workers_queue' = [workers_queue EXCEPT ![w] =
                [workers_queue[w] EXCEPT
                   !.has_job_data = FALSE,
                   !.assignments = ReturnedAssignments(w, returned, wrong),
                   !.replacements = [t \in TaskId |->
                                        workers_queue[w].replacements[t] + old[t]]]]
    BY <1>3 DEF LibraryMissing
  <2>2. wrong \in [TaskId -> Nat]
    BY ListType
  <2>3. /\ DOMAIN workers_queue' = DOMAIN workers_queue
        /\ \A v \in DOMAIN workers_queue \ {w} : workers_queue'[v] = workers_queue[v]
        /\ workers_queue'[w].assignments = ReturnedAssignments(w, returned, wrong)
    BY <1>1, <2>1 DEF TypeOK, Worker
  <2>4. DOMAIN tasks_queue' = DOMAIN tasks_queue
    BY <1>1, <2>1, ReturnedTasksTypes
  <2> QED BY <1>1, <2>1, <2>2, <2>3, <2>4, PhantomColumn
<1> QED BY <1>2, <1>3

LEMMA PhantomNoFreeExecutors ==
  ASSUME TypeOK, NoPhantomAssignments, NEW w \in Workers, NEW returned \in Lists,
         NoFreeExecutors(w, returned)
  PROVE  NoPhantomAssignments'
<1>1. returned \in [TaskId -> Nat] /\ w \in DOMAIN workers_queue
  BY ListType DEF NoFreeExecutors, Connected
<1>2. CASE Panic
  BY <1>2, PhantomPanic
<1>3. CASE ~Panic
  <2> DEFINE sub == IF workers_queue[w].subworkers # 0
                    THEN workers_queue[w].subworkers - Size(returned)
                    ELSE workers_queue[w].subworkers
  <2>1. PICK wrong \in Lists :
          /\ tasks_queue' = ReturnedTasks(w, returned)
          /\ workers_queue' = [workers_queue EXCEPT ![w] =
                [workers_queue[w] EXCEPT
                   !.subworkers = sub,
                   !.assignments = ReturnedAssignments(w, returned, wrong)]]
    BY <1>3 DEF NoFreeExecutors
  <2> HIDE DEF sub
  <2>2. wrong \in [TaskId -> Nat]
    BY ListType
  <2>3. /\ DOMAIN workers_queue' = DOMAIN workers_queue
        /\ \A v \in DOMAIN workers_queue \ {w} : workers_queue'[v] = workers_queue[v]
        /\ workers_queue'[w].assignments = ReturnedAssignments(w, returned, wrong)
    BY <1>1, <2>1 DEF TypeOK, Worker
  <2>4. DOMAIN tasks_queue' = DOMAIN tasks_queue
    BY <1>1, <2>1, ReturnedTasksTypes
  <2> QED BY <1>1, <2>1, <2>2, <2>3, <2>4, PhantomColumn
<1> QED BY <1>2, <1>3

(* What a failed execution does to the queues, whether it ends the job or not. *)
LEMMA TaskErrorQueues ==
  ASSUME TypeOK, NEW w \in Workers, NEW t \in TaskId, TaskExecutionError(w, t), ~Panic
  PROVE  /\ DOMAIN tasks_queue' = DOMAIN tasks_queue
         /\ \A u \in DOMAIN tasks_queue :
               tasks_queue'[u].assignments = ReturnedTasks(w, Only(t))[u].assignments
<1>1. CASE Queued(t) /\ tasks_queue[t].failed = FailLimit
  <2>1. tasks_queue' = ReturnedTasks(w, Only(t))
    BY <1>1 DEF TaskExecutionError
  <2> QED BY <2>1, OnlyType, ReturnedTasksTypes
<1>2. CASE ~(Queued(t) /\ tasks_queue[t].failed = FailLimit)
  <2>1. tasks_queue' = [u \in DOMAIN tasks_queue |->
                  [ReturnedTasks(w, Only(t))[u] EXCEPT !.failed = @ + Only(t)[u]]]
    BY <1>2 DEF TaskExecutionError
  <2> QED BY <1>2, <2>1, TaskErrorTasks
<1> QED BY <1>1, <1>2

LEMMA PhantomTaskExecutionError ==
  ASSUME TypeOK, NoPhantomAssignments, NEW w \in Workers, NEW t \in TaskId,
         TaskExecutionError(w, t)
  PROVE  NoPhantomAssignments'
<1>1. Only(t) \in [TaskId -> Nat] /\ w \in DOMAIN workers_queue
  BY OnlyType DEF TaskExecutionError, Connected
<1>2. CASE Panic
  BY <1>2, PhantomPanic
<1>3. CASE ~Panic
  <2>1. PICK wrong \in Lists :
          workers_queue' = [workers_queue EXCEPT ![w].assignments =
                               ReturnedAssignments(w, Only(t), wrong)]
    BY <1>3 DEF TaskExecutionError
  <2>2. wrong \in [TaskId -> Nat]
    BY ListType
  <2>3. /\ DOMAIN workers_queue' = DOMAIN workers_queue
        /\ \A v \in DOMAIN workers_queue \ {w} : workers_queue'[v] = workers_queue[v]
        /\ workers_queue'[w].assignments = ReturnedAssignments(w, Only(t), wrong)
    BY <1>1, <2>1 DEF TypeOK, Worker
  <2> QED BY <1>1, <1>3, <2>2, <2>3, TaskErrorQueues, PhantomColumn
<1> QED BY <1>2, <1>3

(* Fresh tasks were not queued, so no worker was charged for them. *)
LEMMA PhantomBatch ==
  ASSUME TypeOK, NoPhantomAssignments, EachTaskOnce, NEW n \in 1 .. MaxTotal, TaskBatch(n)
  PROVE  NoPhantomAssignments'
<1> DEFINE batch == scheduled_job.received + 1 .. scheduled_job.received + n
<1>1. /\ workers_queue' = workers_queue
      /\ tasks_queue' = [t \in DOMAIN tasks_queue \cup batch |->
                           IF t \in batch THEN NewTask ELSE tasks_queue[t]]
  BY DEF TaskBatch
<1>2. scheduled_job \in Job /\ scheduled_job # NoJob
  BY DEF TypeOK, TaskBatch
<1>3. ASSUME NEW t \in batch, t \in TaskId PROVE t \notin DOMAIN tasks_queue
  <2>1. ~(t <= scheduled_job.received)
    BY <1>2 DEF Job
  <2>2. delivered[t] + results_buffer[t] + (IF Queued(t) THEN 1 ELSE 0) = 0
    BY <1>2, <1>3, <2>1 DEF EachTaskOnce
  <2>3. delivered[t] \in Nat /\ results_buffer[t] \in Nat
    BY <1>3 DEF TypeOK
  <2> QED BY <2>2, <2>3 DEF Queued
<1> HIDE DEF batch
<1>4. ASSUME NEW v \in DOMAIN workers_queue, NEW t \in TaskId
      PROVE  workers_queue[v].assignments[t] <=
                IF t \in DOMAIN tasks_queue' THEN tasks_queue'[t].assignments[v] ELSE 0
  <2>1. workers_queue[v].assignments[t] <=
           IF t \in DOMAIN tasks_queue THEN tasks_queue[t].assignments[v] ELSE 0
    BY DEF NoPhantomAssignments, Queued
  <2>2. NewTask.assignments[v] = 0
    BY DEF NewTask, None, TypeOK
  <2>3. CASE t \in batch
    BY <1>1, <1>3, <2>1, <2>2, <2>3
  <2>4. CASE t \notin batch
    BY <1>1, <2>1, <2>4
  <2> QED BY <2>3, <2>4
<1> QED BY <1>1, <1>4 DEF NoPhantomAssignments, Queued

-----------------------------------------------------------------------------
(* The books: where each task of the job is, and how many are done.        *)

Books == EachTaskOnce /\ CompleteMeansAll /\ Accounting /\ FailedMeansNoJob

SameCounts ==
    /\ scheduled_job # NoJob
    /\ scheduled_job'.total = scheduled_job.total
    /\ scheduled_job'.received = scheduled_job.received
    /\ scheduled_job'.completed = scheduled_job.completed

(* Most handlers only move work between workers: they keep the queued ids, *)
(* the results and the counts of a job that goes on.                       *)
LEMMA BooksKept ==
  ASSUME Books,
         \/ scheduled_job' = NoJob
         \/ /\ DOMAIN tasks_queue' = DOMAIN tasks_queue
            /\ UNCHANGED <<delivered, results_buffer, verdict>>
            /\ UNCHANGED scheduled_job \/ SameCounts
  PROVE  Books'
<1>1. CASE scheduled_job' = NoJob
  BY <1>1 DEF Books, EachTaskOnce, CompleteMeansAll, Accounting, FailedMeansNoJob
<1>2. CASE scheduled_job' # NoJob
  BY <1>2 DEF Books, EachTaskOnce, CompleteMeansAll, Accounting, FailedMeansNoJob, SameCounts, Queued
<1> QED BY <1>1, <1>2

(* The job's record after an update of `scheduled` alone. *)
LEMMA ScheduledOnly ==
  ASSUME TypeOK, scheduled_job # NoJob, NEW x,
         scheduled_job' = [scheduled_job EXCEPT !.scheduled = x]
  PROVE  SameCounts
  BY DEF SameCounts, TypeOK, Job

LEMMA BooksResult ==
  ASSUME TypeOK, Books, scheduled_job # NoJob, NEW w \in Workers, NEW t \in TaskId,
         ResultOfQueued(w, t)
  PROVE  Books' /\ verdict = "none"
<1> DEFINE job == scheduled_job
           completed == job.completed + 1
<1>1. job \in Job /\ t \in DOMAIN tasks_queue
  BY DEF TypeOK, ResultOfQueued, Queued
<1>2. /\ scheduled_job'.total = job.total
      /\ scheduled_job'.received = job.received
      /\ scheduled_job'.completed = completed
  BY <1>1 DEF ResultOfQueued, Job
<1>3. job.total \in Nat /\ job.received \in Nat /\ job.completed \in Nat
  BY <1>1, SchedulerAssumption DEF Job, TaskId
<1>4. verdict = "none"
  <2>1. verdict # "complete" /\ verdict # "failed"
    BY <1>1 DEF Books, CompleteMeansAll, FailedMeansNoJob
  <2> QED BY <2>1 DEF TypeOK
<1>5. \A u \in TaskId : /\ delivered[u] \in Nat /\ results_buffer[u] \in Nat
                        /\ Sent[u] + Buffered(t)[u] =
                             delivered[u] + results_buffer[u] + (IF u = t THEN 1 ELSE 0)
  BY DEF TypeOK, Sent, Buffered
<1>6. \A u \in TaskId : delivered[u] + results_buffer[u] + (IF u \in DOMAIN tasks_queue THEN 1 ELSE 0)
                          = IF u <= job.received THEN 1 ELSE 0
  BY DEF Books, EachTaskOnce, Queued
<1>7. IsFiniteSet(DOMAIN tasks_queue)
  BY TaskIdFinite, FS_Subset DEF TypeOK
<1>8. /\ Cardinality(DOMAIN tasks_queue \ {t}) = Cardinality(DOMAIN tasks_queue) - 1
      /\ IsFiniteSet(DOMAIN tasks_queue \ {t})
      /\ Cardinality(DOMAIN tasks_queue) \in Nat
  BY <1>1, <1>7, FS_RemoveElement, FS_CardinalityType
<1>9. /\ job.received <= job.total
      /\ completed + Cardinality(DOMAIN tasks_queue \ {t}) = job.received
  BY <1>3, <1>8 DEF Books, Accounting
<1>10. CASE AllDone(completed)
  <2>1. /\ reset_scheduler
        /\ delivered' = [u \in TaskId |-> Sent[u] + Buffered(t)[u]]
        /\ verdict' = "complete"
    BY <1>10 DEF ResultOfQueued
  <2>2. /\ DOMAIN tasks_queue' = {}
        /\ results_buffer' = None(TaskId)
    BY <2>1, TypeReset
  <2>3. completed = job.total
    BY <1>10 DEF AllDone
  <2>4. DOMAIN tasks_queue \ {t} = {} /\ job.received = job.total
    <3>1. Cardinality(DOMAIN tasks_queue \ {t}) \in Nat
      BY <1>8, FS_CardinalityType
    <3>2. Cardinality(DOMAIN tasks_queue \ {t}) = 0 /\ job.received = job.total
      BY <1>3, <1>9, <2>3, <3>1
    <3> QED BY <1>8, <3>2, FS_EmptySet
  <2>5. ASSUME NEW u \in TaskId
        PROVE  /\ delivered'[u] = IF u <= job.received THEN 1 ELSE 0
               /\ results_buffer'[u] = 0
    <3>1. u \in DOMAIN tasks_queue <=> u = t
      BY <1>1, <2>4
    <3>2. delivered'[u] = Sent[u] + Buffered(t)[u]
      BY <2>1
    <3> QED BY <1>5, <1>6, <2>2, <3>1, <3>2 DEF None
  <2>6. EachTaskOnce'
    BY <1>2, <2>2, <2>5 DEF EachTaskOnce, Queued
  <2>7. CompleteMeansAll'
    <3>1. \A u \in 1 .. job.total : u \in TaskId /\ u <= job.received
      BY <1>1, <1>3, <2>4, SchedulerAssumption DEF Job, TaskId
    <3> QED BY <1>2, <2>2, <2>5, <3>1 DEF CompleteMeansAll
  <2>8. Accounting'
    <3>1. Cardinality(DOMAIN tasks_queue') = 0
      BY <2>2, FS_EmptySet
    <3> QED BY <1>2, <1>3, <2>3, <2>4, <3>1 DEF Accounting
  <2> QED BY <1>4, <2>1, <2>6, <2>7, <2>8 DEF Books, FailedMeansNoJob
<1>11. CASE ~AllDone(completed)
  <2>1. /\ delivered' = Sent
        /\ results_buffer' = Buffered(t)
        /\ tasks_queue' = Restrict(tasks_queue, DOMAIN tasks_queue \ {t})
        /\ verdict' = verdict
    BY <1>11 DEF ResultOfQueued
  <2>2. DOMAIN tasks_queue' = DOMAIN tasks_queue \ {t}
    BY <2>1 DEF Restrict
  <2>3. EachTaskOnce'
    <3>1. ASSUME NEW u \in TaskId
          PROVE  delivered'[u] + results_buffer'[u] + (IF u \in DOMAIN tasks_queue' THEN 1 ELSE 0)
                   = IF u <= job.received THEN 1 ELSE 0
      <4>1. u # t => (u \in DOMAIN tasks_queue' <=> u \in DOMAIN tasks_queue)
        BY <2>2
      <4>2. t \in DOMAIN tasks_queue /\ t \notin DOMAIN tasks_queue'
        BY <1>1, <2>2
      <4>3. delivered'[u] + results_buffer'[u] =
              delivered[u] + results_buffer[u] + (IF u = t THEN 1 ELSE 0)
        BY <1>5, <2>1
      <4> QED BY <1>5, <1>6, <4>1, <4>2, <4>3
    <3> QED BY <1>2, <3>1 DEF EachTaskOnce, Queued
  <2>4. Accounting'
    BY <1>2, <1>9, <2>2 DEF Accounting
  <2> QED BY <1>4, <2>1, <2>3, <2>4 DEF Books, CompleteMeansAll, FailedMeansNoJob
<1> QED BY <1>4, <1>10, <1>11

LEMMA BooksBatch ==
  ASSUME TypeOK, Books, NEW n \in 1 .. MaxTotal, TaskBatch(n)
  PROVE  Books'
<1> DEFINE job == scheduled_job
           batch == job.received + 1 .. job.received + n
<1>1. job \in Job /\ job # NoJob
  BY DEF TypeOK, TaskBatch
<1>2. job.total \in 1 .. MaxTotal /\ MaxTotal \in Nat /\ job.received \in Nat /\ job.completed \in Nat
  BY <1>1, SchedulerAssumption DEF Job, TaskId
<1>3. /\ scheduled_job'.total = job.total
      /\ scheduled_job'.received = job.received + n
      /\ scheduled_job'.completed = job.completed
      /\ job.received + n <= job.total
  BY <1>1 DEF TaskBatch, Job
<1>4. /\ DOMAIN tasks_queue' = DOMAIN tasks_queue \cup batch
      /\ UNCHANGED <<delivered, results_buffer, verdict>>
  BY DEF TaskBatch, told
<1>5. \A u \in TaskId :
        /\ delivered[u] \in Nat /\ results_buffer[u] \in Nat
        /\ delivered[u] + results_buffer[u] + (IF u \in DOMAIN tasks_queue THEN 1 ELSE 0)
             = IF u <= job.received THEN 1 ELSE 0
  BY <1>1 DEF Books, EachTaskOnce, Queued, TypeOK
<1>6. batch \subseteq TaskId
  BY <1>2, <1>3 DEF TaskId
<1>7. \A u \in TaskId : u \in DOMAIN tasks_queue => u <= job.received
  BY <1>5
<1>8. EachTaskOnce'
  <2>1. ASSUME NEW u \in TaskId
        PROVE  delivered[u] + results_buffer[u] + (IF u \in DOMAIN tasks_queue' THEN 1 ELSE 0)
                 = IF u <= job.received + n THEN 1 ELSE 0
    <3>1. u \in Nat
      BY DEF TaskId
    <3>2. u \in batch <=> ~(u <= job.received) /\ u <= job.received + n
      BY <1>2, <3>1
    <3>3. u \in DOMAIN tasks_queue' <=> u \in DOMAIN tasks_queue \/ u \in batch
      BY <1>4
    <3> HIDE DEF batch
    <3>4. CASE u <= job.received
      BY <1>2, <1>5, <3>1, <3>2, <3>3, <3>4
    <3>5. CASE ~(u <= job.received)
      BY <1>2, <1>5, <1>7, <3>1, <3>2, <3>3, <3>5
    <3> QED BY <3>4, <3>5
  <2> QED BY <1>3, <1>4, <2>1 DEF EachTaskOnce, Queued
<1>9. Accounting'
  <2>1. DOMAIN tasks_queue \subseteq TaskId
    BY DEF TypeOK
  <2>2. DOMAIN tasks_queue \cap batch = {}
    BY <1>2, <1>7, <2>1
  <2>3. IsFiniteSet(batch) /\ Cardinality(batch) = n
    <3> DEFINE a == job.received + 1
               b == job.received + n
    <3>1. a \in Int /\ b \in Int /\ n \in Nat /\ a <= b /\ b - a + 1 = n
      BY <1>2
    <3>2. batch = a .. b
      OBVIOUS
    <3> HIDE DEF a, b, batch
    <3>3. IsFiniteSet(a .. b) /\ Cardinality(a .. b) = IF a > b THEN 0 ELSE b - a + 1
      BY <3>1, FS_Interval
    <3> QED BY <3>1, <3>2, <3>3
  <2>4. IsFiniteSet(DOMAIN tasks_queue)
    BY <2>1, TaskIdFinite, FS_Subset
  <2> HIDE DEF batch
  <2>5. Cardinality(DOMAIN tasks_queue \cup batch) =
           Cardinality(DOMAIN tasks_queue) + Cardinality(batch) - Cardinality(DOMAIN tasks_queue \cap batch)
    BY <2>3, <2>4, FS_Union
  <2>6. Cardinality(DOMAIN tasks_queue \cap batch) = 0 /\ Cardinality(DOMAIN tasks_queue) \in Nat
    BY <2>2, <2>4, FS_EmptySet, FS_CardinalityType
  <2>7. job.completed + Cardinality(DOMAIN tasks_queue) = job.received
    BY <1>1 DEF Books, Accounting
  <2> QED BY <1>2, <1>3, <1>4, <2>3, <2>5, <2>6, <2>7 DEF Accounting
<1>10. verdict # "complete"
  <2>1. SUFFICES ASSUME verdict = "complete" PROVE FALSE
    OBVIOUS
  <2>2. job.total \in TaskId /\ job.total \in 1 .. job.total
    BY <1>2 DEF TaskId
  <2>3. delivered[job.total] = 1
    BY <1>1, <2>1, <2>2 DEF Books, CompleteMeansAll
  <2>4. job.total <= job.received
    BY <1>5, <2>2, <2>3
  <2> QED BY <1>2, <1>3, <2>4
<1>11. verdict # "failed"
  BY <1>1 DEF Books, FailedMeansNoJob
<1> QED BY <1>4, <1>8, <1>9, <1>10, <1>11 DEF Books, CompleteMeansAll, FailedMeansNoJob

LEMMA BooksNewJob ==
  ASSUME TypeOK, NEW total \in 1 .. MaxTotal, NewJob(total)
  PROVE  Books'
<1>1. /\ scheduled_job'.total = total
      /\ scheduled_job'.received = 0
      /\ scheduled_job'.completed = 0
      /\ delivered' = None(TaskId)
      /\ verdict' = "none"
      /\ reset_scheduler
  BY DEF NewJob
<1>2. DOMAIN tasks_queue' = {} /\ results_buffer' = None(TaskId)
  BY <1>1, TypeReset
<1>3. EachTaskOnce'
  <2>1. \A u \in TaskId : None(TaskId)[u] = 0 /\ ~(u <= 0)
    BY SchedulerAssumption DEF None, TaskId
  <2> QED BY <1>1, <1>2, <2>1 DEF EachTaskOnce, Queued
<1>4. Accounting'
  BY <1>1, <1>2, FS_EmptySet DEF Accounting
<1> QED BY <1>1, <1>3, <1>4 DEF Books, CompleteMeansAll, FailedMeansNoJob

LEMMA BooksReturn ==
  ASSUME TypeOK, Books, NEW w \in Workers,
         \/ \E returned, old \in Lists : LibraryMissing(w, returned, old)
         \/ \E returned \in Lists : NoFreeExecutors(w, returned)
         \/ \E t \in TaskId : TaskExecutionError(w, t)
  PROVE  Books'
<1>1. CASE Panic
  BY <1>1, BooksKept DEF Panic, queues, told
<1>2. ASSUME NEW returned \in Lists, NEW old \in Lists, LibraryMissing(w, returned, old), ~Panic
      PROVE  Books'
  <2>1. /\ scheduled_job # NoJob
        /\ scheduled_job' = [scheduled_job EXCEPT !.scheduled = ReturnedSchedule(w, returned)]
        /\ DOMAIN tasks_queue' = DOMAIN tasks_queue
        /\ UNCHANGED <<results_buffer, told>>
    BY <1>2 DEF LibraryMissing, ReturnedTasks
  <2> QED BY SMTT(30), <2>1, ScheduledOnly, BooksKept DEF told
<1>3. ASSUME NEW returned \in Lists, NoFreeExecutors(w, returned), ~Panic
      PROVE  Books'
  <2>1. /\ scheduled_job # NoJob
        /\ scheduled_job' = [scheduled_job EXCEPT !.scheduled = ReturnedSchedule(w, returned)]
        /\ DOMAIN tasks_queue' = DOMAIN tasks_queue
        /\ UNCHANGED <<results_buffer, told>>
    BY <1>3 DEF NoFreeExecutors, ReturnedTasks
  <2> QED BY SMTT(30), <2>1, ScheduledOnly, BooksKept DEF told
<1>4. ASSUME NEW t \in TaskId, TaskExecutionError(w, t), ~Panic
      PROVE  Books'
  <2>1. scheduled_job # NoJob /\ UNCHANGED <<results_buffer, delivered>>
    BY <1>4 DEF TaskExecutionError
  <2>2. DOMAIN tasks_queue' = DOMAIN tasks_queue
    BY <1>4, TaskErrorQueues
  <2>3. \/ scheduled_job' = NoJob
        \/ /\ scheduled_job' = [scheduled_job EXCEPT !.scheduled = ReturnedSchedule(w, Only(t))]
           /\ UNCHANGED verdict
    BY <1>4 DEF TaskExecutionError, JobTaken
  <2> QED BY <2>1, <2>2, <2>3, ScheduledOnly, BooksKept
<1> QED BY <1>1, <1>2, <1>3, <1>4

LEMMA BooksNext ==
  ASSUME TypeOK, Books, [Next]_vars
  PROVE  Books'
<1>1. CASE process_scheduling
  <2>1. ASSUME NEW w \in DOMAIN workers_queue, NEW picked \in Lists, AssignTasks(w, picked)
        PROVE  Books'
    <3>1. scheduled_job # NoJob
      BY <1>1 DEF process_scheduling
    <3>2. SameCounts
      <4> DEFINE x == scheduled_job.scheduled + Cardinality(IdlePicks(picked))
      <4>1. scheduled_job' = [scheduled_job EXCEPT !.scheduled = x]
        BY <2>1 DEF AssignTasks
      <4> HIDE DEF x
      <4> QED BY <3>1, <4>1, ScheduledOnly
    <3>3. DOMAIN tasks_queue' = DOMAIN tasks_queue /\ UNCHANGED <<results_buffer, told>>
      BY <2>1 DEF AssignTasks
    <3> QED BY <3>2, <3>3, BooksKept DEF told
  <2>2. ASSUME NEW w \in DOMAIN workers_queue, CapacityOverflow(w) PROVE Books'
    BY <2>2, BooksKept DEF CapacityOverflow, Panic, queues, told
  <2>3. CASE NothingToAssign
    BY <2>3, BooksKept DEF NothingToAssign, told
  <2> QED BY <1>1, <2>1, <2>2, <2>3 DEF process_scheduling
<1>2. ASSUME NEW w \in Workers, NEW n \in Subworkers, WorkerConnected(w, n) PROVE Books'
  BY <1>2, BooksKept DEF WorkerConnected, told
<1>3. ASSUME NEW w \in Workers, WorkerDisconnected(w) PROVE Books'
  <2>1. process_worker_disconnect(w)
    BY <1>3 DEF WorkerDisconnected
  <2>2. DOMAIN tasks_queue' = DOMAIN tasks_queue /\ UNCHANGED <<results_buffer, told>>
    BY <2>1 DEF process_worker_disconnect
  <2>3. UNCHANGED scheduled_job \/ SameCounts
    <3> DEFINE x == scheduled_job.scheduled - Size([t \in DOMAIN tasks_queue |-> FreedBy(w, t)])
    <3>1. \/ UNCHANGED scheduled_job
          \/ scheduled_job # NoJob /\ scheduled_job' = [scheduled_job EXCEPT !.scheduled = x]
      BY <2>1 DEF process_worker_disconnect
    <3> HIDE DEF x
    <3> QED BY <3>1, ScheduledOnly
  <2> QED BY <2>2, <2>3, BooksKept DEF told
<1>4. ASSUME NEW w \in Workers, NEW t \in TaskId, WorkerResult(w, t) PROVE Books'
  <2>1. CASE ResultOfQueued(w, t)
    BY <1>4, <2>1, BooksResult DEF WorkerResult
  <2>2. CASE ResultOfUnqueued(w, t)
    BY <2>2, BooksKept DEF ResultOfUnqueued, Panic, queues, told
  <2> QED BY <1>4, <2>1, <2>2 DEF WorkerResult
<1>5. ASSUME NEW w \in Workers,
             \/ \E returned, old \in Lists : LibraryMissing(w, returned, old)
             \/ \E returned \in Lists : NoFreeExecutors(w, returned)
             \/ \E t \in TaskId : TaskExecutionError(w, t)
      PROVE  Books'
  BY <1>5, BooksReturn
<1>6. CASE TaskManagerConnected \/ RestoredSession \/ NodeManagerDisconnected
           \/ ConnectionNotEstablished
  BY <1>6, BooksKept DEF TaskManagerConnected, RestoredSession, NodeManagerDisconnected,
                         ConnectionNotEstablished, queues, told
<1>7. ASSUME NEW total \in 1 .. MaxTotal, NewJob(total) PROVE Books'
  BY <1>7, BooksNewJob
<1>8. ASSUME NEW n \in 1 .. MaxTotal, TaskBatch(n) PROVE Books'
  BY <1>8, BooksBatch
<1>9. CASE TaskManagerDisconnect
  BY <1>9, BooksKept DEF TaskManagerDisconnect
<1>10. CASE CreatedSession
  <2>1. DOMAIN tasks_queue' = DOMAIN tasks_queue /\ UNCHANGED <<results_buffer, told>>
    BY <1>10 DEF CreatedSession
  <2>2. UNCHANGED scheduled_job \/ SameCounts
    BY <1>10, ScheduledOnly DEF CreatedSession
  <2> QED BY <2>1, <2>2, BooksKept DEF told
<1>11. CASE UNCHANGED vars
  BY <1>11, BooksKept DEF vars, queues, told
<1> QED BY <1>1, <1>2, <1>3, <1>4, <1>5, <1>6, <1>7, <1>8, <1>9, <1>10, <1>11 DEF Next

LEMMA PhantomNext ==
  ASSUME TypeOK, NoPhantomAssignments, EachTaskOnce, [Next]_vars
  PROVE  NoPhantomAssignments'
<1>1. CASE process_scheduling
  <2>1. ASSUME NEW w \in DOMAIN workers_queue, NEW picked \in Lists, AssignTasks(w, picked)
        PROVE  NoPhantomAssignments'
    BY <1>1, <2>1, PhantomAssign DEF process_scheduling
  <2>2. ASSUME NEW w \in DOMAIN workers_queue, CapacityOverflow(w) PROVE NoPhantomAssignments'
    BY <2>2, PhantomPanic DEF CapacityOverflow
  <2>3. CASE NothingToAssign
    BY <2>3 DEF NothingToAssign, NoPhantomAssignments, Queued
  <2> QED BY <1>1, <2>1, <2>2, <2>3 DEF process_scheduling
<1>2. ASSUME NEW w \in Workers, NEW n \in Subworkers, WorkerConnected(w, n)
      PROVE  NoPhantomAssignments'
  BY <1>2, PhantomConnected
<1>3. ASSUME NEW w \in Workers, WorkerDisconnected(w) PROVE NoPhantomAssignments'
  BY <1>3, PhantomDisconnect DEF WorkerDisconnected
<1>4. ASSUME NEW w \in Workers, NEW t \in TaskId, WorkerResult(w, t) PROVE NoPhantomAssignments'
  BY <1>4, PhantomResult
<1>5. ASSUME NEW w \in Workers, NEW returned \in Lists, NEW old \in Lists,
             LibraryMissing(w, returned, old)
      PROVE  NoPhantomAssignments'
  BY <1>5, PhantomLibraryMissing
<1>6. ASSUME NEW w \in Workers, NEW returned \in Lists, NoFreeExecutors(w, returned)
      PROVE  NoPhantomAssignments'
  BY <1>6, PhantomNoFreeExecutors
<1>7. ASSUME NEW w \in Workers, NEW t \in TaskId, TaskExecutionError(w, t)
      PROVE  NoPhantomAssignments'
  BY <1>7, PhantomTaskExecutionError
<1>8. CASE \/ TaskManagerConnected \/ RestoredSession \/ NodeManagerDisconnected
           \/ ConnectionNotEstablished \/ UNCHANGED vars
  BY <1>8 DEF TaskManagerConnected, RestoredSession, NodeManagerDisconnected,
              ConnectionNotEstablished, vars, queues, NoPhantomAssignments, Queued
<1>9. ASSUME NEW total \in 1 .. MaxTotal, NewJob(total) PROVE NoPhantomAssignments'
  BY <1>9, TypeReset, PhantomEmpty DEF NewJob
<1>10. ASSUME NEW n \in 1 .. MaxTotal, TaskBatch(n) PROVE NoPhantomAssignments'
  BY <1>10, PhantomBatch
<1>11. CASE TaskManagerDisconnect
  BY <1>11, TypeReset, PhantomEmpty DEF TaskManagerDisconnect
<1>12. CASE CreatedSession
  BY <1>12, FreshTypes, PhantomEmpty DEF CreatedSession
<1> QED BY <1>1, <1>2, <1>3, <1>4, <1>5, <1>6, <1>7, <1>8, <1>9, <1>10, <1>11, <1>12 DEF Next

LEMMA ReachableNext ==
  ASSUME TypeOK, WorkersReachable, [Next]_vars
  PROVE  WorkersReachable'
<1> USE DEF WorkersReachable
<1>1. CASE Panic \/ UNCHANGED vars
  BY <1>1 DEF Panic, vars, queues
<1>2. CASE process_scheduling
  BY <1>1, <1>2 DEF process_scheduling, AssignTasks, CapacityOverflow, NothingToAssign
<1>3. ASSUME NEW w \in Workers, NEW n \in Subworkers, WorkerConnected(w, n) PROVE WorkersReachable'
  BY <1>3 DEF WorkerConnected
<1>4. ASSUME NEW w \in Workers, WorkerDisconnected(w) PROVE WorkersReachable'
  BY <1>4 DEF WorkerDisconnected, process_worker_disconnect, Connected, Restrict
<1>5. ASSUME NEW w \in Workers, NEW t \in TaskId, WorkerResult(w, t) PROVE WorkersReachable'
  <2>1. CASE ResultOfQueued(w, t)
    BY <2>1, TypeReset DEF ResultOfQueued, AfterResult
  <2>2. CASE ResultOfUnqueued(w, t)
    BY <1>1, <2>2 DEF ResultOfUnqueued
  <2> QED BY <1>5, <2>1, <2>2 DEF WorkerResult
<1>6. ASSUME NEW w \in Workers, NEW returned \in Lists, NEW old \in Lists,
             LibraryMissing(w, returned, old)
      PROVE  WorkersReachable'
  BY <1>1, <1>6 DEF LibraryMissing
<1>7. ASSUME NEW w \in Workers, NEW returned \in Lists, NoFreeExecutors(w, returned)
      PROVE  WorkersReachable'
  BY <1>1, <1>7 DEF NoFreeExecutors
<1>8. ASSUME NEW w \in Workers, NEW t \in TaskId, TaskExecutionError(w, t)
      PROVE  WorkersReachable'
  BY <1>1, <1>8 DEF TaskExecutionError
<1>9. CASE \/ TaskManagerConnected \/ RestoredSession \/ NodeManagerDisconnected
           \/ ConnectionNotEstablished
  BY <1>9 DEF TaskManagerConnected, RestoredSession, NodeManagerDisconnected,
              ConnectionNotEstablished, queues
<1>10. CASE TaskManagerDisconnect \/ \E total \in 1 .. MaxTotal : NewJob(total)
  BY <1>10, TypeReset DEF TaskManagerDisconnect, NewJob
<1>11. ASSUME NEW n \in 1 .. MaxTotal, TaskBatch(n) PROVE WorkersReachable'
  BY <1>11 DEF TaskBatch
<1>12. CASE CreatedSession
  BY <1>12, FreshTypes DEF CreatedSession
<1> QED BY <1>1, <1>2, <1>3, <1>4, <1>5, <1>6, <1>7, <1>8, <1>9, <1>10, <1>11, <1>12 DEF Next

-----------------------------------------------------------------------------
LEMMA InitIInv == Init => IInv
<1> SUFFICES ASSUME Init PROVE IInv
  OBVIOUS
<1>1. TypeOK
  BY FreshTypes DEF Init, TypeOK
<1>2. scheduled_job = NoJob /\ verdict = "none" /\ DOMAIN workers_queue = {} /\ nodes = {}
  BY FreshTypes DEF Init
<1> QED BY <1>1, <1>2 DEF IInv, NoPhantomAssignments, EachTaskOnce, CompleteMeansAll,
                          WorkersReachable, Accounting, FailedMeansNoJob

LEMMA NextIInv == IInv /\ [Next]_vars => IInv'
<1> SUFFICES ASSUME IInv, [Next]_vars PROVE IInv'
  OBVIOUS
<1>1. TypeOK'
  BY TypeNext DEF IInv
<1>2. NoPhantomAssignments'
  BY PhantomNext DEF IInv
<1>3. Books'
  BY BooksNext DEF IInv, Books
<1>4. WorkersReachable'
  BY ReachableNext DEF IInv
<1> QED BY <1>1, <1>2, <1>3, <1>4 DEF IInv, Books

(* The inductive invariant holds throughout. *)
THEOREM Invariance == Spec => []IInv
  BY InitIInv, NextIInv, PTL DEF Spec

(* Every slot charged to a connected worker is covered by the task's own   *)
(* list of assignments, so a completed, returned or orphaned task never    *)
(* leaves a worker looking busy (process_workers, scheduler.rs).           *)
THEOREM NoPhantoms == Spec => []NoPhantomAssignments
<1>1. IInv => NoPhantomAssignments
  BY DEF IInv
<1> QED BY <1>1, Invariance, PTL

(* Each task the task manager sent is queued, buffered or reported,        *)
(* exactly one of the three, whatever copies were run and whatever late or *)
(* unexpected answers arrive.                                              *)
THEOREM TasksAccountedOnce == Spec => []EachTaskOnce
<1>1. IInv => EachTaskOnce
  BY DEF IInv
<1> QED BY <1>1, Invariance, PTL

(* JobComplete is sent with every result of the job and with nothing left. *)
THEOREM CompletionIsTotal == Spec => []CompleteMeansAll
<1>1. IInv => CompleteMeansAll
  BY DEF IInv
<1> QED BY <1>1, Invariance, PTL

(* The two tables that name the connected workers agree. *)
THEOREM TablesAgree == Spec => []WorkersReachable
<1>1. IInv => WorkersReachable
  BY DEF IInv
<1> QED BY <1>1, Invariance, PTL

(* A verdict on a job is the last thing the task manager hears of it: no   *)
(* answer that arrives later yields a result or a second verdict.          *)
THEOREM FinalVerdict == Spec => VerdictIsFinal
<1> DEFINE Final == verdict # "none" /\ verdict' # "none" =>
                       verdict' = verdict /\ delivered' = delivered
<1>1. ASSUME IInv, [Next]_vars PROVE [Final]_vars
  <2> SUFFICES ASSUME verdict # "none", verdict' # "none"
               PROVE  verdict' = verdict /\ delivered' = delivered
    OBVIOUS
  <2>1. ASSUME NEW t \in TaskId, scheduled_job # NoJob PROVE ~Queued(t)
    BY <1>1, <2>1 DEF IInv, CompleteMeansAll, FailedMeansNoJob, TypeOK, Queued
  <2>2. ASSUME NEW w \in Workers, NEW t \in TaskId, WorkerResult(w, t) \/ TaskExecutionError(w, t)
        PROVE  verdict' = verdict /\ delivered' = delivered
    <3>1. ~Queued(t)
      BY <2>1, <2>2 DEF WorkerResult, TaskExecutionError
    <3> QED BY <2>2, <3>1 DEF WorkerResult, TaskExecutionError, ResultOfQueued, ResultOfUnqueued,
                              Panic, told
  <2>3. CASE UNCHANGED told
    BY <2>3 DEF told
  <2> QED BY ZenonT(40), <1>1, <2>2, <2>3 DEF Next, vars, process_scheduling, AssignTasks, CapacityOverflow,
             NothingToAssign, Panic, WorkerConnected, WorkerDisconnected, process_worker_disconnect,
             LibraryMissing, NoFreeExecutors, TaskManagerConnected, NewJob, TaskBatch,
             TaskManagerDisconnect, RestoredSession, CreatedSession, NodeManagerDisconnected,
             ConnectionNotEstablished
<1> QED BY <1>1, Invariance, PTL DEF Spec, VerdictIsFinal

(* The demand for workers is withdrawn only with the job it was made for. *)
THEOREM DemandHeld == Spec => DemandKept
<1> DEFINE Kept == demand /\ ~demand' => verdict' = "complete" \/ scheduled_job' = NoJob
<1>1. ASSUME TypeOK, [Next]_vars PROVE [Kept]_vars
  <2> SUFFICES ASSUME demand, ~demand' PROVE verdict' = "complete" \/ scheduled_job' = NoJob
    OBVIOUS
  <2>1. ~UNCHANGED demand
    OBVIOUS
  <2>2. ~UNCHANGED links
    BY <2>1 DEF links
  <2>3. ASSUME NEW total \in 1 .. MaxTotal, NewJob(total) PROVE FALSE
    BY <2>3 DEF NewJob
  <2>4. CASE CreatedSession
    BY <2>4 DEF CreatedSession, DemandRepeated
  <2>5. ASSUME NEW w \in Workers, NEW t \in TaskId, WorkerResult(w, t)
        PROVE  verdict' = "complete"
    BY <2>1, <2>2, <2>5 DEF WorkerResult, ResultOfQueued, ResultOfUnqueued, Panic
  <2>6. CASE TaskManagerDisconnect
    BY <2>6 DEF TaskManagerDisconnect
  <2>7. ASSUME process_scheduling \/ UNCHANGED vars PROVE FALSE
    BY <2>2, <2>7 DEF vars, process_scheduling, AssignTasks, CapacityOverflow, NothingToAssign, Panic
  <2>8. ASSUME NEW w \in Workers,
               \/ \E n \in Subworkers : WorkerConnected(w, n)
               \/ WorkerDisconnected(w)
               \/ \E returned, old \in Lists : LibraryMissing(w, returned, old)
               \/ \E returned \in Lists : NoFreeExecutors(w, returned)
               \/ \E t \in TaskId : TaskExecutionError(w, t)
        PROVE  FALSE
    BY <2>2, <2>8 DEF WorkerConnected, WorkerDisconnected, process_worker_disconnect,
                      LibraryMissing, NoFreeExecutors, TaskExecutionError, Panic
  <2>9. ASSUME \/ TaskManagerConnected \/ RestoredSession \/ NodeManagerDisconnected
               \/ ConnectionNotEstablished \/ \E n \in 1 .. MaxTotal : TaskBatch(n)
        PROVE  FALSE
    BY <2>1, <2>2, <2>9 DEF TaskManagerConnected, RestoredSession, NodeManagerDisconnected,
                            ConnectionNotEstablished, TaskBatch
  <2> QED BY <1>1, <2>3, <2>4, <2>5, <2>6, <2>7, <2>8, <2>9 DEF Next
<1> QED BY <1>1, TypeCorrect, PTL DEF Spec, DemandKept
=============================================================================
