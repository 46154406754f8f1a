-------------------------- MODULE TaskManagerProofs --------------------------
(* The safety properties of the task manager, for every value of the       *)
(* constants, and that it implements JobService.                           *)
EXTENDS TaskManager, SequenceTheorems, TLAPS

(* Every handler is one of four kinds of step for the current job: it      *)
(* leaves it alone, ends it, restarts it or moves it on.                   *)
LEMMA BreakTypes ==
  ASSUME TypeOK, NEW result \in {"completed", "error"}, Break(result),
         UNCHANGED <<total_tasks, jobs_queue, need_process_job, connection>>
  PROVE  /\ current_job' = NoJob /\ state' = "none"
         /\ split' \in Nat /\ tasks' \subseteq Nat /\ parts' \subseteq Nat
         /\ jobs_finished' \in Seq([job: DOMAIN total_tasks, result: {"completed", "error"}])
         /\ ready' = ready /\ link' = link /\ announced' = announced
<1> DEFINE Entry == [job: DOMAIN total_tasks, result: {"completed", "error"}]
<1>1. ready' = ready /\ link' = link /\ announced' = announced
  BY DEF connection
<1>2. CASE current_job = NoJob
  BY <1>1, <1>2 DEF Break, TypeOK, job
<1>3. CASE current_job # NoJob
  <2>1. [job |-> current_job, result |-> result] \in Entry
    BY <1>3 DEF TypeOK
  <2>2. jobs_finished \in Seq(Entry)
    BY DEF TypeOK
  <2> HIDE DEF Entry
  <2>3. Append(jobs_finished, [job |-> current_job, result |-> result]) \in Seq(Entry)
    BY <2>1, <2>2
  <2>4. jobs_finished' \in Seq(Entry)
    BY <1>3, <2>3 DEF Break, Finished
  <2>5. current_job' = NoJob /\ state' = "none" /\ split' = 0 /\ tasks' = {} /\ parts' = {}
    BY <1>3 DEF Break
  <2> QED BY <1>1, <2>4, <2>5 DEF Entry
<1> QED BY <1>2, <1>3

LEMMA BreakKeepsIInv ==
  ASSUME IInv, NEW result \in {"completed", "error"}, Break(result),
         UNCHANGED <<status, total_tasks, jobs_queue, need_process_job, connection>>
  PROVE  IInv'
<1>1. TypeOK
  BY DEF IInv
<1>2. /\ current_job' = NoJob /\ state' = "none"
      /\ split' \in Nat /\ tasks' \subseteq Nat /\ parts' \subseteq Nat
      /\ jobs_finished' \in Seq([job: DOMAIN total_tasks, result: {"completed", "error"}])
      /\ ready' = ready /\ link' = link /\ announced' = announced
  BY <1>1, BreakTypes
<1>3. TypeOK'
  BY <1>1, <1>2 DEF TypeOK
<1>4. Awake'
  BY <1>2 DEF IInv, Awake, Running
<1> QED BY <1>2, <1>3, <1>4 DEF IInv, AnnouncedHere, PartsExact, ReducerComplete

LEMMA RestartKeepsIInv ==
  ASSUME IInv, Restart, ready' = FALSE, link' \in {"waiting", "holding"},
         announced' \in {announced, Nothing},
         UNCHANGED <<status, queues, need_process_job>>
  PROVE  IInv'
<1>1. /\ state' \notin {"splitting", "waiting"}
      /\ state' = "reducing" => state = "reducing" /\ UNCHANGED <<split, tasks, parts>>
      /\ current_job' = current_job
  BY DEF IInv, TypeOK, Restart, Restarted
<1>2. TypeOK'
  <2>1. /\ total_tasks' = total_tasks /\ jobs_queue' = jobs_queue
        /\ jobs_finished' = jobs_finished /\ status' = status
        /\ need_process_job' = need_process_job
    BY DEF queues
  <2>2. /\ state' \in IF current_job' = NoJob THEN {"none"}
                       ELSE {"not started", "splitting", "waiting", "reducing"}
        /\ split' \in Nat /\ tasks' \subseteq Nat /\ parts' \subseteq Nat
    <3>1. /\ state \in IF current_job = NoJob THEN {"none"}
                        ELSE {"not started", "splitting", "waiting", "reducing"}
          /\ split \in Nat /\ tasks \subseteq Nat /\ parts \subseteq Nat
      BY DEF IInv, TypeOK
    <3>2. state' = Restarted
      BY DEF Restart
    <3>3. CASE state' = state
      BY <1>1, <3>1, <3>3 DEF Restart
    <3>4. CASE state' # state
      <4>1. split' = 0 /\ tasks' = {} /\ parts' = {}
        BY <3>4 DEF Restart
      <4>2. state \in {"splitting", "waiting"} /\ state' = "not started"
        BY <3>2, <3>4 DEF Restarted
      <4> QED BY <1>1, <3>1, <4>1, <4>2
    <3> QED BY <3>3, <3>4
  <2>3. announced' \in [job: DOMAIN total_tasks \cup {NoJob}, sent: Nat]
    <3>1. announced \in [job: DOMAIN total_tasks \cup {NoJob}, sent: Nat]
      BY DEF IInv, TypeOK
    <3>2. Nothing \in [job: DOMAIN total_tasks \cup {NoJob}, sent: Nat]
      BY DEF Nothing
    <3> QED BY <3>1, <3>2
  <2> QED BY <1>1, <2>1, <2>2, <2>3 DEF IInv, TypeOK
<1>3. Awake'
  BY <1>1 DEF IInv, Awake, Running, queues
<1> QED BY <1>1, <1>2, <1>3 DEF IInv, AnnouncedHere, PartsExact, ReducerComplete, AllTasks, queues

LEMMA SplitKeepsIInv ==
  ASSUME IInv, SplitChunk, UNCHANGED status, need_process_job
  PROVE  IInv'
<1> DEFINE total == total_tasks[current_job]
<1>1. /\ state = "splitting" /\ current_job \in DOMAIN total_tasks /\ total \in Nat
      /\ split \in Nat /\ split <= total /\ announced = [job |-> current_job, sent |-> split]
      /\ current_job' = current_job /\ total_tasks' = total_tasks /\ ready' = ready /\ ready
  BY TaskManagerAssumption DEF IInv, TypeOK, AnnouncedHere, SplitChunk, queues
<1>2. /\ ChunkEnd \in Nat /\ split <= ChunkEnd /\ ChunkEnd <= total
      /\ LastChunk => ChunkEnd = total
  BY <1>1, TaskManagerAssumption DEF ChunkEnd, LastChunk
<1>3. /\ split' = ChunkEnd /\ announced' = [job |-> current_job, sent |-> ChunkEnd]
      /\ state' \in {"splitting", "waiting"} /\ (state' = "waiting" => LastChunk)
      /\ parts' = parts /\ tasks' = tasks \cup (split + 1 .. ChunkEnd)
      /\ need_process_job' = need_process_job /\ link' = link
      /\ jobs_queue' = jobs_queue /\ jobs_finished' = jobs_finished
  BY <1>1, <1>2 DEF SplitChunk, queues
<1>4. AnnouncedHere'
  BY <1>1, <1>2, <1>3 DEF AnnouncedHere
<1>5. PartsExact'
  <2>1. parts \cap tasks = {} /\ parts \cup tasks = 1 .. split
    BY <1>1 DEF IInv, PartsExact
  <2>2. 1 .. ChunkEnd = (1 .. split) \cup (split + 1 .. ChunkEnd)
    BY <1>1, <1>2
  <2>3. parts \cap (split + 1 .. ChunkEnd) = {}
    BY <1>1, <1>2, <2>1
  <2> QED BY <1>3, <2>1, <2>2, <2>3 DEF PartsExact
<1>6. TypeOK'
  <2>1. split + 1 .. ChunkEnd \subseteq Nat
    BY <1>1, <1>2
  <2>2. announced' \in [job: DOMAIN total_tasks \cup {NoJob}, sent: Nat]
    BY <1>1, <1>2, <1>3
  <2>3. current_job # NoJob
    BY <1>1, TaskManagerAssumption DEF IInv, TypeOK
  <2>4. split' \in Nat /\ tasks' \subseteq Nat /\ parts' \subseteq Nat
    BY <1>2, <1>3, <2>1 DEF IInv, TypeOK
  <2> QED BY <1>1, <1>3, <2>2, <2>3, <2>4 DEF IInv, TypeOK
<1>7. Awake' /\ ReducerComplete' /\ state' # "reducing"
  BY <1>3 DEF Awake, ReducerComplete
<1> QED BY <1>4, <1>5, <1>6, <1>7 DEF IInv

LEMMA ProcessJobKeepsIInv == IInv /\ process_job => IInv'
<1> SUFFICES ASSUME IInv, process_job PROVE IInv'
  OBVIOUS
<1>0. need_process_job /\ status' = status
  BY DEF process_job
<1>1. CASE TakeNextJob
  <2>1. /\ total_tasks' = total_tasks /\ jobs_finished' = jobs_finished /\ ready' = ready
        /\ link' = link /\ announced' = announced
    BY <1>1 DEF TakeNextJob, connection
  <2>2. CASE jobs_queue = <<>>
    BY <1>0, <1>1, <2>1, <2>2 DEF TakeNextJob, IInv, TypeOK, AnnouncedHere, PartsExact,
       ReducerComplete, Awake, job
  <2>3. CASE jobs_queue # <<>>
    <3>1. /\ current_job' = Head(jobs_queue) /\ jobs_queue' = Tail(jobs_queue)
          /\ state' = "not started" /\ need_process_job' = need_process_job
          /\ split' = split /\ tasks' = tasks /\ parts' = parts
      BY <1>1, <2>3 DEF TakeNextJob
    <3>2. current_job' \in DOMAIN total_tasks /\ jobs_queue' \in Seq(DOMAIN total_tasks)
      <4>1. jobs_queue \in Seq(DOMAIN total_tasks)
        BY DEF IInv, TypeOK
      <4>2. Head(jobs_queue) \in DOMAIN total_tasks /\ Tail(jobs_queue) \in Seq(DOMAIN total_tasks)
        BY <2>3, <4>1, HeadTailProperties
      <4> QED BY <3>1, <4>2
    <3>3. current_job' # NoJob
      BY <3>2, TaskManagerAssumption DEF IInv, TypeOK
    <3>4. TypeOK'
      BY <1>0, <2>1, <3>1, <3>2, <3>3 DEF IInv, TypeOK
    <3> QED BY <1>0, <3>1, <3>4 DEF IInv, AnnouncedHere, PartsExact, ReducerComplete, Awake
  <2> QED BY <2>2, <2>3
<1>2. CASE SchedulerNotReady
  BY <1>0, <1>2 DEF SchedulerNotReady, IInv, TypeOK, AnnouncedHere, PartsExact, ReducerComplete,
     AllTasks, Awake, job, queues, connection
<1>3. CASE StartJob
  <2>1. TypeOK'
    BY <1>0, <1>3 DEF StartJob, IInv, TypeOK, queues
  <2>2. AnnouncedHere' /\ PartsExact'
    <3>1. current_job \in DOMAIN total_tasks /\ total_tasks[current_job] \in Nat
      BY <1>3, TaskManagerAssumption DEF StartJob, IInv, TypeOK
    <3>2. /\ ready' = TRUE /\ current_job' = current_job /\ total_tasks' = total_tasks
          /\ announced' = [job |-> current_job, sent |-> 0]
          /\ state' = "splitting" /\ split' = 0 /\ tasks' = {} /\ parts' = {}
      BY <1>3 DEF StartJob, queues, IInv, TypeOK
    <3> QED BY <3>1, <3>2 DEF AnnouncedHere, PartsExact
  <2> QED BY <1>0, <1>3, <2>1, <2>2 DEF StartJob, IInv, ReducerComplete, Awake
<1>4. CASE SplitChunk
  BY <1>0, <1>4, SplitKeepsIInv
<1>5. CASE AllAnswered
  <2>1. TypeOK'
    BY <1>0, <1>5 DEF AllAnswered, IInv, TypeOK, queues, connection
  <2>2. parts = AllTasks /\ tasks = {}
    BY <1>5 DEF AllAnswered, NoTaskOpen, IInv, PartsExact, AnnouncedHere, AllTasks
  <2> QED BY <1>0, <1>5, <2>1, <2>2 DEF AllAnswered, IInv, AnnouncedHere, PartsExact,
             ReducerComplete, AllTasks, Awake, queues, connection
<1>6. CASE ReducerExhausted
  BY <1>0, <1>6, BreakKeepsIInv DEF ReducerExhausted
<1>7. CASE SerializationFails
  BY <1>0, <1>7, BreakKeepsIInv DEF SerializationFails
<1>8. CASE SplitterFails
  BY <1>0, <1>8, BreakKeepsIInv DEF SplitterFails
<1>9. CASE ReducerFails
  BY <1>0, <1>9, BreakKeepsIInv DEF ReducerFails
<1> QED BY <1>1, <1>2, <1>3, <1>4, <1>5, <1>6, <1>7, <1>8, <1>9 DEF process_job

LEMMA ResultsKeepIInv ==
  ASSUME IInv, NEW results, Results(results)
  PROVE  IInv'
<1>1. /\ status' = status /\ current_job' = current_job /\ state' = state /\ split' = split
      /\ total_tasks' = total_tasks /\ jobs_queue' = jobs_queue /\ jobs_finished' = jobs_finished
      /\ need_process_job' = need_process_job /\ ready' = ready /\ link' = link
      /\ announced' = announced
  BY DEF Results, queues, connection
<1>2. \/ tasks' = tasks /\ parts' = parts
      \/ tasks' = tasks \ results /\ parts' = parts \cup (tasks \cap results)
  BY DEF Results, Stored
<1>3. TypeOK' /\ AnnouncedHere' /\ Awake'
  BY <1>1, <1>2 DEF IInv, TypeOK, AnnouncedHere, Awake, Running
<1>4. PartsExact'
  BY <1>1, <1>2 DEF IInv, PartsExact
<1>5. ReducerComplete' /\ (state' = "reducing" => tasks' = {})
  BY <1>1, <1>2 DEF IInv, ReducerComplete, AllTasks
<1> QED BY <1>3, <1>4, <1>5 DEF IInv

LEMMA CommandsKeepIInv ==
  ASSUME IInv,
         \/ \E j \in Jobs, total \in Totals : AddJob(j, total)
         \/ \E i \in DOMAIN jobs_queue : CancelQueued(i)
  PROVE  IInv'
<1>1. CASE \E j \in Jobs, total \in Totals : AddJob(j, total)
  <2>1. PICK j \in Jobs, total \in Totals : AddJob(j, total)
    BY <1>1
  <2>2. /\ \A k \in DOMAIN total_tasks : total_tasks'[k] = total_tasks[k]
        /\ DOMAIN total_tasks' = DOMAIN total_tasks \cup {j}
        /\ total_tasks'[j] = total
    BY <2>1 DEF AddJob
  <2>3. TypeOK'
    <3>1. jobs_queue' \in Seq(DOMAIN total_tasks')
      <4>1. jobs_queue \in Seq(DOMAIN total_tasks')
        <5>1. jobs_queue \in Seq(DOMAIN total_tasks)
          BY DEF IInv, TypeOK
        <5>2. DOMAIN total_tasks \subseteq DOMAIN total_tasks'
          BY <2>2
        <5> QED BY <5>1, <5>2, SeqMonotonic
      <4>2. jobs_queue' = Append(jobs_queue, j) /\ j \in DOMAIN total_tasks'
        BY <2>1, <2>2 DEF AddJob
      <4> QED BY <4>1, <4>2
    <3>2. jobs_finished' \in Seq([job: DOMAIN total_tasks', result: {"completed", "error"}])
      <4> DEFINE Entry == [job: DOMAIN total_tasks, result: {"completed", "error"}]
                 NewEntry == [job: DOMAIN total_tasks', result: {"completed", "error"}]
      <4>1. jobs_finished \in Seq(Entry)
        BY DEF IInv, TypeOK
      <4>2. Entry \subseteq NewEntry
        BY <2>2
      <4> HIDE DEF Entry, NewEntry
      <4>3. jobs_finished \in Seq(NewEntry)
        BY <4>1, <4>2, SeqMonotonic
      <4>4. jobs_finished' = jobs_finished
        BY <2>1 DEF AddJob
      <4> QED BY <4>3, <4>4 DEF NewEntry
    <3>3. /\ DOMAIN total_tasks' \subseteq Jobs
          /\ \A k \in DOMAIN total_tasks' : total_tasks'[k] \in Totals
      BY <2>2 DEF IInv, TypeOK
    <3>4. announced' \in [job: DOMAIN total_tasks' \cup {NoJob}, sent: Nat]
      BY <2>1, <2>2 DEF AddJob, IInv, TypeOK, connection
    <3> QED BY <2>1, <2>2, <3>1, <3>2, <3>3, <3>4 DEF AddJob, IInv, TypeOK, job, connection
  <2>4. current_job # NoJob => total_tasks'[current_job] = total_tasks[current_job]
    BY <2>2 DEF IInv, TypeOK
  <2>5. state \in {"splitting", "waiting", "reducing"} => current_job # NoJob
    BY DEF IInv, TypeOK
  <2> QED BY <2>1, <2>3, <2>4, <2>5 DEF AddJob, IInv, AnnouncedHere, PartsExact,
             ReducerComplete, AllTasks, Awake, job, connection
<1>2. CASE \E i \in DOMAIN jobs_queue : CancelQueued(i)
  <2>1. PICK i \in DOMAIN jobs_queue : CancelQueued(i)
    BY <1>2
  <2>2. jobs_queue \in Seq(DOMAIN total_tasks) /\ i \in 1 .. Len(jobs_queue)
    <3>1. jobs_queue \in Seq(DOMAIN total_tasks)
      BY DEF IInv, TypeOK
    <3> QED BY <3>1
  <2>3. jobs_queue' \in Seq(DOMAIN total_tasks)
    BY <2>1, <2>2 DEF CancelQueued, RemoveAt
  <2>4. TypeOK'
    BY <2>1, <2>3 DEF CancelQueued, IInv, TypeOK, job, connection
  <2>5. Awake'
    <3>1. jobs_queue # <<>>
      BY <2>2
    <3> QED BY <2>1, <3>1 DEF CancelQueued, IInv, Awake, Running, job, connection
  <2> QED BY <2>1, <2>4, <2>5 DEF CancelQueued, IInv, AnnouncedHere, PartsExact,
             ReducerComplete, AllTasks, job, connection
<1> QED BY <1>1, <1>2

LEMMA InitIInv == Init => IInv
<1> SUFFICES ASSUME Init PROVE IInv
  OBVIOUS
<1>1. TypeOK
  <2>1. /\ DOMAIN total_tasks = {} /\ jobs_queue = <<>> /\ jobs_finished = <<>>
        /\ announced = [job |-> NoJob, sent |-> 0]
    BY DEF Init, Nothing
  <2>2. announced \in [job: DOMAIN total_tasks \cup {NoJob}, sent: Nat]
    BY <2>1
  <2>3. /\ jobs_queue \in Seq(DOMAIN total_tasks)
        /\ jobs_finished \in Seq([job: DOMAIN total_tasks, result: {"completed", "error"}])
    BY <2>1
  <2> QED BY <2>1, <2>2, <2>3 DEF Init, TypeOK
<1> QED BY <1>1 DEF Init, IInv, AnnouncedHere, PartsExact, ReducerComplete, Awake

LEMMA NextIInv == IInv /\ [Next]_vars => IInv'
<1> SUFFICES ASSUME IInv, [Next]_vars PROVE IInv'
  OBVIOUS
<1>1. CASE process_job
  BY <1>1, ProcessJobKeepsIInv
<1>2. ASSUME NEW results, Results(results) PROVE IInv'
  BY <1>2, ResultsKeepIInv
<1>3. CASE UndecodableResult
  BY <1>3, BreakKeepsIInv DEF UndecodableResult
<1>4. CASE TaskExecutionError
  BY <1>4, BreakKeepsIInv DEF TaskExecutionError
<1>5. CASE SchedulerDisconnected
  BY <1>5, RestartKeepsIInv DEF SchedulerDisconnected
<1>6. CASE SchedulerBusy
  BY <1>6, RestartKeepsIInv DEF SchedulerBusy, IInv, TypeOK
<1>7. CASE SchedulerFree
  BY <1>7 DEF SchedulerFree, WakeOnFree, IInv, TypeOK, AnnouncedHere, PartsExact, ReducerComplete,
     AllTasks, Awake, job, queues
<1>8. CASE ConnectionNotEstablished
  BY <1>8 DEF ConnectionNotEstablished, IInv, TypeOK, AnnouncedHere, PartsExact, ReducerComplete,
     AllTasks, Awake, Running, job, queues, connection
<1>9. CASE \/ \E j \in Jobs, total \in Totals : AddJob(j, total)
           \/ \E i \in DOMAIN jobs_queue : CancelQueued(i)
  BY <1>9, CommandsKeepIInv
<1>10. CASE CancelCurrent
  BY <1>10, BreakKeepsIInv DEF CancelCurrent
<1>11. CASE UNCHANGED vars
  BY <1>11 DEF vars, IInv, TypeOK, AnnouncedHere, PartsExact, ReducerComplete,
     AllTasks, Awake, Running, job, queues, connection
<1> QED BY <1>1, <1>2, <1>3, <1>4, <1>5, <1>6, <1>7, <1>8, <1>9, <1>10, <1>11 DEF Next
-----------------------------------------------------------------------------
(* The inductive invariant holds in every state. *)
THEOREM Invariance == Spec => []IInv
BY InitIInv, NextIInv, PTL DEF Spec

(* The state keeps its types. *)
THEOREM TypeCorrect == Spec => []TypeOK
<1>1. IInv => TypeOK
  BY DEF IInv
<1> QED BY <1>1, Invariance, PTL

(* The scheduler is sent exactly the tasks of the job announced to it.     *)
THEOREM RequestsAgree == Spec => []AnnouncedHere
<1>1. IInv => AnnouncedHere
  BY DEF IInv
<1> QED BY <1>1, Invariance, PTL

(* Each task sent is open or answered, never both. *)
THEOREM AnswersExact == Spec => []PartsExact
<1>1. IInv => PartsExact
  BY DEF IInv
<1> QED BY <1>1, Invariance, PTL

(* The reducer has the result of every task. *)
THEOREM ReducerHasAll == Spec => []ReducerComplete
<1>1. IInv => ReducerComplete
  BY DEF IInv
<1> QED BY <1>1, Invariance, PTL

(* The task manager never sleeps over work it could do. *)
THEOREM NeverOversleeps == Spec => []Awake
<1>1. IInv => Awake
  BY DEF IInv
<1> QED BY <1>1, Invariance, PTL
-----------------------------------------------------------------------------
(* A handler that ends with a result finishes the job in hand, if any. *)
LEMMA BreakServes ==
  ASSUME NEW result \in {"completed", "error"}, Break(result), jobs_queue' = jobs_queue
  PROVE  [Service!Next]_Service!service
<1>1. CASE current_job = NoJob
  BY <1>1 DEF Break, job, Service!service
<1>2. CASE current_job # NoJob
  <2>1. Service!Finish(result)
    BY <1>2 DEF Break, Finished, Service!Finish
  <2> QED BY <2>1 DEF Service!Next
<1> QED BY <1>1, <1>2

LEMMA AddServes ==
  ASSUME TypeOK, NEW j \in Jobs, NEW total \in Totals, AddJob(j, total)
  PROVE  Service!Submit(j)
<1>1. j \notin DOMAIN total_tasks /\ j # NoJob
  BY TaskManagerAssumption DEF AddJob
<1>2. j # current_job
  BY <1>1 DEF TypeOK
<1>3. \A i \in DOMAIN jobs_queue : jobs_queue[i] # j
  <2>1. jobs_queue \in Seq(DOMAIN total_tasks)
    BY DEF TypeOK
  <2>2. \A i \in DOMAIN jobs_queue : jobs_queue[i] \in DOMAIN total_tasks
    BY <2>1, ElementOfSeq, LenProperties
  <2> QED BY <1>1, <2>2
<1>4. \A i \in DOMAIN jobs_finished : jobs_finished[i].job # j
  <2> DEFINE Entry == [job: DOMAIN total_tasks, result: {"completed", "error"}]
  <2>1. jobs_finished \in Seq(Entry)
    BY DEF TypeOK
  <2>2. \A e \in Entry : e.job # j
    BY <1>1
  <2> HIDE DEF Entry
  <2>3. \A i \in DOMAIN jobs_finished : jobs_finished[i] \in Entry
    BY <2>1, ElementOfSeq, LenProperties
  <2> QED BY <2>2, <2>3
<1> QED BY <1>2, <1>3, <1>4 DEF AddJob, Service!Submit, job

LEMMA StepServes == IInv /\ [Next]_vars => [Service!Next]_Service!service
<1> SUFFICES ASSUME IInv, [Next]_vars PROVE [Service!Next]_Service!service
  OBVIOUS
<1>1. CASE process_job
  <2>1. CASE TakeNextJob
    <3>1. CASE jobs_queue = <<>>
      BY <2>1, <3>1 DEF TakeNextJob, job, Service!service
    <3>2. CASE jobs_queue # <<>>
      BY <2>1, <3>2 DEF TakeNextJob, Service!Next, Service!Start
    <3> QED BY <3>1, <3>2
  <2>2. CASE SchedulerNotReady \/ StartJob \/ SplitChunk \/ AllAnswered
    BY <2>2 DEF SchedulerNotReady, StartJob, SplitChunk, AllAnswered, job, queues, Service!service
  <2>3. CASE ReducerExhausted
    BY <2>3, BreakServes DEF ReducerExhausted
  <2>4. CASE SerializationFails
    BY <2>4, BreakServes DEF SerializationFails
  <2>5. CASE SplitterFails \/ ReducerFails
    BY <2>5, BreakServes DEF SplitterFails, ReducerFails
  <2> QED BY <1>1, <2>1, <2>2, <2>3, <2>4, <2>5 DEF process_job
<1>2. ASSUME NEW results, Results(results) PROVE UNCHANGED Service!service
  BY <1>2 DEF Results, queues, Service!service
<1>3. CASE UndecodableResult
  BY <1>3, BreakServes DEF UndecodableResult
<1>4. CASE TaskExecutionError
  BY <1>4, BreakServes DEF TaskExecutionError
<1>5. CASE SchedulerDisconnected \/ SchedulerBusy
  BY <1>5 DEF SchedulerDisconnected, SchedulerBusy, Restart, queues, Service!service
<1>6. CASE SchedulerFree \/ ConnectionNotEstablished
  BY <1>6 DEF SchedulerFree, ConnectionNotEstablished, job, queues, Service!service
<1>7. ASSUME NEW j \in Jobs, NEW total \in Totals, AddJob(j, total) PROVE Service!Next
  <2>1. Service!Submit(j)
    BY <1>7, AddServes DEF IInv
  <2> QED BY <2>1 DEF Service!Next
<1>8. CASE CancelCurrent
  BY <1>8, BreakServes DEF CancelCurrent
<1>9. ASSUME NEW i \in DOMAIN jobs_queue, CancelQueued(i) PROVE Service!Next
  <2>1. Service!Withdraw(i)
    BY <1>9 DEF CancelQueued, RemoveAt, job, Service!Withdraw
  <2> QED BY <2>1 DEF Service!Next
<1>10. CASE UNCHANGED vars
  BY <1>10 DEF vars, job, queues, Service!service
<1> QED BY <1>1, <1>2, <1>3, <1>4, <1>5, <1>6, <1>7, <1>8, <1>9, <1>10 DEF Next

(* The task manager implements JobService: its jobs run one at a time, in  *)
(* the order of AddJob, and each that starts gets exactly one result.      *)
THEOREM ImplementsService == Spec => ServesJobs
<1>1. Init => Service!Init
  BY DEF Init, Service!Init
<1> QED BY <1>1, Invariance, StepServes, PTL DEF Spec, ServesJobs, Service!Spec
=============================================================================
