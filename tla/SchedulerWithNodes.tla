-------------------------- MODULE SchedulerWithNodes --------------------------
(***************************************************************************)
(* The scheduler together with the nodes it talks to.  A node answers each *)
(* task of a request at most once: with a result or an execution error     *)
(* (DllWorker and WasmWorker, process_message), or by listing it in        *)
(* NoFreeExecutors.  Each connection delivers its answers in order before  *)
(* its Disconnected event (handle_node), and answers already queued are    *)
(* still processed after the scheduler has dropped the node.  Nodes keep   *)
(* the job's library, so LibraryMissing does not occur here.               *)
(***************************************************************************)
EXTENDS Scheduler

VARIABLE executing    \* tasks sent to a node whose answer is still to come

allvars == <<vars, executing>>

InitNodes == Init /\ executing = [w \in Workers |-> None(TaskId)]

Schedule ==
    /\ process_scheduling
    /\ executing' = [w \in Workers |->
          IF Connected(w)
          THEN [t \in TaskId |-> executing[w][t] + workers_queue'[w].assignments[t]
                                                 - workers_queue[w].assignments[t]]
          ELSE executing[w]]
    /\ \A w \in Workers : Size(executing'[w]) <= MaxCopies + MaxReplace

Answer(w, t) ==
    /\ executing[w][t] > 0
    /\ WorkerResult(w, t) \/ TaskExecutionError(w, t)
    /\ executing' = [executing EXCEPT ![w][t] = @ - 1]

Refuse(w, returned) ==
    /\ Size(returned) > 0
    /\ \A t \in TaskId : returned[t] <= executing[w][t]
    /\ NoFreeExecutors(w, returned)
    /\ executing' = [executing EXCEPT ![w] = [t \in TaskId |-> @[t] - returned[t]]]

Connect(w, n) ==
    /\ ~Connected(w)
    /\ executing[w] = None(TaskId)
    /\ WorkerConnected(w, n)
    /\ UNCHANGED executing

ConnectionLost(w) ==
    /\ Connected(w)
    /\ WorkerDisconnected(w)
    /\ executing' = [executing EXCEPT ![w] = None(TaskId)]

Peers ==
    /\ \/ TaskManagerConnected
       \/ \E total \in 1 .. MaxTotal : NewJob(total)
       \/ \E n \in 1 .. MaxTotal : TaskBatch(n)
       \/ TaskManagerDisconnect
       \/ CreatedSession
       \/ NodeManagerDisconnected
    /\ UNCHANGED executing

NextNodes ==
    \/ Schedule
    \/ \E w \in Workers :
          \/ \E t \in TaskId : Answer(w, t)
          \/ \E returned \in Lists : Refuse(w, returned)
          \/ \E n \in Subworkers : Connect(w, n)
          \/ ConnectionLost(w)
    \/ Peers

SpecNodes == InitNodes /\ [][NextNodes]_allvars
=============================================================================
