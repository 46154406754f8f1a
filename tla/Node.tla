--------------------------------- MODULE Node ---------------------------------
(***************************************************************************)
(* A node: the event loop of node/src/node.rs, its connection to the node  *)
(* manager (node/src/node_manager.rs), its connection from the client it   *)
(* is lent to (node/src/client.rs) and the executors of its worker.        *)
(*                                                                         *)
(* Connections live in tasks of their own that put events into a queue the *)
(* loop reads.  A task that has ended has dropped the receiving end of the *)
(* loop's queue, so a send to it fails although its last events have yet   *)
(* to be read.  Responses sent over a live connection count as delivered.  *)
(***************************************************************************)
EXTENDS DllWorker, WasmWorker

CONSTANTS
    Kinds,        \* the library types a node can be started with
    NoClient,
    ChannelSize,  \* capacity of the channels to and from an executor: 10
    MaxEvents,    \* bound: events waiting in a queue of the loop
    MaxTasks,     \* bound: tasks of a request
    MaxReplaced,  \* bound: of these, tasks that replace another
    MaxDeaths     \* bound: processes that die

ASSUME NodeAssumption ==
    /\ ChannelSize \in Nat \ {0} /\ MaxEvents \in Nat \ {0}
    /\ MaxTasks \in Nat /\ MaxReplaced \in Nat /\ MaxDeaths \in Nat

VARIABLES
    kind,
    worker,
    node_manager,  \* state of its task and the events not yet read
    client,        \* likewise, with the loop's view and its buffer
    stopped,       \* "no", "error": start() has returned, "panic", "hung"
    deaths,
    asked,         \* tasks the client waits for
    late,          \* of these, those that came to replace a task already answered
    lost           \* assigned tasks their executor no longer has, without an answer

vars == <<kind, worker, node_manager, client, stopped, deaths, asked, late, lost>>

Running == stopped = "no"

connect == [task |-> "connecting", events |-> <<>>]
new_client == [task |-> "waiting", events |-> <<>>, connected |-> FALSE, buffer |-> <<>>]

Message(request) == [event |-> "Message", request |-> request]

NodeManagerConnection ==
    [task : {"connecting", "serving", "ended"},
     events : Seq({"Connected", "Disconnected", "AssignClient", "UnassignClient",
                   "ConnectionNotEstablished"})]

Event == [event : {"Connected", "Disconnected"}] \cup [event : {"Message"}, request : Request]

Client == [task : {"waiting", "serving", "ended"}, events : Seq(Event), connected : BOOLEAN,
           buffer : Seq(Responses)]

ASSUME NoClientAssumption == NoClient \notin Client

Init ==
    /\ kind \in Kinds
    /\ worker = new
    /\ node_manager = connect
    /\ client = NoClient
    /\ stopped = "no" /\ deaths = 0
    /\ asked = {} /\ late = {} /\ lost = {}

TypeOK ==
    /\ kind \in Kinds
    /\ IsWorker(worker)
    /\ node_manager \in NodeManagerConnection
    /\ client \in Client \cup {NoClient}
    /\ stopped \in {"no", "error", "panic", "hung"}
    /\ deaths \in Nat
    /\ asked \subseteq Key
    /\ late \subseteq asked /\ lost \subseteq DOMAIN worker.assignments
-----------------------------------------------------------------------------
(* Events of the node manager (process_node_manager).                      *)
NodeManagerEvent(event) ==
    /\ Running
    /\ node_manager.events # <<>>
    /\ Head(node_manager.events) = event

ReadNodeManager == node_manager' = [node_manager EXCEPT !.events = Tail(@)]

reset_worker == worker' = IF kind = "dll" THEN dll_reset(worker) ELSE wasm_reset(worker)

Forgotten == asked' = {} /\ late' = {}

ProcessConnected ==
    /\ NodeManagerEvent("Connected")
    /\ ReadNodeManager
    /\ UNCHANGED <<kind, worker, client, stopped, deaths, asked, late, lost>>

ProcessDisconnected ==
    /\ NodeManagerEvent("Disconnected")
    /\ node_manager' = connect
    /\ UNCHANGED <<kind, worker, client, stopped, deaths, asked, late, lost>>

AssignWithoutReset ==
    /\ NodeManagerEvent("AssignClient")
    /\ ReadNodeManager
    /\ client' = new_client
    /\ Forgotten
    /\ UNCHANGED <<kind, worker, stopped, deaths, lost>>

AssignClient ==
    /\ NodeManagerEvent("AssignClient")
    /\ ReadNodeManager
    /\ reset_worker
    /\ client' = new_client
    /\ Forgotten /\ lost' = {}
    /\ UNCHANGED <<kind, stopped, deaths>>

UnassignClient ==
    /\ NodeManagerEvent("UnassignClient")
    /\ ReadNodeManager
    /\ reset_worker
    /\ client' = NoClient
    /\ Forgotten /\ lost' = {}
    /\ UNCHANGED <<kind, stopped, deaths>>

ConnectionNotEstablished ==
    /\ NodeManagerEvent("ConnectionNotEstablished")
    /\ ReadNodeManager
    /\ stopped' = "error"
    /\ UNCHANGED <<kind, worker, client, deaths, asked, late, lost>>

(* A heartbeat that falls between the end of the connection and the        *)
(* reading of its Disconnected event cannot be sent: start() returns.      *)
HeartbeatFails ==
    /\ Running
    /\ node_manager.task = "ended"
    /\ stopped' = "error"
    /\ UNCHANGED <<kind, worker, node_manager, client, deaths, asked, late, lost>>
-----------------------------------------------------------------------------
(* Client::send.  Without the connection the response is kept; with a      *)
(* connection that has ended it is an error that only process_request      *)
(* passes on.                                                              *)
Delivered == client.connected /\ client.task = "serving"

send(c, response) ==
    IF response = NoResponse \/ c.connected THEN c
    ELSE [c EXCEPT !.buffer = Append(@, response)]

Settle(response) ==
    IF response # NoResponse /\ Delivered THEN asked \ response.keys ELSE asked

(* A client told LibraryMissing waits again for what was to be replaced.   *)
TakenBack(request, response) ==
    IF response.type = "LibraryMissing" /\ Delivered THEN Gives(request) ELSE {}

(* What cannot replace, or be waited for again, as it is not assigned.     *)
TooLate(request, response) ==
    {<<request.job, p[2]>> : p \in {q \in ToSet(request.replacements) :
                                       <<request.job, q[1]>> \notin DOMAIN worker.assignments}}
        \cup (TakenBack(request, response) \ DOMAIN worker.assignments)

(* Events of the client (process_request).                                 *)
ClientEvent(event) ==
    /\ Running
    /\ client # NoClient
    /\ client.events # <<>>
    /\ Head(client.events).event = event

(* The responses kept are sent.  None are kept yet: see the README.        *)
ClientConnected ==
    /\ ClientEvent("Connected")
    /\ client' = [client EXCEPT !.events = Tail(@), !.connected = TRUE, !.buffer = <<>>]
    /\ UNCHANGED <<kind, worker, node_manager, stopped, deaths, asked, late, lost>>

ClientDisconnected ==
    /\ ClientEvent("Disconnected")
    /\ client' = [client EXCEPT !.events = Tail(@), !.connected = FALSE]
    /\ UNCHANGED <<kind, worker, node_manager, stopped, deaths, asked, late, lost>>

Processed(request) ==
    IF kind = "dll" THEN dll_process_request(worker, request)
    ELSE wasm_process_request(worker, request)

Held(w, key) ==
    /\ key \in DOMAIN w.assignments
    /\ w.assignments[key] \in DOMAIN w.executors
    /\ key \in InHand(w.executors[w.assignments[key]])

Queued(x) == Len(x.jobs) - (IF x.running THEN 1 ELSE 0)

(* The whole request is processed at once; start_job waits for room in the *)
(* channel to the executor.                                                *)
ClientMessage ==
    /\ ClientEvent("Message")
    /\ \E request \in {Head(client.events).request}, done \in {Processed(Head(client.events).request)} :
       LET w == done.worker
           linked == client.task = "serving"
       IN  /\ \A e \in DOMAIN w.executors : Queued(w.executors[e]) <= ChannelSize
           /\ worker' = w
           /\ client' = send([client EXCEPT !.events = Tail(@)], done.response)
           /\ asked' = Settle(done.response) \cup TakenBack(request, done.response)
           /\ late' = asked' \cap (late \cup TooLate(request, done.response))
           /\ lost' = DOMAIN w.assignments \cap
                ((lost \ Asks(request))
                    \cup {k \in Asks(request) : ~Contains(w.job_args, request.job)})
           /\ stopped' = IF w.panicked THEN "panic"
                         ELSE IF done.response # NoResponse /\ client.connected /\ ~linked THEN "error"
                         ELSE "no"
    /\ UNCHANGED <<kind, node_manager, deaths>>

(* worker.recv() in select!: one item of the stream of executor e.         *)
WorkerRecv(e) ==
    /\ Running
    /\ client # NoClient
    /\ \E done \in IF kind = "dll" THEN dll_process_message(worker, e)
                   ELSE wasm_process_message(worker, e) :
          /\ worker' = done.worker
          /\ client' = send(client, done.response)
          /\ asked' = Settle(done.response)
          /\ lost' = lost \cap DOMAIN done.worker.assignments
    /\ late' = late \cap asked'
    /\ UNCHANGED <<kind, node_manager, stopped, deaths>>

(* With no stream left recv() loops without ever yielding to the loop.     *)
WorkerSpins ==
    /\ Running
    /\ client # NoClient
    /\ \A e \in DOMAIN worker.executors : ~worker.executors[e].polled
    /\ stopped' = "hung"
    /\ UNCHANGED <<kind, worker, node_manager, client, deaths, asked, late, lost>>
-----------------------------------------------------------------------------
(* The executors. *)
Alive(e) == Running /\ worker.executors[e].alive

Becomes(e, x) ==
    /\ worker' = [worker EXCEPT !.executors[e] = x]
    /\ UNCHANGED <<kind, node_manager, client, stopped, deaths, asked, late>>

(* The tasks of executor e that it has no longer once it has become x.     *)
Drops(e, x) ==
    {k \in InHand(worker.executors[e]) \ InHand(x) :
        k \in DOMAIN worker.assignments /\ worker.assignments[k] = e}

ReceiveJob(e) ==
    LET x == worker.executors[e]
        y == IF kind = "dll" THEN recv_job(x) ELSE execute(x, worker.job_cache)
    IN  /\ Alive(e) /\ ~x.running /\ x.jobs # <<>>
        /\ Becomes(e, y)
        /\ lost' = lost \cup Drops(e, y)

FinishJob(e) ==
    LET x == worker.executors[e]
    IN  /\ Alive(e) /\ x.running
        /\ Len(x.results) < ChannelSize
        /\ Becomes(e, send_result(x))
        /\ UNCHANGED lost

Interrupt(e) ==
    LET x == worker.executors[e]
    IN  /\ Alive(e) /\ x.notified
        /\ Becomes(e, interrupted(x))
        /\ lost' = lost \cup Drops(e, interrupted(x))

(* The job's function may end the process. *)
ProcessDies(e) ==
    /\ kind = "dll" /\ Alive(e)
    /\ deaths < MaxDeaths
    /\ deaths' = deaths + 1
    /\ LET x == worker.executors[e] IN
       /\ worker' = [worker EXCEPT !.executors[e] = die(x)]
       /\ lost' = lost \cup (InHand(x) \cap DOMAIN worker.assignments)
    /\ UNCHANGED <<kind, node_manager, client, stopped, asked, late>>

Executors == \E e \in DOMAIN worker.executors :
    ReceiveJob(e) \/ FinishJob(e) \/ Interrupt(e) \/ ProcessDies(e)
-----------------------------------------------------------------------------
(* The task of the node manager's connection (connect_node_manager).       *)
NodeManagerTask(from, to, event) ==
    /\ Running
    /\ node_manager.task = from
    /\ Len(node_manager.events) < MaxEvents
    /\ node_manager' = [task |-> to, events |-> Append(node_manager.events, event)]
    /\ UNCHANGED <<kind, worker, client, stopped, deaths, asked, late, lost>>

connect_node_manager ==
    \/ NodeManagerTask("connecting", "serving", "Connected")
    \/ NodeManagerTask("connecting", "ended", "ConnectionNotEstablished")
    \/ NodeManagerTask("serving", "ended", "Disconnected")

NodeManagerSends ==
    \E event \in {"AssignClient", "UnassignClient"} : NodeManagerTask("serving", "serving", event)

(* The task of the client's connection (accept_client).  The end of the    *)
(* connection ends the task: the loop around wait_client is never resumed. *)
ClientTask(from, to, events) ==
    /\ Running
    /\ client # NoClient
    /\ client.task = from
    /\ Len(client.events) + Len(events) <= MaxEvents
    /\ client' = [client EXCEPT !.task = to, !.events = @ \o events]

accept_client ==
    /\ \/ ClientTask("waiting", "serving", <<[event |-> "Connected"]>>)
       \/ ClientTask("serving", "ended", <<[event |-> "Disconnected"]>>)
    /\ IF client.task = "serving" THEN Forgotten ELSE UNCHANGED <<asked, late>>
    /\ UNCHANGED <<kind, worker, node_manager, stopped, deaths, lost>>

(* wait_client fails, and the task ends without an event. *)
wait_client ==
    /\ ClientTask("waiting", "ended", <<>>)
    /\ UNCHANGED <<kind, worker, node_manager, stopped, deaths, asked, late, lost>>

(* Requests the loop has not read, and what they ask for and give up.      *)
Unread == {m.request : m \in {x \in ToSet(client.events) : x.event = "Message"}}
InFlight == UNION {Asks(r) : r \in Unread}
Giving == UNION {Gives(r) : r \in Unread}

(* A request names each task once. *)
WellFormed(r) ==
    /\ IsInjective(r.tasks)
    /\ \A i \in DOMAIN r.replacements :
          /\ ~Contains(r.tasks, r.replacements[i][2])
          /\ \A j \in DOMAIN r.replacements \ {i} :
                /\ r.replacements[i][1] # r.replacements[j][1]
                /\ r.replacements[i][2] # r.replacements[j][2]
    /\ Asks(r) \cap Gives(r) = {}

(* The client asks for tasks it does not wait for yet, possibly in place   *)
(* of tasks it waits for.                                                  *)
Requests ==
    {r \in [job : Jobs, job_data : BOOLEAN, replacements : BoundedSeq(Tasks \X Tasks, MaxReplaced),
            tasks : BoundedSeq(Tasks, MaxTasks)] :
        Len(r.tasks) + Len(r.replacements) \in 1 .. MaxTasks /\ WellFormed(r)}

ClientSends ==
    /\ client # NoClient /\ client.task = "serving" /\ Len(client.events) < MaxEvents
    /\ \E request \in Requests :
          /\ Asks(request) \cap (asked \cup Giving) = {}
          /\ Gives(request) \subseteq asked
          /\ ClientTask("serving", "serving", <<Message(request)>>)
          /\ asked' = (asked \ Gives(request)) \cup Asks(request)
          /\ late' = late \ Gives(request)
    /\ UNCHANGED <<kind, worker, node_manager, stopped, deaths, lost>>
-----------------------------------------------------------------------------
process_node_manager ==
    \/ ProcessConnected
    \/ ProcessDisconnected
    \/ AssignClient
    \/ UnassignClient
    \/ ConnectionNotEstablished

process_request == ClientConnected \/ ClientDisconnected \/ ClientMessage

Peers == connect_node_manager \/ NodeManagerSends \/ accept_client \/ wait_client \/ ClientSends

Next ==
    \/ process_node_manager
    \/ HeartbeatFails
    \/ process_request
    \/ \E e \in DOMAIN worker.executors : WorkerRecv(e)
    \/ WorkerSpins
    \/ Executors
    \/ Peers

Spec == Init /\ [][Next]_vars

(* select! chooses at random among what is ready, StreamMap among its      *)
(* streams; executors are scheduled by the system, and a job's function    *)
(* returns.                                                                *)
Fairness ==
    /\ WF_vars(process_node_manager)
    /\ WF_vars(process_request)
    /\ \A e \in 1 .. 2 * (NumExecutors + MaxDeaths) + 1 :
          /\ WF_vars(e \in DOMAIN worker.executors /\ WorkerRecv(e))
          /\ WF_vars(e \in DOMAIN worker.executors /\ (ReceiveJob(e) \/ FinishJob(e)))

FairSpec == Spec /\ Fairness
-----------------------------------------------------------------------------
(* Every executor of the worker is free or has one task assigned to it,    *)
(* never both and never twice, through restarts, aborts, replacements and  *)
(* resets; and a free process has nothing in its hands, so that a task     *)
(* given to it starts at once.                                             *)
ExecutorsConserved ==
    LET free == ToSet(worker.free_executors)
        busy == {k \in DOMAIN worker.assignments : worker.assignments[k] \in DOMAIN worker.executors}
        used == {worker.assignments[k] : k \in busy}
    IN  /\ DOMAIN worker.executors = free \cup used
        /\ free \cap used = {}
        /\ Cardinality(free) = Len(worker.free_executors)
        /\ Cardinality(used) = Cardinality(busy)
        /\ kind = "dll" => \A e \in free : InHand(worker.executors[e]) = {}

(* An assigned task is in the hands of its executor unless one of three    *)
(* things has happened to it: its process died, it was dropped by an abort *)
(* meant for the task before it, or the arguments of its job were evicted. *)
HeldUnlessLost ==
    Running => \A k \in DOMAIN worker.assignments : Held(worker, k) \/ k \in lost

(* While its client is connected, the tasks the client waits for are those *)
(* in requests not yet read and those assigned, but for those about to be  *)
(* replaced, and those that came to replace a task already answered, which *)
(* nobody will ever answer.  So no request is half forgotten, and no task  *)
(* of an earlier client is left.                                           *)
AskedAccounted ==
    Running /\ client # NoClient =>
        IF client.task = "serving"
        THEN asked = ((InFlight \cup DOMAIN worker.assignments) \ Giving) \cup late
        ELSE client.task = "waiting" => asked = {} /\ DOMAIN worker.assignments = {}

(* A task asked for is answered, refused, or no longer waited for, except  *)
(* the late and the lost ones and what a node that has stopped has left.   *)
TasksAnswered ==
    \A k \in Key : k \in asked ~> (k \notin asked \/ k \in late \cup lost \/ ~Running)
-----------------------------------------------------------------------------
(* The inductive invariant.                                                *)
(* An executor is free or has one task; a task has an executor of its own, *)
(* which may have died since.                                              *)
Orderly(w) ==
    /\ IsFiniteSet(DOMAIN w.executors) /\ IsFiniteSet(DOMAIN w.assignments)
    /\ IsInjective(w.free_executors) /\ IsInjective(w.assignments)
    /\ Range(w.free_executors) \cap Range(w.assignments) = {}
    /\ DOMAIN w.executors \subseteq Range(w.free_executors) \cup Range(w.assignments)
    /\ \A e \in DOMAIN w.executors : w.executors[e].running => w.executors[e].jobs # <<>>

(* A process holds at most the task assigned to it; threads never go.      *)
Hands(type, w) ==
    IF type = "dll"
    THEN \A e \in DOMAIN w.executors :
            LET x == w.executors[e]
            IN  /\ Len(x.jobs) + Len(x.results) <= 1
                /\ \A k \in InHand(x) : k \in DOMAIN w.assignments /\ w.assignments[k] = e
    ELSE Range(w.assignments) \subseteq DOMAIN w.executors

(* A result that a dead process has left is not waited for. *)
DeadLost ==
    Running /\ kind = "dll" =>
        \A k \in DOMAIN worker.assignments :
            LET e == worker.assignments[k]
            IN  e \in DOMAIN worker.executors /\ ~worker.executors[e].alive => k \in lost

(* The events of a client: none before it connects, and the first says so. *)
Sequel ==
    client # NoClient =>
        /\ client.task = "waiting" => client.events = <<>> /\ DOMAIN worker.assignments = {}
        /\ client.task = "serving" =>
             /\ \A i \in DOMAIN client.events : client.events[i].event # "Disconnected"
             /\ ~client.connected => /\ DOMAIN worker.assignments = {}
                                     /\ client.events # <<>> /\ client.events[1].event = "Connected"

(* The requests not read ask for different tasks, give up different tasks, *)
(* and ask for none that is assigned or was given up before.               *)
IsMessage(i) == client.events[i].event = "Message"
Distinct ==
    client # NoClient =>
        \A i, j \in DOMAIN client.events : IsMessage(i) /\ IsMessage(j) =>
            LET r == client.events[i].request
                q == client.events[j].request
            IN  /\ WellFormed(r)
                /\ Asks(r) \cap DOMAIN worker.assignments = {}
                /\ Asks(r) \cap late = {} /\ Gives(r) \cap late = {}
                /\ i # j => Asks(r) \cap Asks(q) = {} /\ Gives(r) \cap Gives(q) = {}
                /\ i <= j => Gives(r) \cap Asks(q) = {}

Asking ==
    IF client # NoClient /\ client.task = "serving"
    THEN asked = ((InFlight \cup DOMAIN worker.assignments) \ Giving) \cup late
    ELSE asked = {}

IInv ==
    /\ TypeOK
    /\ Orderly(worker) /\ Hands(kind, worker)
    /\ HeldUnlessLost
    /\ DeadLost
    /\ Sequel
    /\ Distinct
    /\ Asking
=============================================================================
