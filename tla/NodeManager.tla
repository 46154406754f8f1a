----------------------------- MODULE NodeManager -----------------------------
(***************************************************************************)
(* The event loop of the node manager (node_manager/src/node_manager.rs):  *)
(* it keeps the sessions of nodes and schedulers, queues the schedulers'   *)
(* demands and lends each worker to at most one scheduler.                 *)
(*                                                                         *)
(* `select!` runs one handler at a time to its end, so every handler is    *)
(* one action.  Each connection is served by a task of its own             *)
(* (handle_node, handle_scheduler) that turns it into events carrying the  *)
(* slab id the Connect event returned; a task whose worker has been        *)
(* dropped is cancelled and still sends its Disconnect, perhaps after the  *)
(* slab has given the id to somebody else.  A peer may open a new          *)
(* connection before the end of the old one is noticed, and what is sent   *)
(* to a connection that has ended is lost: nobody looks at the result of a *)
(* send.                                                                   *)
(*                                                                         *)
(* Time is left out: any entry of the delay queue may expire at any time,  *)
(* so a heartbeat only shows in the delay queue key it needs.  The slabs   *)
(* hand out any vacant key.                                                *)
(***************************************************************************)
EXTENDS Collections

CONSTANTS
    Nodes, Schedulers,          \* uuids of the peers
    WorkerIds, SchedulerIds,    \* slab keys
    Keys,                       \* delay queue keys
    Platforms,
    Required,                   \* values of required_workers
    AnyNumber,                  \* required_workers == None
    Demanded,                   \* values of supported_platforms
    MaxLinks,                   \* bound: connections of one peer
    Frail                       \* bound: peers whose connection may end unnoticed

Unassigned == "unassigned"   \* assigned == None

ASSUME NodeManagerAssumption ==
    /\ IsFiniteSet(WorkerIds)
    /\ Nodes \cap Schedulers = {}
    /\ Required \subseteq Nat \cup {AnyNumber}
    /\ AnyNumber \notin Nat
    /\ Demanded \subseteq SUBSET Platforms
    /\ MaxLinks \in Nat
    /\ Unassigned \notin SchedulerIds

VARIABLES
    status,                \* "running", or "panicked"
    schedulers,            \* Slab<Scheduler>
    workers,               \* Slab<Node>
    demands,               \* workers_demands_queue, by scheduler id
    order,                 \* and the order of its entries
    unassigned_workers,    \* LinkedVecSet, in order
    expirations,           \* DelayQueue: key -> what expires
    disconnected,          \* uuid -> (id, key) of the session kept for it
    notified,              \* need_process_queue holds a permit
    node_links,            \* connections of nodes, each with its slab id
    scheduler_links        \* connections of schedulers

pool == <<schedulers, workers, demands, order, unassigned_workers>>
sessions == <<expirations, disconnected>>
network == <<node_links, scheduler_links>>
vars == <<status, pool, sessions, notified, network>>

Empty == [x \in {} |-> 0]

(* The entries of a list at some positions, in order.                      *)
Nth(I, k) == CHOOSE i \in I : Cardinality({j \in I : j <= i}) = k
Picked(s, I) == [k \in 1 .. Cardinality(I) |-> s[Nth(I, k)]]

Running == status = "running"
Panic ==
    /\ status' = "panicked"
    /\ UNCHANGED <<pool, sessions, notified, network>>

(* The numbers a new connection of peer u may take. *)
FreeLinks(links, u) == {c \in 1 .. MaxLinks : \A l \in links : <<l.uuid, l.number>> # <<u, c>>}
-----------------------------------------------------------------------------
Init ==
    /\ status = "running"
    /\ schedulers = Empty
    /\ workers = Empty
    /\ demands = Empty
    /\ order = <<>>
    /\ unassigned_workers = <<>>
    /\ expirations = Empty
    /\ disconnected = Empty
    /\ notified = FALSE
    /\ node_links = {}
    /\ scheduler_links = {}

(* The connection behind the sink has ended and its Disconnect event is    *)
(* not read yet.                                                           *)
Unreachable(peer) == ~peer.offline /\ peer.ended

(* Scheduler::send.  `heard` is what the peer knows from the messages it   *)
(* got: a scheduler its workers, a node its client.  With the messages in  *)
(* disconnect_buffer it would know `pending`.  A message takes away the    *)
(* workers `gone` and adds the workers `come`.                             *)
SchedulerTold(peer, gone, come) ==
    CASE peer.offline -> [peer EXCEPT !.pending = (@ \ gone) \cup come]
      [] Unreachable(peer) -> peer
      [] OTHER -> LET known == (peer.heard \ gone) \cup come
                  IN  [peer EXCEPT !.heard = known, !.pending = known]

(* Node::send. *)
NodeTold(peer, client) ==
    CASE peer.offline -> [peer EXCEPT !.pending = client]
      [] Unreachable(peer) -> peer
      [] OTHER -> [peer EXCEPT !.heard = client, !.pending = client]

(* A connection breaks down.  What was sent on it and had not arrived is   *)
(* as lost as what is sent later: the end counts from the first message    *)
(* that does not arrive.                                                   *)
NodeConnectionEnds(w) ==
    /\ Running
    /\ workers[w].uuid \in Frail
    /\ ~workers[w].offline /\ ~workers[w].ended
    /\ workers' = [workers EXCEPT ![w].ended = TRUE]
    /\ UNCHANGED <<status, schedulers, demands, order, unassigned_workers, sessions,
                   notified, network>>

SchedulerConnectionEnds(s) ==
    /\ Running
    /\ schedulers[s].uuid \in Frail
    /\ ~schedulers[s].offline /\ ~schedulers[s].ended
    /\ schedulers' = [schedulers EXCEPT ![s].ended = TRUE]
    /\ UNCHANGED <<status, workers, demands, order, unassigned_workers, sessions,
                   notified, network>>

(* The buffer is emptied into the new connection; if that one ends first,  *)
(* the messages are `lost`.                                                *)
RestoredWithoutBuffer(peer, lost) == [peer EXCEPT !.offline = FALSE, !.ended = lost]
Restored(peer, lost) ==
    LET known == IF lost THEN peer.heard ELSE peer.pending
    IN  [peer EXCEPT !.offline = FALSE, !.ended = lost, !.heard = known, !.pending = known]

(* disconnect_buffer = Some(Vec::new()), whatever the old buffer held. *)
Disconnected(peer) ==
    [peer EXCEPT !.offline = TRUE, !.ended = FALSE, !.pending = peer.heard]
-----------------------------------------------------------------------------
(* process_node. *)

NodeSession(u, p, key) ==
    [uuid |-> u, platform |-> p, assigned |-> Unassigned, key |-> key, offline |-> FALSE,
     ended |-> FALSE, heard |-> Unassigned, pending |-> Unassigned]

NewNode(u, p, c) ==
    /\ u \notin DOMAIN disconnected
    /\ \E id \in WorkerIds \ DOMAIN workers, key \in Keys \ DOMAIN expirations :
          /\ expirations' = With(expirations, key, [type |-> "node", id |-> id])
          /\ workers' = With(workers, id, NodeSession(u, p, key))
          /\ unassigned_workers' = Append(Drop(unassigned_workers, id), id)
          /\ node_links' = node_links \cup {[uuid |-> u, number |-> c, id |-> id]}
    /\ notified' = TRUE
    /\ UNCHANGED <<status, schedulers, demands, order, disconnected, scheduler_links>>

(* The session goes on under its old id; the delay queue refuses a key it  *)
(* does not hold.                                                          *)
restore_node_session(u, c) ==
    /\ u \in DOMAIN disconnected
    /\ LET s == disconnected[u]
       IN  IF s.id \notin DOMAIN workers \/ s.key \notin DOMAIN expirations
           THEN Panic
           ELSE /\ \E lost \in BOOLEAN :
                      /\ lost => u \in Frail
                      /\ workers' = [workers EXCEPT ![s.id] = Restored(@, lost)]
                /\ disconnected' = Without(disconnected, u)
                /\ node_links' = node_links \cup {[uuid |-> u, number |-> c, id |-> s.id]}
                /\ UNCHANGED <<status, schedulers, demands, order, unassigned_workers,
                               expirations, notified, scheduler_links>>

NodeConnect(u, p) ==
    /\ Running
    /\ \E c \in FreeLinks(node_links, u) : NewNode(u, p, c) \/ restore_node_session(u, c)

(* NodeEvent::Disconnect(id), whoever holds the id by now. *)
NodeDisconnect(link) ==
    /\ Running
    /\ node_links' = node_links \ {link}
    /\ IF link.id \in DOMAIN workers
       THEN LET node == workers[link.id]
            IN  /\ disconnected' = With(disconnected, node.uuid,
                                        [id |-> link.id, key |-> node.key])
                /\ workers' = [workers EXCEPT ![link.id] = Disconnected(@)]
       ELSE UNCHANGED <<disconnected, workers>>
    /\ UNCHANGED <<status, schedulers, demands, order, unassigned_workers, expirations,
                   notified, scheduler_links>>

(* A heartbeat resets its timer: with no timer under the key it panics.    *)
HeartbeatPanics(link) ==
    /\ Running
    /\ link.id \in DOMAIN workers
    /\ workers[link.id].key \notin DOMAIN expirations
    /\ Panic
-----------------------------------------------------------------------------
(* process_expiration. *)

ProvidedAfterLossUnchanged(s) == demands
ProvidedAfterLoss(s) ==
    IF s \in DOMAIN demands
    THEN [demands EXCEPT ![s].provided_workers = @ - 1] ELSE demands

SessionKeptAfterLoss(id) == disconnected
SessionsAfterLoss(id) == Without(disconnected, workers[id].uuid)

process_node_disconnection(id) ==
    IF id \notin DOMAIN workers
    THEN UNCHANGED <<pool, disconnected, notified>>
    ELSE LET s == workers[id].assigned
             held == s \in DOMAIN schedulers /\ id \in Range(schedulers[s].assigned_workers)
         IN  /\ workers' = Without(workers, id)
             /\ disconnected' = SessionsAfterLoss(id)
             /\ unassigned_workers' =
                   IF s = Unassigned THEN Drop(unassigned_workers, id) ELSE unassigned_workers
             /\ IF held
                THEN /\ schedulers' = [schedulers EXCEPT ![s] =
                           SchedulerTold([schedulers[s] EXCEPT !.assigned_workers = Drop(@, id)],
                                         {id}, {})]
                     /\ demands' = ProvidedAfterLoss(s)
                     /\ notified' = TRUE
                ELSE UNCHANGED <<schedulers, demands, notified>>
             /\ UNCHANGED order

(* The arm for schedulers cancels the connection of the node that has the  *)
(* scheduler's id in the other slab, which may break down at any time here *)
(* anyway; scheduler, demand and session stay.                             *)
process_expiration(key) ==
    /\ Running
    /\ expirations' = Without(expirations, key)
    /\ \/ /\ expirations[key].type = "node"
          /\ process_node_disconnection(expirations[key].id)
       \/ /\ expirations[key].type = "scheduler"
          /\ UNCHANGED <<pool, disconnected, notified>>
    /\ UNCHANGED <<status, network>>
-----------------------------------------------------------------------------
(* process_scheduler. *)

NewScheduler(u, c) ==
    /\ u \notin DOMAIN disconnected
    /\ \E id \in SchedulerIds \ DOMAIN schedulers :
          /\ schedulers' = With(schedulers, id,
                [uuid |-> u, assigned_workers |-> <<>>, offline |-> FALSE,
                 ended |-> FALSE, heard |-> {}, pending |-> {}])
          /\ scheduler_links' = scheduler_links \cup {[uuid |-> u, number |-> c, id |-> id]}
    /\ UNCHANGED <<status, workers, demands, order, unassigned_workers, sessions,
                   notified, node_links>>

restore_scheduler_session(u, c) ==
    /\ u \in DOMAIN disconnected
    /\ LET s == disconnected[u]
       IN  IF s.id \notin DOMAIN schedulers \/ s.key \notin DOMAIN expirations
           THEN Panic
           ELSE /\ expirations' = Without(expirations, s.key)
                /\ disconnected' = Without(disconnected, u)
                /\ \E lost \in BOOLEAN :
                      /\ lost => u \in Frail
                      /\ schedulers' = [schedulers EXCEPT ![s.id] = Restored(@, lost)]
                /\ scheduler_links' = scheduler_links \cup {[uuid |-> u, number |-> c, id |-> s.id]}
                /\ UNCHANGED <<status, workers, demands, order, unassigned_workers,
                               notified, node_links>>

SchedulerConnect(u) ==
    /\ Running
    /\ \E c \in FreeLinks(scheduler_links, u) : NewScheduler(u, c) \/ restore_scheduler_session(u, c)

SchedulerDisconnect(link) ==
    /\ Running
    /\ scheduler_links' = scheduler_links \ {link}
    /\ \E key \in Keys \ DOMAIN expirations :
          /\ expirations' = With(expirations, key, [type |-> "scheduler", id |-> link.id])
          /\ disconnected' = With(disconnected, schedulers[link.id].uuid,
                                 [id |-> link.id, key |-> key])
    /\ schedulers' = [schedulers EXCEPT ![link.id] = Disconnected(@)]
    /\ UNCHANGED <<status, workers, demands, order, unassigned_workers, notified, node_links>>

(* release_workers of everything the scheduler holds. *)
ReleaseKeepsAssigned(id) == NodeTold(workers[id], Unassigned)
release_worker(id) == NodeTold([workers[id] EXCEPT !.assigned = Unassigned], Unassigned)
release_workers(s) ==
    LET held == schedulers[s].assigned_workers
        released == Picked(held, {i \in DOMAIN held : held[i] \in DOMAIN workers})
    IN  /\ workers' = [w \in DOMAIN workers |->
              IF w \in Range(released) THEN release_worker(w) ELSE workers[w]]
        /\ unassigned_workers' = unassigned_workers \o released
        /\ schedulers' = [schedulers EXCEPT ![s].assigned_workers = <<>>,
                                            ![s].heard = {}, ![s].pending = {}]

(* The permit left by a new demand. *)
DemandUnnoticed == notified
DemandNoticed == TRUE

(* The scheduler drops all its workers as it sends the demand or releases  *)
(* it, so from then on it knows none.                                      *)
WorkersDemand(link, required, platforms) ==
    LET s == link.id
    IN  /\ Running
        /\ demands' = With(demands, s, [provided_workers |-> 0, required_workers |-> required,
                                        supported_platforms |-> platforms])
        /\ order' = Append(Drop(order, s), s)
        /\ IF s \in DOMAIN demands
           THEN release_workers(s)
           ELSE /\ schedulers' = [schedulers EXCEPT ![s].heard = {}, ![s].pending = {}]
                /\ UNCHANGED <<workers, unassigned_workers>>
        /\ notified' = DemandNoticed
        /\ UNCHANGED <<status, sessions, network>>

ReleaseDemand(link) ==
    LET s == link.id
    IN  /\ Running
        /\ demands' = Without(demands, s)
        /\ order' = Drop(order, s)
        /\ IF s \in DOMAIN demands
           THEN release_workers(s)
           ELSE /\ schedulers' = [schedulers EXCEPT ![s].heard = {}, ![s].pending = {}]
                /\ UNCHANGED <<workers, unassigned_workers>>
        /\ notified' = TRUE
        /\ UNCHANGED <<status, sessions, network>>
-----------------------------------------------------------------------------
(* process_queue: the workers are lent in order, each to the first demand  *)
(* in the queue that accepts it, until the first worker that nobody        *)
(* accepts.  given[i] is the scheduler that gets the i-th worker.          *)
Accepts(s, provided, w) ==
    /\ demands[s].required_workers # provided
    /\ workers[w].platform \in demands[s].supported_platforms

FirstAccepting(s, provided, w) ==
    \E i \in 1 .. Len(order) :
        /\ order[i] = s
        /\ Accepts(s, provided[s], w)
        /\ \A j \in 1 .. i - 1 : ~Accepts(order[j], provided[order[j]], w)

NobodyAccepts(provided, w) == \A s \in DOMAIN demands : ~Accepts(s, provided[s], w)

Provided(given, n) ==
    [s \in DOMAIN demands |->
        demands[s].provided_workers + Cardinality({j \in 1 .. n : given[j] = s})]

LendableButLast(given) ==
    LET n == Len(given)
    IN  /\ \A i \in 1 .. n :
             FirstAccepting(given[i], Provided(given, i - 1), unassigned_workers[i])
        /\ n < Len(unassigned_workers) - 1 =>
             NobodyAccepts(Provided(given, n), unassigned_workers[n + 1])
Lendable(given) ==
    LET n == Len(given)
    IN  /\ \A i \in 1 .. n :
             FirstAccepting(given[i], Provided(given, i - 1), unassigned_workers[i])
        /\ n < Len(unassigned_workers) =>
             NobodyAccepts(Provided(given, n), unassigned_workers[n + 1])

Lent(given, s) == Picked(unassigned_workers, {i \in 1 .. Len(given) : given[i] = s})

ProvidedBeforeLending(given, s) == demands[s].provided_workers
ProvidedAfterLending(given, s) == demands[s].provided_workers + Len(Lent(given, s))

process_queue ==
    /\ Running
    /\ notified
    /\ notified' = FALSE
    /\ \E n \in 0 .. Len(unassigned_workers) : \E given \in [1 .. n -> DOMAIN demands] :
          /\ Lendable(given)
          /\ unassigned_workers' = SubSeq(unassigned_workers, n + 1, Len(unassigned_workers))
          /\ demands' = [s \in DOMAIN demands |->
                [demands[s] EXCEPT !.provided_workers = ProvidedAfterLending(given, s)]]
          /\ schedulers' = [s \in DOMAIN schedulers |->
                SchedulerTold([schedulers[s] EXCEPT !.assigned_workers = @ \o Lent(given, s)],
                              {}, Range(Lent(given, s)))]
          /\ workers' = [w \in DOMAIN workers |->
                IF \E i \in 1 .. n : unassigned_workers[i] = w
                THEN LET s == given[CHOOSE i \in 1 .. n : unassigned_workers[i] = w]
                     IN  NodeTold([workers[w] EXCEPT !.assigned = s], s)
                ELSE workers[w]]
    /\ UNCHANGED <<status, order, sessions, network>>
-----------------------------------------------------------------------------
Next ==
    \/ \E u \in Nodes, p \in Platforms : NodeConnect(u, p)
    \/ \E link \in node_links : NodeDisconnect(link) \/ HeartbeatPanics(link)
    \/ \E key \in DOMAIN expirations : process_expiration(key)
    \/ \E u \in Schedulers : SchedulerConnect(u)
    \/ \E link \in scheduler_links :
          \/ SchedulerDisconnect(link)
          \/ \E required \in Required, platforms \in Demanded :
                WorkersDemand(link, required, platforms)
          \/ ReleaseDemand(link)
    \/ process_queue
    \/ \E w \in DOMAIN workers : NodeConnectionEnds(w)
    \/ \E s \in DOMAIN schedulers : SchedulerConnectionEnds(s)

Spec == Init /\ [][Next]_vars

(* select! polls its branches in random order, so a handler that stays     *)
(* ready is chosen in the end.                                             *)
FairSpec == Spec /\ WF_vars(process_queue)
-----------------------------------------------------------------------------
(* Types of the node manager's state (struct NodeManager, Node, Scheduler, *)
(* WorkersDemand); the counter of lent workers is unsigned.                *)
TypeOK ==
    /\ status \in {"running", "panicked"}
    /\ DOMAIN schedulers \subseteq SchedulerIds
    /\ \A s \in DOMAIN schedulers :
         schedulers[s] \in [uuid: Schedulers, assigned_workers: Seq(WorkerIds),
                            offline: BOOLEAN, ended: BOOLEAN, heard: SUBSET WorkerIds,
                            pending: SUBSET WorkerIds]
    /\ DOMAIN workers \subseteq WorkerIds
    /\ \A w \in DOMAIN workers :
         workers[w] \in [uuid: Nodes, platform: Platforms, key: Keys, offline: BOOLEAN,
                         ended: BOOLEAN, assigned: SchedulerIds \cup {Unassigned},
                         heard: SchedulerIds \cup {Unassigned},
                         pending: SchedulerIds \cup {Unassigned}]
    /\ DOMAIN demands \subseteq SchedulerIds
    /\ \A s \in DOMAIN demands :
         demands[s] \in [provided_workers: Nat, required_workers: Required,
                         supported_platforms: SUBSET Platforms]
    /\ order \in Seq(SchedulerIds)
    /\ unassigned_workers \in Seq(WorkerIds)
    /\ DOMAIN expirations \subseteq Keys
    /\ DOMAIN disconnected \subseteq Nodes \cup Schedulers
    /\ notified \in BOOLEAN

(* Each worker is lent to one scheduler or waits in line, never both and   *)
(* never twice, and nobody holds a worker that is gone: whatever mixture   *)
(* of expirations, repeated demands, releases and slab id reuse there was. *)
EachWorkerOnce ==
    /\ IsInjective(unassigned_workers)
    /\ Range(unassigned_workers) = {w \in DOMAIN workers : workers[w].assigned = Unassigned}
    /\ \A s \in DOMAIN schedulers :
         /\ IsInjective(schedulers[s].assigned_workers)
         /\ Range(schedulers[s].assigned_workers) = {w \in DOMAIN workers : workers[w].assigned = s}

(* A demand counts exactly the workers it was given, never more than it    *)
(* asked for, and workers are lent on a demand only: provided_workers does *)
(* not wrap below zero when workers expire.                                *)
DemandsExact ==
    /\ \A s \in DOMAIN demands :
         LET given == Len(schedulers[s].assigned_workers)
         IN  /\ demands[s].provided_workers = given
             /\ demands[s].required_workers # AnyNumber => given <= demands[s].required_workers
    /\ \A s \in DOMAIN schedulers \ DOMAIN demands : schedulers[s].assigned_workers = <<>>
    /\ Range(order) = DOMAIN demands /\ IsInjective(order)

(* No wake-up is lost: when no pass over the queue is due, the first       *)
(* waiting worker fits no demand, because every handler that changes       *)
(* either side notifies.  The one step that breaks this is the expiry of   *)
(* the first waiting worker itself, which brings the next one to the head  *)
(* of the line without a notification (process_node_disconnection).        *)
HeadServable ==
    /\ Running
    /\ unassigned_workers # <<>>
    /\ ~NobodyAccepts(Provided(<<>>, 0), Head(unassigned_workers))
Overslept == HeadServable /\ ~notified
WakeupsKept ==
    [][~Overslept /\ Overslept' => Head(unassigned_workers) \notin DOMAIN workers']_vars

(* A scheduler knows the workers lent to it, or will know them when it     *)
(* comes back.  Sends that fail go unnoticed (Scheduler::send), so only    *)
(* the end of its connection, from then until its Disconnect is read or    *)
(* while the buffered messages are sent again, can change that: no reset   *)
(* of the buffer, no return, release or reuse of an id does, and from its  *)
(* next demand on the scheduler is right again.                            *)
SchedulerInformed(s) ==
    Range(schedulers[s].assigned_workers) =
        IF schedulers[s].offline THEN schedulers[s].pending ELSE schedulers[s].heard
SchedulersInformed ==
    [][\A s \in DOMAIN schedulers' :
          (s \in DOMAIN schedulers => SchedulerInformed(s)) /\ ~SchedulerInformed(s)' =>
             Unreachable(schedulers'[s])]_vars

(* A node knows, or will know when it comes back, which scheduler it works *)
(* for, until messages to it are lost: because its connection has ended,   *)
(* or by a second Disconnect while the first one is still in force, which  *)
(* is the late one of a connection that had the slab id before and empties *)
(* the buffer (Node::send, NodeEvent::Disconnect).                         *)
NodeInformed(w) ==
    workers[w].assigned = IF workers[w].offline THEN workers[w].pending ELSE workers[w].heard
NodesInformed ==
    [][\A w \in DOMAIN workers' :
          (w \in DOMAIN workers => NodeInformed(w)) /\ ~NodeInformed(w)' =>
             \/ Unreachable(workers'[w])
             \/ /\ w \in DOMAIN workers /\ workers[w].offline /\ workers'[w].offline
                /\ node_links' # node_links]_vars

(* The session kept for a peer that lost its connection is that peer's     *)
(* own: a reconnect never finds the id of a session that is gone or has    *)
(* passed to somebody else (Slab indexing in restore_*_session).           *)
SessionsKept ==
    \A u \in DOMAIN disconnected :
        LET id == disconnected[u].id
        IN  \/ u \in Nodes /\ id \in DOMAIN workers /\ workers[id].uuid = u
            \/ u \in Schedulers /\ id \in DOMAIN schedulers /\ schedulers[id].uuid = u

(* Once notified, the manager lends the first waiting worker if somebody   *)
(* accepts it, or the worker or the demand goes away.                      *)
HeadServed == notified /\ HeadServable ~> ~HeadServable

(* The session of a disconnected scheduler is kept for as long as its      *)
(* timeout runs and no longer (--scheduler_timeout, process_expiration).   *)
TimeoutEndsSession ==
    \A u \in DOMAIN disconnected :
        u \in Schedulers => disconnected[u].key \in DOMAIN expirations
-----------------------------------------------------------------------------
(* The inductive invariant of the proofs.  Workers are lent to, and        *)
(* demands made by, schedulers that exist; a session kept is that of an    *)
(* offline peer; and a scheduler has one connection as long as it is       *)
(* online, so that its Disconnect never finds messages in the buffer.      *)
PoolKnown ==
    /\ \A w \in DOMAIN workers : workers[w].assigned \in DOMAIN schedulers \cup {Unassigned}
    /\ DOMAIN demands \subseteq DOMAIN schedulers
KeptOffline ==
    \A u \in DOMAIN disconnected :
        LET id == disconnected[u].id
        IN  (u \in Nodes => workers[id].offline) /\ (u \in Schedulers => schedulers[id].offline)
OneConnection ==
    /\ \A l \in scheduler_links : l.id \in DOMAIN schedulers /\ ~schedulers[l.id].offline
    /\ \A l, m \in scheduler_links : l.id = m.id => l = m
IInv ==
    /\ TypeOK
    /\ PoolKnown
    /\ EachWorkerOnce
    /\ DemandsExact
    /\ SessionsKept
    /\ KeptOffline
    /\ OneConnection
=============================================================================
