----------------------------- MODULE PathFinding -----------------------------
(***************************************************************************)
(* What a node computes for a task: the function job of the task manager's *)
(* job library (task_manager/job/src/path_finding.rs), and JobData with    *)
(* its check (shared/src/task_manager/job_data.rs).  A job's data are a    *)
(* graph, the vertex of each taxi, and the start and end of each           *)
(* passenger; all are numbered from 0.                                     *)
(***************************************************************************)
EXTENDS Integers, Sequences, SequencesExt, FiniteSets, FiniteSetsExt

CONSTANT NoEdge   \* u32::MAX

Visited == INSTANCE BitSet

Count(f) == Cardinality(DOMAIN f)
Listed(f) == [i \in 1 .. Count(f) |-> f[i - 1]]

(* JobData::validate. *)
validate(data) ==
    LET vertices == DOMAIN data.graph
    IN  /\ \A v \in vertices : Count(data.graph[v]) = Count(data.graph)
        /\ \A t \in DOMAIN data.taxies : data.taxies[t] \in vertices
        /\ \A p \in DOMAIN data.passengers :
              data.passengers[p][1] \in vertices /\ data.passengers[p][2] \in vertices

(* Addition of u32, which wraps in a release build. *)
Plus(a, b) == (a + b) % (NoEdge + 1)

(* The heap is the set of its pairs (distance, vertex), the least first.   *)
dijkstra(graph, start) ==
    LET V == DOMAIN graph
        Before(p, q) == p[1] < q[1] \/ (p[1] = q[1] /\ p[2] <= q[2])
        Visit(s, d, u) ==
            LET visited == s.visited \cup {u}
                nearer == {v \in V \ visited : graph[u][v] # NoEdge
                                                /\ Plus(d, graph[u][v]) < s.distances[v]}
            IN  [p_queue |-> (s.p_queue \ {<<d, u>>}) \cup {<<Plus(d, graph[u][v]), v>> : v \in nearer},
                 visited |-> visited,
                 distances |-> [v \in V |-> IF v \in nearer THEN Plus(d, graph[u][v])
                                             ELSE s.distances[v]]]
        Pop(s) ==
            LET least == CHOOSE p \in s.p_queue : \A q \in s.p_queue : Before(p, q)
            IN  IF s.p_queue = {} THEN s
                ELSE IF least[2] \in s.visited THEN [s EXCEPT !.p_queue = @ \ {least}]
                ELSE Visit(s, least[1], least[2])
        after[i \in 0 .. Cardinality(V)^2] ==
            IF i = 0
            THEN [p_queue |-> {<<0, start>>}, visited |-> {},
                  distances |-> [v \in V |-> IF v = start THEN 0 ELSE NoEdge]]
            ELSE Pop(after[i - 1])
    IN  after[Cardinality(V)^2].distances

(* The rows of the vertices that matter become shortest distances, one     *)
(* after the other: later searches run on the rows replaced before.        *)
reduce_graph(data) ==
    LET vertices == FlattenSeq(Listed(data.passengers)) \o Listed(data.taxies)
        Replace(acc, v) ==
            IF v \in acc.visited THEN acc
            ELSE [graph |-> [acc.graph EXCEPT ![v] = dijkstra(acc.graph, v)],
                  visited |-> acc.visited \cup {v}]
        reduced == FoldLeft(Replace, [graph |-> data.graph, visited |-> {}], vertices)
    IN  [data EXCEPT !.graph = reduced.graph]

(* Vertex 0 is the taxi, vertex i drives the i-th passenger home.          *)
TransformFromStart(data, taxi, passengers) ==
    LET g == data.graph
        len == Len(passengers)
        rider(i) == data.passengers[passengers[i]]
        Drive(from, i) == Plus(g[from][rider(i)[1]], g[rider(i)[1]][rider(i)[2]])
    IN  [i \in 0 .. len |-> [j \in 0 .. len |->
            CASE i = 0 /\ j = 0 -> 0
              [] i = 0 /\ j > 0 -> Drive(data.taxies[taxi], j)
              [] i > 0 /\ j = 0 -> NoEdge
              [] OTHER -> Drive(rider(i)[1], j)]]

transform_graph(data, taxi, passengers) ==
    LET g == data.graph
        len == Len(passengers)
        rider(i) == data.passengers[passengers[i]]
        Drive(from, i) == Plus(g[from][rider(i)[1]], g[rider(i)[1]][rider(i)[2]])
    IN  [i \in 0 .. len |-> [j \in 0 .. len |->
            CASE i = 0 /\ j = 0 -> 0
              [] i = 0 /\ j > 0 -> Drive(data.taxies[taxi], j)
              [] i > 0 /\ j = 0 -> NoEdge
              [] OTHER -> Drive(rider(i)[2], j)]]

(* The least way through all the vertices but 0, which is the start; the   *)
(* memo, whose values are those of the function, is left out.              *)
min_path(graph) ==
    LET V == DOMAIN graph
        best[i \in V, mask \in SUBSET V] ==
            IF mask = {} THEN 0 ELSE Min({best[j, mask \ {j}] + graph[i][j] : j \in mask})
    IN  best[0, V \ {0}]

(* The distance of the combination given by its two words. *)
job(data, taxi, words, w) ==
    min_path(transform_graph(reduce_graph(data), taxi, Visited!iter(Visited!from(words), w)))
-----------------------------------------------------------------------------
(* The reference: shortest walks of a graph by their number of edges, and  *)
(* the least drive of a taxi over the orders of its passengers.            *)
Shortest(graph) ==
    LET V == DOMAIN graph
        Edge(u, v) == IF u = v THEN 0 ELSE graph[u][v]
        within[k \in 0 .. Cardinality(V)] ==
            IF k = 0 THEN [u \in V |-> [v \in V |-> Edge(u, v)]]
            ELSE LET d == within[k - 1]
                 IN  [u \in V |-> [v \in V |-> Min({d[u][x] + Edge(x, v) : x \in V})]]
    IN  within[Cardinality(V)]

LeastDrive(data, taxi, S) ==
    LET d == Shortest(data.graph)
        Orders == SetToSeqs(S)
        From(order, i) == IF i = 1 THEN data.taxies[taxi] ELSE data.passengers[order[i - 1]][2]
        Driven(order) ==
            MapThenSumSet(LAMBDA i : LET p == data.passengers[order[i]]
                                     IN  d[From(order, i)][p[1]] + d[p[1]][p[2]],
                          DOMAIN order)
    IN  Min({Driven(order) : order \in Orders})
=============================================================================
