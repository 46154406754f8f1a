---------------------------- MODULE MCJobPipeline ----------------------------
(* Instances of JobPipeline.  `Square` has as many passengers as taxies.   *)
(* Graphs are strongly connected: a sum with a missing path wraps.         *)
EXTENDS JobPipeline

Data(graph, taxis, trips, w) ==
    [graph |-> graph, taxies |-> taxis, passengers |-> trips, word |-> w]

(* Graphs of the vertices V with weights in W. *)
Graphs(V, W) ==
    {g \in [V -> [V -> W \cup {NoEdge}]] :
        /\ \A v \in V : g[v][v] = NoEdge
        /\ LET d == Shortest(g) IN \A u, v \in V : d[u][v] < NoEdge}

From0(seq) == [i \in 0 .. Len(seq) - 1 |-> seq[i + 1]]

(* One taxi and one passenger anywhere; two and two on all small graphs.   *)
Ones ==
    {Data(g, From0(<<t>>), From0(<<p>>), 64) :
        g \in Graphs(0 .. 1, {1, 3}), t \in 0 .. 1, p \in (0 .. 1) \X (0 .. 1)}

Twos ==
    {Data(g, From0(<<0, 1>>), From0(<<<<1, 2>>, p>>), 64) :
        g \in Graphs(0 .. 2, {1, 4}), p \in {<<2, 0>>, <<0, 1>>}}

(* Three and three, on a ring and on a star, with words of two bits, so    *)
(* that tasks and combinations go beyond the first word.                   *)
Ring == [u \in 0 .. 3 |-> [v \in 0 .. 3 |-> IF v = (u + 1) % 4 THEN u + 1 ELSE NoEdge]]
Star == [u \in 0 .. 3 |-> [v \in 0 .. 3 |->
            IF u = v THEN NoEdge ELSE IF u = 0 \/ v = 0 THEN u + 2 * v ELSE 9]]
Threes == {Data(g, From0(<<0, 2, 3>>), From0(<<<<1, 3>>, <<3, 2>>, <<2, 0>>>>), 2) : g \in {Ring, Star}}

(* Not valid: the passenger goes beyond the graph. *)
Outside == {Data(Ring, From0(<<0>>), From0(<<<<1, 4>>>>), 64)}

Square == Ones \cup Twos \cup Threes \cup Outside

(* More taxies than passengers. *)
Wide == {Data(g, From0(<<0, 1>>), From0(<<<<0, 1>>>>), 64) : g \in Graphs(0 .. 1, {1})}
=============================================================================
