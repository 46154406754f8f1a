------------------------------ MODULE NodeProofs ------------------------------
(***************************************************************************)
(* Proofs about module Node: its executors are conserved, an assigned task *)
(* is in the hands of its executor unless it was lost, and what the client *)
(* waits for is accounted for, for any number of executors, jobs, tasks    *)
(* and waiting events.                                                     *)
(*                                                                         *)
(* The invariant (IInv, in Node) is preserved by every action.  What the   *)
(* actions do to the worker comes first: Good is the part of the invariant *)
(* that is about the worker alone, Apart the same with one executor taken  *)
(* out, as every operation does on the way, and Moved what a sequence of   *)
(* assignments may change.                                                 *)
(***************************************************************************)
EXTENDS Node, Basics

-----------------------------------------------------------------------------
(* Maps. *)
LEMMA MapWith ==
  ASSUME NEW f, NEW K, NEW V, IsMap(f, K, V), NEW x \in K, NEW v \in V
  PROVE  IsMap(With(f, x, v), K, V)
BY DEF IsMap, With

LEMMA MapWithout ==
  ASSUME NEW f, NEW K, NEW V, IsMap(f, K, V), NEW x
  PROVE  IsMap(Without(f, x), K, V)
BY DEF IsMap, Without

LEMMA MapExcept ==
  ASSUME NEW f, NEW K, NEW V, IsMap(f, K, V), NEW x, NEW v \in V
  PROVE  IsMap([f EXCEPT ![x] = v], K, V)
<1> DEFINE g == [f EXCEPT ![x] = v]
<1>1. f = [y \in DOMAIN f |-> f[y]] /\ \A y \in DOMAIN f : y \in K /\ f[y] \in V
  BY DEF IsMap
<1>2. g = [y \in DOMAIN f |-> IF y = x THEN v ELSE f[y]]
  BY <1>1
<1>3. DOMAIN g = DOMAIN f /\ \A y \in DOMAIN f : g[y] = IF y = x THEN v ELSE f[y]
  BY <1>2
<1>4. g = [y \in DOMAIN g |-> g[y]]
  BY <1>2
<1> HIDE DEF g
<1> QED BY <1>1, <1>3, <1>4 DEF IsMap

(* An injective map with a new value for a new key, or a key less.         *)
LEMMA InjectiveWith ==
  ASSUME NEW f, IsInjective(f), NEW x, x \notin DOMAIN f, NEW v, v \notin Range(f)
  PROVE  IsInjective(With(f, x, v)) /\ Range(With(f, x, v)) = Range(f) \cup {v}
BY DEF IsInjective, With, Range

LEMMA InjectiveWithout ==
  ASSUME NEW f, IsInjective(f), NEW x \in DOMAIN f
  PROVE  IsInjective(Without(f, x)) /\ Range(Without(f, x)) = Range(f) \ {f[x]}
BY DEF IsInjective, Without, Range

LEMMA EmptyIs == DOMAIN Empty = {} /\ Range(Empty) = {} /\ IsInjective(Empty)
                    /\ \A K, V : IsMap(Empty, K, V)
BY DEF Empty, Range, IsInjective, IsMap
-----------------------------------------------------------------------------
(* The worker: its record, and the record with some fields changed.        *)
LEMMA Fields ==
  ASSUME NEW w, IsWorker(w)
  PROVE  /\ \A f : [w EXCEPT !.free_executors = f] =
                    [free_executors |-> f, assignments |-> w.assignments, executors |-> w.executors,
                     job_cache |-> w.job_cache, job_args |-> w.job_args, panicked |-> w.panicked]
         /\ \A a : [w EXCEPT !.assignments = a] =
                    [free_executors |-> w.free_executors, assignments |-> a, executors |-> w.executors,
                     job_cache |-> w.job_cache, job_args |-> w.job_args, panicked |-> w.panicked]
         /\ \A x : [w EXCEPT !.executors = x] =
                    [free_executors |-> w.free_executors, assignments |-> w.assignments, executors |-> x,
                     job_cache |-> w.job_cache, job_args |-> w.job_args, panicked |-> w.panicked]
         /\ \A c : [w EXCEPT !.job_args = c] =
                    [free_executors |-> w.free_executors, assignments |-> w.assignments,
                     executors |-> w.executors,
                     job_cache |-> w.job_cache, job_args |-> c, panicked |-> w.panicked]
         /\ \A c : [w EXCEPT !.job_cache = c] =
                    [free_executors |-> w.free_executors, assignments |-> w.assignments,
                     executors |-> w.executors,
                     job_cache |-> c, job_args |-> w.job_args, panicked |-> w.panicked]
         /\ \A p : [w EXCEPT !.panicked = p] =
                    [free_executors |-> w.free_executors, assignments |-> w.assignments,
                     executors |-> w.executors,
                     job_cache |-> w.job_cache, job_args |-> w.job_args, panicked |-> p]
BY DEF IsWorker

LEMMA TwoFields ==
  ASSUME NEW w, IsWorker(w)
  PROVE  /\ \A x, f : [w EXCEPT !.executors = x, !.free_executors = f] =
                    [free_executors |-> f, assignments |-> w.assignments, executors |-> x,
                     job_cache |-> w.job_cache, job_args |-> w.job_args, panicked |-> w.panicked]
         /\ \A c, g : [w EXCEPT !.job_cache = c, !.job_args = g] =
                    [free_executors |-> w.free_executors, assignments |-> w.assignments,
                     executors |-> w.executors, job_cache |-> c, job_args |-> g,
                     panicked |-> w.panicked]
<1>1. ASSUME NEW x, NEW f
      PROVE  [w EXCEPT !.executors = x, !.free_executors = f] =
                    [free_executors |-> f, assignments |-> w.assignments, executors |-> x,
                     job_cache |-> w.job_cache, job_args |-> w.job_args, panicked |-> w.panicked]
  <2> DEFINE u == [w EXCEPT !.executors = x]
  <2>1. u = [free_executors |-> w.free_executors, assignments |-> w.assignments, executors |-> x,
             job_cache |-> w.job_cache, job_args |-> w.job_args, panicked |-> w.panicked]
    BY Fields
  <2>2. [w EXCEPT !.executors = x, !.free_executors = f] = [u EXCEPT !.free_executors = f]
    OBVIOUS
  <2> HIDE DEF u
  <2> QED BY <2>1, <2>2
<1>2. ASSUME NEW c, NEW g
      PROVE  [w EXCEPT !.job_cache = c, !.job_args = g] =
                    [free_executors |-> w.free_executors, assignments |-> w.assignments,
                     executors |-> w.executors, job_cache |-> c, job_args |-> g,
                     panicked |-> w.panicked]
  <2> DEFINE u == [w EXCEPT !.job_cache = c]
  <2>1. u = [free_executors |-> w.free_executors, assignments |-> w.assignments,
             executors |-> w.executors, job_cache |-> c, job_args |-> w.job_args,
             panicked |-> w.panicked]
    BY Fields
  <2>2. [w EXCEPT !.job_cache = c, !.job_args = g] = [u EXCEPT !.job_args = g]
    OBVIOUS
  <2> HIDE DEF u
  <2> QED BY <2>1, <2>2
<1> QED BY <1>1, <1>2

LEMMA IsAWorker ==
  ASSUME NEW f, NEW a, NEW x, NEW c, NEW g, NEW p \in BOOLEAN,
         IsMap(x, Nat, Executor), IsMap(a, Key, Nat), f \in Seq(DOMAIN x),
         c \in Seq(Jobs), Len(c) <= CacheSize, g \in Seq(Jobs), Len(g) <= CacheSize
  PROVE  IsWorker([free_executors |-> f, assignments |-> a, executors |-> x,
                   job_cache |-> c, job_args |-> g, panicked |-> p])
BY DEF IsWorker

LEMMA WorkerTypes ==
  ASSUME NEW w, IsWorker(w)
  PROVE  /\ IsMap(w.executors, Nat, Executor) /\ IsMap(w.assignments, Key, Nat)
         /\ DOMAIN w.executors \subseteq Nat /\ DOMAIN w.assignments \subseteq Key
         /\ \A e \in DOMAIN w.executors : w.executors[e] \in Executor
         /\ \A k \in DOMAIN w.assignments : w.assignments[k] \in Nat
         /\ Range(w.assignments) \subseteq Nat
         /\ w.free_executors \in Seq(DOMAIN w.executors)
         /\ Range(w.free_executors) \subseteq DOMAIN w.executors
         /\ w.job_cache \in Seq(Jobs) /\ Len(w.job_cache) <= CacheSize
         /\ w.job_args \in Seq(Jobs) /\ Len(w.job_args) <= CacheSize
         /\ w.panicked \in BOOLEAN
<1>1. /\ IsMap(w.executors, Nat, Executor) /\ IsMap(w.assignments, Key, Nat)
      /\ w.free_executors \in Seq(DOMAIN w.executors)
      /\ w.job_cache \in Seq(Jobs) /\ Len(w.job_cache) <= CacheSize
      /\ w.job_args \in Seq(Jobs) /\ Len(w.job_args) <= CacheSize
      /\ w.panicked \in BOOLEAN
  BY DEF IsWorker
<1>2. /\ DOMAIN w.executors \subseteq Nat /\ DOMAIN w.assignments \subseteq Key
      /\ \A e \in DOMAIN w.executors : w.executors[e] \in Executor
      /\ \A k \in DOMAIN w.assignments : w.assignments[k] \in Nat
      /\ Range(w.assignments) \subseteq Nat
  BY <1>1 DEF IsMap, Range
<1>3. Range(w.free_executors) \subseteq DOMAIN w.executors
  <2> DEFINE s == w.free_executors
             E == DOMAIN w.executors
  <2>1. s \in Seq(E)
    BY <1>1
  <2> HIDE DEF s, E
  <2>2. \A i \in DOMAIN s : s[i] \in E
    BY <2>1, LenProperties, ElementOfSeq
  <2>3. Range(s) \subseteq E
    BY <2>2 DEF Range
  <2> QED BY <2>3 DEF s, E
<1> QED BY <1>1, <1>2, <1>3

LEMMA ExecutorIs ==
  ASSUME NEW x \in Executor
  PROVE  /\ x.jobs \in Seq(Key) /\ x.results \in Seq(Key)
         /\ x.running \in BOOLEAN /\ x.alive \in BOOLEAN /\ x.polled \in BOOLEAN
         /\ x.notified \in BOOLEAN
         /\ (InHand(x) = {} => x.jobs = <<>> /\ x.results = <<>>)
         /\ (Len(x.jobs) + Len(x.results) = 0 => InHand(x) = {})
<1>1. x.jobs \in Seq(Key) /\ x.results \in Seq(Key) /\ x.running \in BOOLEAN
      /\ x.alive \in BOOLEAN /\ x.polled \in BOOLEAN /\ x.notified \in BOOLEAN
  BY DEF Executor
<1>2. ASSUME NEW s \in Seq(Key) PROVE (ToSet(s) = {} <=> s = <<>>) /\ (Len(s) = 0 <=> s = <<>>)
  <2>1. Len(s) \in Nat /\ DOMAIN s = 1 .. Len(s)
    BY LenProperties
  <2>2. CASE Len(s) = 0
    <3>1. s = <<>>
      BY <2>2, EmptySeq
    <3>2. DOMAIN s = {}
      BY <2>1, <2>2
    <3>3. ToSet(s) = {}
      BY <3>2 DEF ToSet
    <3> QED BY <2>2, <3>1, <3>3
  <2>3. CASE Len(s) # 0
    <3>1. 1 \in DOMAIN s
      BY <2>1, <2>3
    <3> QED BY <2>1, <2>3, <3>1, EmptySeq DEF ToSet
  <2> QED BY <2>2, <2>3
<1>3. Len(x.jobs) \in Nat /\ Len(x.results) \in Nat
  BY <1>1, LenProperties
<1>4. InHand(x) = {} => x.jobs = <<>> /\ x.results = <<>>
  BY <1>1, <1>2 DEF InHand
<1>5. ASSUME Len(x.jobs) + Len(x.results) = 0 PROVE InHand(x) = {}
  <2>1. Len(x.jobs) = 0 /\ Len(x.results) = 0
    <3>1. ASSUME NEW a \in Nat, NEW b \in Nat, a + b = 0 PROVE a = 0 /\ b = 0
      BY <3>1
    <3> QED BY <1>3, <1>5, <3>1
  <2>2. ToSet(x.jobs) = {} /\ ToSet(x.results) = {}
    BY <1>1, <1>2, <2>1
  <2> QED BY <2>2 DEF InHand
<1> QED BY <1>1, <1>4, <1>5

LEMMA IdleIs == Idle \in Executor /\ InHand(Idle) = {} /\ ~Idle.running /\ Idle.alive
                   /\ Len(Idle.jobs) + Len(Idle.results) <= 1
<1>1. <<>> \in Seq(Key) /\ ToSet(<<>>) = {} /\ Len(<<>>) = 0
  BY EmptySeq DEF ToSet
<1> QED BY <1>1 DEF Idle, Executor, InHand
-----------------------------------------------------------------------------
(* The caches. *)
LEMMA PromoteIs ==
  ASSUME NEW c \in Seq(Jobs), NEW job \in Jobs
  PROVE  /\ Promote(c, job) \in Seq(Jobs)
         /\ Contains(c, job) => Len(Promote(c, job)) = Len(c)
         /\ \A j : Contains(Promote(c, job), j) <=> Contains(c, j) \/ j = job
<1> DEFINE d == Drop(c, job)
           p == Promote(c, job)
           h == <<job>>
<1>1. /\ d \in Seq(Jobs) /\ Range(d) \subseteq Range(c) /\ Range(c) \ {job} \subseteq Range(d)
      /\ Len(d) = (IF job \in Range(c) THEN Len(c) - 1 ELSE Len(c))
      /\ Len(c) \in Nat /\ Len(d) \in Nat /\ DOMAIN c = 1 .. Len(c) /\ DOMAIN d = 1 .. Len(d)
  BY DropOne, LenProperties
<1>2. p = h \o d /\ h \in Seq(Jobs) /\ Len(h) = 1 /\ h[1] = job
  BY DEF Promote
<1> HIDE DEF d, p, h
<1>3. p \in Seq(Jobs) /\ Len(p) = 1 + Len(d)
      /\ \A i \in 1 .. 1 + Len(d) : p[i] = IF i <= 1 THEN h[i] ELSE d[i - 1]
  <2>1. /\ p \in Seq(Jobs) /\ Len(p) = Len(h) + Len(d)
        /\ \A i \in 1 .. Len(h) + Len(d) : p[i] = IF i <= Len(h) THEN h[i] ELSE d[i - Len(h)]
    <3>1. h \in Seq(Jobs) /\ d \in Seq(Jobs)
      BY <1>1, <1>2
    <3>2. p = h \o d
      BY SMTT(30), <1>2
    <3> QED BY ONLY SMTT(30), <3>1, <3>2, ConcatProperties
  <2>2. Len(h) = 1 /\ Len(d) \in Nat
    BY <1>1, <1>2
  <2> QED BY ONLY <2>1, <2>2
<1>4. \A j : Contains(c, j) <=> j \in Range(c)
  BY <1>1 DEF Contains, Range
<1>5. Len(d) \in Nat /\ DOMAIN d = 1 .. Len(d) /\ p[1] = job
      /\ \A i \in 1 .. Len(d) : p[i + 1] = d[i]
  <2>1. Len(d) \in Nat /\ DOMAIN d = 1 .. Len(d) /\ h[1] = job
    BY <1>1, <1>2
  <2>2. p[1] = h[1]
    BY ONLY <1>3, <2>1
  <2>3. ASSUME NEW i \in 1 .. Len(d) PROVE p[i + 1] = d[i]
    <3>1. i + 1 \in 1 .. 1 + Len(d) /\ ~(i + 1 <= 1) /\ (i + 1) - 1 = i
      BY ONLY <2>1, <2>3
    <3> QED BY ONLY <1>3, <3>1
  <2> QED BY SMTT(30), <2>1, <2>2, <2>3
<1>6. \A j : Contains(p, j) <=> j = job \/ j \in Range(d)
  <2> TAKE j
  <2>1. ASSUME NEW i \in 1 .. 1 + Len(d) PROVE i = 1 \/ (i - 1 \in 1 .. Len(d) /\ (i - 1) + 1 = i)
    BY ONLY <1>5, <2>1
  <2>2. ASSUME NEW i \in 1 .. Len(d) PROVE i + 1 \in 1 .. 1 + Len(d)
    BY ONLY <1>5, <2>2
  <2>3. 1 \in 1 .. 1 + Len(d)
    BY ONLY <1>5
  <2>4. Contains(p, j) <=> \E i \in 1 .. 1 + Len(d) : p[i] = j
    BY ONLY <1>3 DEF Contains
  <2>5. j \in Range(d) <=> \E i \in 1 .. Len(d) : d[i] = j
    BY ONLY <1>5 DEF Range
  <2>6. ASSUME Contains(p, j) PROVE j = job \/ j \in Range(d)
    <3>1. PICK i \in 1 .. 1 + Len(d) : p[i] = j
      BY <2>4, <2>6
    <3>2. i = 1 \/ (p[i] = d[i - 1] /\ i - 1 \in 1 .. Len(d))
      BY ONLY <1>5, <2>1, <3>1
    <3> QED BY ONLY <1>5, <2>5, <3>1, <3>2
  <2>7. j = job => Contains(p, j)
    BY ONLY <1>5, <2>3, <2>4
  <2>8. ASSUME j \in Range(d) PROVE Contains(p, j)
    <3>1. PICK i \in 1 .. Len(d) : d[i] = j
      BY <2>5, <2>8
    <3>2. p[i + 1] = j /\ i + 1 \in 1 .. 1 + Len(d)
      BY ONLY <1>5, <2>2, <3>1
    <3> QED BY ONLY <2>4, <3>2
  <2> QED BY <2>6, <2>7, <2>8
<1>7. ASSUME Contains(c, job) PROVE Len(p) = Len(c)
  <2>1. Len(d) = Len(c) - 1 /\ Len(c) \in Nat
    BY ZenonT(30), <1>1, <1>4, <1>7
  <2> QED BY ONLY SMTT(30), <1>3, <2>1
<1>8. \A j : Contains(p, j) <=> Contains(c, j) \/ j = job
  <2>1. Range(d) \subseteq Range(c) /\ Range(c) \ {job} \subseteq Range(d)
    BY <1>1
  <2> QED BY ONLY SMTT(30), <1>4, <1>6, <2>1
<1> QED BY <1>3, <1>7, <1>8 DEF p

LEMMA PushIs ==
  ASSUME NEW c \in Seq(Jobs), NEW job \in Jobs
  PROVE  Push(c, job) \in Seq(Jobs) /\ Len(Push(c, job)) <= CacheSize
<1> DEFINE p == Promote(c, job)
           n == Len(p)
           m == Min({CacheSize, n})
<1>1. p \in Seq(Jobs) /\ n \in Nat /\ DOMAIN p = 1 .. n
  BY PromoteIs, LenProperties
<1>2. Push(c, job) = SubSeq(p, 1, m)
  BY DEF Push
<1> HIDE DEF p, n
<1>3. m \in Nat /\ m <= n /\ m <= CacheSize
  <2>1. CacheSize \in Nat
    BY WorkerAssumption
  <2>2. \E x \in {CacheSize, n} : \A y \in {CacheSize, n} : x <= y
    BY <1>1, <2>1
  <2> QED BY <1>1, <2>1, <2>2 DEF Min
<1> HIDE DEF m
<1>4. \A i \in 1 .. m : p[i] \in Jobs
  BY <1>1, <1>3, ElementOfSeq DEF n
<1>5. SubSeq(p, 1, m) \in Seq(Jobs) /\ Len(SubSeq(p, 1, m)) = m
  BY <1>1, <1>3, <1>4, SubSeqProperties DEF n
<1> QED BY <1>2, <1>3, <1>5
-----------------------------------------------------------------------------
(* A number for a new process. *)
LEMMA NextIdIs ==
  ASSUME NEW w, IsFiniteSet(DOMAIN w.executors), IsFiniteSet(DOMAIN w.assignments)
  PROVE  /\ NextId(w) \in Nat
         /\ NextId(w) \notin DOMAIN w.executors /\ NextId(w) \notin Range(w.assignments)
<1> DEFINE E == DOMAIN w.executors
           R == Range(w.assignments)
           a == Cardinality(E)
           b == Cardinality(DOMAIN w.assignments)
           I == 1 .. a + b + 1
           T == I \ (E \cup R)
<1>1. IsFiniteSet(R) /\ Cardinality(R) <= b
  BY FiniteRange
<1>2. a \in Nat /\ b \in Nat /\ Cardinality(R) \in Nat
  BY <1>1, FS_CardinalityType
<1>3. /\ IsFiniteSet(E \cup R) /\ Cardinality(E \cup R) \in Nat
      /\ Cardinality(E \cup R) <= a + b
  <2>1. /\ IsFiniteSet(E \cup R)
        /\ Cardinality(E \cup R) = Cardinality(E) + Cardinality(R) - Cardinality(E \cap R)
    BY <1>1, FS_Union
  <2>2. Cardinality(E \cap R) \in Nat
    BY <1>1, FS_Intersection, FS_CardinalityType
  <2>3. Cardinality(E \cup R) \in Nat
    BY <2>1, FS_CardinalityType
  <2> HIDE DEF E, R
  <2> QED BY <1>1, <1>2, <2>1, <2>2, <2>3
<1>4. IsFiniteSet(I) /\ Cardinality(I) = a + b + 1
  <2>1. a + b + 1 \in Int /\ 1 <= a + b + 1
    BY <1>2
  <2> HIDE DEF a, b
  <2>2. /\ IsFiniteSet(1 .. a + b + 1)
        /\ Cardinality(1 .. a + b + 1) = IF 1 > a + b + 1 THEN 0 ELSE (a + b + 1) - 1 + 1
    BY <2>1, FS_Interval
  <2> QED BY <1>2, <2>1, <2>2
<1>5. T # {}
  <2> SUFFICES ASSUME I \subseteq E \cup R PROVE FALSE
    OBVIOUS
  <2>1. Cardinality(I) <= Cardinality(E \cup R)
    BY <1>3, FS_Subset
  <2> HIDE DEF I, E, R, a, b
  <2> QED BY <1>2, <1>3, <1>4, <2>1
<1>6. T \subseteq Nat
  BY <1>2
<1>7. NextId(w) = CHOOSE x \in T : \A y \in T : x <= y
  BY DEF NextId, Min
<1>8. NextId(w) \in T
  <2> HIDE DEF T
  <2>1. \E m \in T : \A x \in T : m <= x
    BY <1>5, <1>6, LeastNatural
  <2> QED BY <1>7, <2>1
<1> QED BY <1>6, <1>8
-----------------------------------------------------------------------------
(* The invariant of a worker; the same while executor e is neither free    *)
(* nor assigned; and what may change while the tasks of news, all of one   *)
(* job, are assigned: the executors of other tasks are left alone, and a   *)
(* new task is in the hands of its executor unless the arguments of the    *)
(* job are missing.                                                        *)
Good(type, w) == IsWorker(w) /\ Orderly(w) /\ Hands(type, w)

Apart(type, w, e) ==
    /\ IsWorker(w) /\ Hands(type, w)
    /\ IsFiniteSet(DOMAIN w.executors) /\ IsFiniteSet(DOMAIN w.assignments)
    /\ IsInjective(w.free_executors) /\ IsInjective(w.assignments)
    /\ Range(w.free_executors) \cap Range(w.assignments) = {}
    /\ DOMAIN w.executors \subseteq Range(w.free_executors) \cup Range(w.assignments) \cup {e}
    /\ e \in DOMAIN w.executors
    /\ e \notin Range(w.free_executors) /\ e \notin Range(w.assignments)
    /\ \A x \in DOMAIN w.executors : w.executors[x].running => w.executors[x].jobs # <<>>

Same(w, v, k) ==
    /\ k \in DOMAIN w.assignments
    /\ v.assignments[k] = w.assignments[k]
    /\ w.assignments[k] \in DOMAIN w.executors <=> w.assignments[k] \in DOMAIN v.executors
    /\ w.assignments[k] \in DOMAIN w.executors =>
         v.executors[w.assignments[k]] = w.executors[w.assignments[k]]

Started(w, k, job) ==
    /\ w.assignments[k] \in DOMAIN w.executors
    /\ \/ w.panicked
       \/ ~Contains(w.job_args, job)
       \/ /\ k \in InHand(w.executors[w.assignments[k]])
          /\ w.executors[w.assignments[k]].alive

Moved(w, v, job, news) ==
    /\ \A k \in DOMAIN v.assignments : k \notin news => Same(w, v, k)
    /\ \A k \in DOMAIN v.assignments : k \in news => Started(v, k, job)
    /\ Contains(v.job_args, job) <=> Contains(w.job_args, job)
    /\ w.panicked => v.panicked

LEMMA MovedTwice ==
  ASSUME NEW w, NEW u, NEW v, NEW job, NEW M, NEW N,
         Moved(w, u, job, M), Moved(u, v, job, N)
  PROVE  Moved(w, v, job, M \cup N)
<1>1. ASSUME NEW k \in DOMAIN v.assignments, k \notin M \cup N PROVE Same(w, v, k)
  <2>1. Same(u, v, k) /\ k \in DOMAIN u.assignments
    BY <1>1 DEF Moved, Same
  <2>2. Same(w, u, k)
    BY <1>1, <2>1 DEF Moved
  <2> QED BY <2>1, <2>2 DEF Same
<1>2. ASSUME NEW k \in DOMAIN v.assignments, k \in N PROVE Started(v, k, job)
  BY <1>2 DEF Moved
<1>3. ASSUME NEW k \in DOMAIN v.assignments, k \in M, k \notin N PROVE Started(v, k, job)
  <2>1. Same(u, v, k) /\ k \in DOMAIN u.assignments
    BY <1>3 DEF Moved, Same
  <2>2. Started(u, k, job)
    BY <1>3, <2>1 DEF Moved
  <2>3. (Contains(v.job_args, job) <=> Contains(u.job_args, job)) /\ (u.panicked => v.panicked)
    BY DEF Moved
  <2> QED BY <2>1, <2>2, <2>3 DEF Same, Started
<1>4. (Contains(v.job_args, job) <=> Contains(w.job_args, job)) /\ (w.panicked => v.panicked)
  BY DEF Moved
<1> QED BY <1>1, <1>2, <1>3, <1>4 DEF Moved

LEMMA MovedNot ==
  ASSUME NEW w, NEW job, NEW N, N \cap DOMAIN w.assignments = {}
  PROVE  Moved(w, w, job, N)
BY DEF Moved, Same

LEMMA GoodIs ==
  ASSUME NEW type, NEW w, Good(type, w)
  PROVE  /\ IsWorker(w) /\ Hands(type, w)
         /\ IsFiniteSet(DOMAIN w.executors) /\ IsFiniteSet(DOMAIN w.assignments)
         /\ IsInjective(w.free_executors) /\ IsInjective(w.assignments)
         /\ Range(w.free_executors) \cap Range(w.assignments) = {}
         /\ DOMAIN w.executors \subseteq Range(w.free_executors) \cup Range(w.assignments)
         /\ \A e \in DOMAIN w.executors : w.executors[e].running => w.executors[e].jobs # <<>>
BY DEF Good, Orderly

(* What is in no process: no task is in the hands of one that has none.    *)
LEMMA NothingInHand ==
  ASSUME NEW w, Hands("dll", w), NEW e \in DOMAIN w.executors, e \notin Range(w.assignments)
  PROVE  InHand(w.executors[e]) = {}
BY DEF Hands, Range
-----------------------------------------------------------------------------
(* An executor changed. *)
LEMMA SetExecutorIs ==
  ASSUME NEW w, IsWorker(w), NEW e \in DOMAIN w.executors, NEW x \in Executor
  PROVE  LET v == [w EXCEPT !.executors = [w.executors EXCEPT ![e] = x]]
         IN  /\ IsWorker(v)
             /\ v.free_executors = w.free_executors /\ v.assignments = w.assignments
             /\ v.job_cache = w.job_cache /\ v.job_args = w.job_args /\ v.panicked = w.panicked
             /\ DOMAIN v.executors = DOMAIN w.executors
             /\ v.executors[e] = x
             /\ \A y \in DOMAIN w.executors \ {e} : v.executors[y] = w.executors[y]
<1> DEFINE X == [w.executors EXCEPT ![e] = x]
           v == [w EXCEPT !.executors = X]
<1>1. v = [free_executors |-> w.free_executors, assignments |-> w.assignments, executors |-> X,
           job_cache |-> w.job_cache, job_args |-> w.job_args, panicked |-> w.panicked]
  BY Fields
<1>2. IsMap(X, Nat, Executor)
  BY WorkerTypes, MapExcept
<1>3. /\ DOMAIN X = DOMAIN w.executors /\ X[e] = x
      /\ \A y \in DOMAIN w.executors \ {e} : X[y] = w.executors[y]
  OBVIOUS
<1> HIDE DEF X, v
<1>4. IsWorker(v)
  BY <1>1, <1>2, <1>3, WorkerTypes, IsAWorker
<1> QED BY <1>1, <1>3, <1>4 DEF v, X

LEMMA AppendJob ==
  ASSUME NEW x \in Executor, NEW key \in Key
  PROVE  LET y == [x EXCEPT !.jobs = Append(x.jobs, key)]
         IN  /\ y \in Executor /\ InHand(y) = InHand(x) \cup {key}
             /\ y.jobs # <<>> /\ y.alive = x.alive /\ y.running = x.running
             /\ x.jobs = <<>> /\ x.results = <<>> => Len(y.jobs) + Len(y.results) <= 1
<1> DEFINE s == Append(x.jobs, key)
           y == [x EXCEPT !.jobs = s]
<1>1. x.jobs \in Seq(Key) /\ x.results \in Seq(Key)
  BY ExecutorIs
<1>2. s \in Seq(Key) /\ Len(s) = Len(x.jobs) + 1 /\ Len(x.jobs) \in Nat
  BY <1>1, AppendProperties, LenProperties
<1>3. ToSet(s) = ToSet(x.jobs) \cup {key}
  <2>1. Range(s) = Range(x.jobs) \cup {key}
    BY <1>1, AppendIs
  <2> QED BY <2>1 DEF ToSet, Range
<1>4. s # <<>>
  BY <1>1, <1>2, AppendProperties
<1> HIDE DEF s
<1>5. /\ y \in Executor /\ y.jobs = s /\ y.results = x.results /\ y.alive = x.alive
      /\ y.running = x.running
  BY <1>2 DEF Executor
<1> HIDE DEF y
<1>6. x.jobs = <<>> /\ x.results = <<>> => Len(y.jobs) + Len(y.results) <= 1
  <2> SUFFICES ASSUME x.jobs = <<>>, x.results = <<>> PROVE Len(y.jobs) + Len(y.results) <= 1
    OBVIOUS
  <2>1. Len(<<>>) = 0
    OBVIOUS
  <2>2. Len(y.jobs) = 1 /\ Len(y.results) = 0
    BY <1>2, <1>5, <2>1
  <2> QED BY <2>2
<1> QED BY <1>3, <1>4, <1>5, <1>6 DEF InHand, y, s
-----------------------------------------------------------------------------
(* assign_task, field by field, and what it does to the invariant.         *)
LEMMA AssignIs ==
  ASSUME NEW w, IsWorker(w), NEW e \in DOMAIN w.executors, NEW key \in Key
  PROVE  LET v == assign_task(w, e, key)
             x == w.executors[e]
             args == Contains(w.job_args, key[1])
         IN  /\ IsWorker(v)
             /\ v.free_executors = w.free_executors
             /\ v.assignments = With(w.assignments, key, e)
             /\ v.executors = IF args /\ x.alive
                              THEN [w.executors EXCEPT ![e] = [x EXCEPT !.jobs = Append(x.jobs, key)]]
                              ELSE w.executors
             /\ \A j : Contains(v.job_args, j) <=> Contains(w.job_args, j)
             /\ (w.panicked \/ (args /\ ~x.alive)) => v.panicked
<1> DEFINE x == w.executors[e]
           y == [x EXCEPT !.jobs = Append(x.jobs, key)]
           A == With(w.assignments, key, e)
           args == Contains(w.job_args, key[1])
           G == Promote(w.job_args, key[1])
           X == [w.executors EXCEPT ![e] = y]
           v == assign_task(w, e, key)
           R(ex, g, p) == [free_executors |-> w.free_executors, assignments |-> A, executors |-> ex,
                           job_cache |-> w.job_cache, job_args |-> g, panicked |-> p]
<1>1. key[1] \in Jobs
  BY DEF Key
<1>2. x \in Executor /\ e \in Nat /\ IsMap(A, Key, Nat)
  BY WorkerTypes, MapWith
<1>3. y \in Executor
  BY <1>2, AppendJob
<1>4. IsMap(X, Nat, Executor) /\ DOMAIN X = DOMAIN w.executors
  BY <1>3, WorkerTypes, MapExcept
<1>5. args => G \in Seq(Jobs) /\ Len(G) <= CacheSize
              /\ \A j : Contains(G, j) <=> Contains(w.job_args, j)
  BY <1>1, WorkerTypes, PromoteIs
<1>6. ASSUME NEW g, NEW ex, NEW p \in BOOLEAN, g \in Seq(Jobs), Len(g) <= CacheSize,
             IsMap(ex, Nat, Executor), DOMAIN ex = DOMAIN w.executors
      PROVE  IsWorker(R(ex, g, p))
  <2> HIDE DEF A
  <2> QED BY <1>2, <1>6, WorkerTypes, IsAWorker
<1>7. /\ v = IF ~args THEN R(w.executors, w.job_args, w.panicked)
             ELSE IF x.alive THEN R(X, G, w.panicked)
             ELSE R(w.executors, G, TRUE)
  <2> DEFINE a == [w EXCEPT !.assignments = A]
             b == [a EXCEPT !.job_args = G]
  <2>1. a = R(w.executors, w.job_args, w.panicked)
    BY Fields
  <2>2. b = R(w.executors, G, w.panicked)
    <3> HIDE DEF a, A, G
    <3> QED BY <2>1
  <2>3. ASSUME args
        PROVE  start_job(b, e, key) = IF x.alive THEN R(X, G, w.panicked) ELSE R(w.executors, G, TRUE)
    <3>1. /\ b.executors = w.executors /\ b.free_executors = w.free_executors /\ b.assignments = A
          /\ b.job_cache = w.job_cache /\ b.job_args = G /\ b.panicked = w.panicked
      <4> HIDE DEF b, A, G
      <4> QED BY <2>2
    <3>2. IsWorker(b)
      <4>1. w.panicked \in BOOLEAN /\ IsMap(w.executors, Nat, Executor)
        BY WorkerTypes
      <4> HIDE DEF b, A, G, args, R
      <4> QED BY <1>5, <1>6, <2>2, <2>3, <4>1
    <3>3. start_job(b, e, key) = IF b.executors[e].alive
             THEN [b EXCEPT !.executors = [b.executors EXCEPT ![e] =
                       [b.executors[e] EXCEPT !.jobs = Append(b.executors[e].jobs, key)]]]
             ELSE [b EXCEPT !.panicked = TRUE]
      <4> HIDE DEF b
      <4> QED BY DEF start_job
    <3> HIDE DEF b, A, G
    <3>4. [b EXCEPT !.executors = X] = R(X, G, w.panicked)
      <4> HIDE DEF X
      <4> QED BY <3>1, <3>2, Fields
    <3>5. ASSUME NEW p PROVE [b EXCEPT !.panicked = p] = R(w.executors, G, p)
      BY <3>1, <3>2, Fields
    <3>6. [b EXCEPT !.panicked = TRUE] = R(w.executors, G, TRUE)
      BY <3>5, Zenon
    <3> HIDE DEF R
    <3> QED BY <3>1, <3>3, <3>4, <3>6
  <2>4. (args => v = start_job(b, e, key)) /\ (~args => v = a)
    BY Zenon DEF assign_task
  <2> HIDE DEF a, b, A, G, v, x, X, args
  <2>5. CASE args
    BY <2>3, <2>4, <2>5
  <2>6. CASE ~args
    BY <2>1, <2>4, <2>6
  <2> QED BY <2>5, <2>6
<1>8. w.job_args \in Seq(Jobs) /\ Len(w.job_args) <= CacheSize /\ w.panicked \in BOOLEAN
      /\ IsMap(w.executors, Nat, Executor)
  BY WorkerTypes
<1> HIDE DEF A, G, X, v, args, y, x
<1>9. CASE ~args
  <2>1. v = R(w.executors, w.job_args, w.panicked)
    BY <1>7, <1>9
  <2>2. IsWorker(v)
    BY <1>6, <1>8, <2>1
  <2> QED BY <1>9, <2>1, <2>2 DEF A, v, args, x
<1>10. CASE args /\ x.alive
  <2>1. v = R(X, G, w.panicked)
    BY <1>7, <1>10
  <2>2. IsWorker(v)
    BY <1>4, <1>5, <1>6, <1>8, <1>10, <2>1
  <2>3. \A j : Contains(v.job_args, j) <=> Contains(w.job_args, j)
    BY <1>5, <1>10, <2>1
  <2> QED BY <1>10, <2>1, <2>2, <2>3 DEF A, v, args, x, X, y
<1>11. CASE args /\ ~x.alive
  <2>1. v = R(w.executors, G, TRUE)
    BY <1>7, <1>11
  <2>2. IsWorker(v)
    BY <1>4, <1>5, <1>6, <1>8, <1>11, <2>1
  <2>3. \A j : Contains(v.job_args, j) <=> Contains(w.job_args, j)
    BY <1>5, <1>11, <2>1
  <2> QED BY <1>11, <2>1, <2>2, <2>3 DEF A, v, args, x
<1>12. args \/ ~args
  OBVIOUS
<1> QED BY <1>9, <1>10, <1>11, <1>12

(* One task assigned: the tasks assigned are then those of keys. *)
Turned(type, w, v, job, key, keys) ==
    /\ Good(type, v) /\ Moved(w, v, job, {key})
    /\ DOMAIN v.assignments = keys

LEMMA AssignGood ==
  ASSUME NEW type, NEW w, NEW e, Apart(type, w, e), NEW key \in Key,
         key \notin DOMAIN w.assignments
  PROVE  Turned(type, w, assign_task(w, e, key), key[1], key, DOMAIN w.assignments \cup {key})
<1> DEFINE v == assign_task(w, e, key)
           x == w.executors[e]
           y == [x EXCEPT !.jobs = Append(x.jobs, key)]
           args == Contains(w.job_args, key[1])
<1>1. /\ IsWorker(w) /\ Hands(type, w)
      /\ IsFiniteSet(DOMAIN w.executors) /\ IsFiniteSet(DOMAIN w.assignments)
      /\ IsInjective(w.free_executors) /\ IsInjective(w.assignments)
      /\ Range(w.free_executors) \cap Range(w.assignments) = {}
      /\ DOMAIN w.executors \subseteq Range(w.free_executors) \cup Range(w.assignments) \cup {e}
      /\ e \in DOMAIN w.executors
      /\ e \notin Range(w.free_executors) /\ e \notin Range(w.assignments)
      /\ \A z \in DOMAIN w.executors : w.executors[z].running => w.executors[z].jobs # <<>>
  BY DEF Apart
<1>2. /\ IsWorker(v)
      /\ v.free_executors = w.free_executors
      /\ v.assignments = With(w.assignments, key, e)
      /\ v.executors = (IF args /\ x.alive THEN [w.executors EXCEPT ![e] = y] ELSE w.executors)
      /\ \A j : Contains(v.job_args, j) <=> Contains(w.job_args, j)
      /\ (w.panicked \/ (args /\ ~x.alive)) => v.panicked
  BY <1>1, AssignIs
<1>3. x \in Executor
  BY <1>1, WorkerTypes
<1>4. /\ y \in Executor /\ InHand(y) = InHand(x) \cup {key}
      /\ y.jobs # <<>> /\ y.alive = x.alive
      /\ (x.jobs = <<>> /\ x.results = <<>> => Len(y.jobs) + Len(y.results) <= 1)
  BY <1>3, AppendJob
<1>5. type = "dll" => InHand(x) = {} /\ x.jobs = <<>> /\ x.results = <<>>
  BY <1>1, <1>3, NothingInHand, ExecutorIs
<1>6. /\ DOMAIN v.assignments = DOMAIN w.assignments \cup {key}
      /\ v.assignments[key] = e
      /\ \A k \in DOMAIN w.assignments : v.assignments[k] = w.assignments[k]
      /\ \A k \in DOMAIN w.assignments : w.assignments[k] # e
  <2> HIDE DEF v
  <2>1. \A k \in DOMAIN w.assignments : w.assignments[k] # e
    BY <1>1 DEF Range
  <2>2. v.assignments = With(w.assignments, key, e)
    BY <1>2
  <2>3. /\ DOMAIN v.assignments = DOMAIN w.assignments \cup {key}
        /\ v.assignments[key] = e
        /\ \A k \in DOMAIN w.assignments \ {key} : v.assignments[k] = w.assignments[k]
    <3> DEFINE a == w.assignments
               b == v.assignments
    <3>1. b = With(a, key, e)
      BY <2>2
    <3> HIDE DEF a, b
    <3>2. /\ DOMAIN b = DOMAIN a \cup {key} /\ b[key] = e
          /\ \A k \in DOMAIN a \ {key} : b[k] = a[k]
      BY <3>1 DEF With
    <3> QED BY <3>2 DEF a, b
  <2> QED BY <2>1, <2>3
<1>7. IsInjective(v.assignments) /\ Range(v.assignments) = Range(w.assignments) \cup {e}
  BY <1>1, <1>2, InjectiveWith
<1> HIDE DEF v, y, args
<1>8. /\ DOMAIN v.executors = DOMAIN w.executors
      /\ \A z \in DOMAIN w.executors \ {e} : v.executors[z] = w.executors[z]
      /\ v.executors[e] = IF args /\ x.alive THEN y ELSE x
  <2>1. CASE args /\ x.alive
    BY <1>1, <1>2, <2>1
  <2>2. CASE ~(args /\ x.alive)
    BY <1>1, <1>2, <2>2
  <2> QED BY <2>1, <2>2
<1>9. IsFiniteSet(DOMAIN v.executors) /\ IsFiniteSet(DOMAIN v.assignments)
  <2>1. IsFiniteSet(DOMAIN w.assignments \cup {key})
    BY <1>1, FS_AddElement
  <2> QED BY <1>1, <1>6, <1>8, <2>1
<1>10. ASSUME NEW z \in DOMAIN v.executors, v.executors[z].running PROVE v.executors[z].jobs # <<>>
  BY <1>1, <1>4, <1>8, <1>10
<1>11. Orderly(v)
  BY <1>1, <1>2, <1>7, <1>8, <1>9, <1>10 DEF Orderly
<1>12. Hands(type, v)
  <2>1. CASE type = "dll"
    <3> SUFFICES ASSUME NEW z \in DOMAIN v.executors
                 PROVE  /\ Len(v.executors[z].jobs) + Len(v.executors[z].results) <= 1
                        /\ \A k \in InHand(v.executors[z]) :
                              k \in DOMAIN v.assignments /\ v.assignments[k] = z
      BY <2>1 DEF Hands
    <3>1. CASE z # e
      <4>1. /\ Len(w.executors[z].jobs) + Len(w.executors[z].results) <= 1
            /\ \A k \in InHand(w.executors[z]) : k \in DOMAIN w.assignments /\ w.assignments[k] = z
        BY <1>1, <1>8, <2>1 DEF Hands
      <4>2. v.executors[z] = w.executors[z]
        BY <1>8, <3>1
      <4> QED BY <1>6, <4>1, <4>2
    <3>2. CASE z = e /\ args /\ x.alive
      BY <1>4, <1>5, <1>6, <1>8, <2>1, <3>2
    <3>3. CASE z = e /\ ~(args /\ x.alive)
      <4>1. Len(x.jobs) + Len(x.results) <= 1
        BY <1>1, <2>1 DEF Hands
      <4> QED BY <1>5, <1>8, <2>1, <3>3, <4>1
    <3> QED BY <3>1, <3>2, <3>3
  <2>2. CASE type # "dll"
    <3>1. Range(w.assignments) \subseteq DOMAIN w.executors
      BY <1>1, <2>2 DEF Hands
    <3> QED BY <1>1, <1>7, <1>8, <2>2, <3>1 DEF Hands
  <2> QED BY <2>1, <2>2
<1>13. ASSUME NEW k \in DOMAIN w.assignments PROVE Same(w, v, k)
  BY <1>6, <1>8 DEF Same
<1>14. Started(v, key, key[1])
  <2>1. v.assignments[key] = e /\ e \in DOMAIN v.executors
    BY <1>1, <1>6, <1>8
  <2>2. CASE args /\ x.alive
    BY <1>4, <1>8, <2>1, <2>2 DEF Started
  <2>3. CASE ~args
    BY <1>2, <2>1, <2>3 DEF Started, args
  <2>4. CASE args /\ ~x.alive
    BY <1>2, <2>1, <2>4 DEF Started
  <2> QED BY <2>2, <2>3, <2>4
<1>15. Moved(w, v, key[1], {key})
  BY <1>2, <1>6, <1>13, <1>14 DEF Moved
<1> QED BY <1>2, <1>6, <1>11, <1>12, <1>15 DEF Good, Turned, v

(* An executor that is not free is freed. *)
Freed(w, e, v) ==
    /\ IsWorker(v)
    /\ v.assignments = w.assignments /\ v.executors = w.executors
    /\ IsInjective(v.free_executors)
    /\ Range(v.free_executors) = Range(w.free_executors) \cup {e}
    /\ v.panicked = w.panicked /\ v.job_cache = w.job_cache /\ v.job_args = w.job_args

LEMMA FreeIs ==
  ASSUME NEW w, IsWorker(w), NEW e \in DOMAIN w.executors, e \notin Range(w.free_executors),
         IsInjective(w.free_executors)
  PROVE  Freed(w, e, Free(w, e))
<1> DEFINE f == Append(w.free_executors, e)
           v == [w EXCEPT !.free_executors = f]
<1>1. w.free_executors \in Seq(DOMAIN w.executors)
  BY WorkerTypes
<1>2. f \in Seq(DOMAIN w.executors) /\ Range(f) = Range(w.free_executors) \cup {e} /\ IsInjective(f)
  <2> DEFINE g == w.free_executors
             E == DOMAIN w.executors
  <2>1. g \in Seq(E) /\ e \in E /\ e \notin Range(g) /\ IsInjective(g)
    BY <1>1
  <2> HIDE DEF g, E
  <2>2. Append(g, e) \in Seq(E)
    BY <2>1, AppendProperties
  <2>3. Range(Append(g, e)) = Range(g) \cup {e} /\ IsInjective(Append(g, e))
    BY <2>1, AppendIs
  <2> QED BY <2>2, <2>3 DEF g, E
<1>3. Free(w, e) = v
  BY DEF Free
<1> HIDE DEF f
<1>4. v = [free_executors |-> f, assignments |-> w.assignments, executors |-> w.executors,
           job_cache |-> w.job_cache, job_args |-> w.job_args, panicked |-> w.panicked]
  BY Fields
<1> HIDE DEF v
<1>5. IsWorker(v)
  BY <1>2, <1>4, WorkerTypes, IsAWorker
<1>6. /\ v.assignments = w.assignments /\ v.executors = w.executors /\ v.free_executors = f
      /\ v.panicked = w.panicked /\ v.job_cache = w.job_cache /\ v.job_args = w.job_args
  BY <1>4
<1> QED BY <1>2, <1>3, <1>5, <1>6 DEF Freed

(* If it has no task either, the worker is in order again. *)
LEMMA FreeGood ==
  ASSUME NEW type, NEW w, NEW e, Apart(type, w, e)
  PROVE  Good(type, Free(w, e)) /\ Freed(w, e, Free(w, e))
<1> DEFINE v == Free(w, e)
<1>1. Freed(w, e, v)
  BY FreeIs DEF Apart
<1> HIDE DEF v
<1>2. IsWorker(v)
  BY <1>1 DEF Freed
<1>3. Orderly(v)
  BY <1>1 DEF Orderly, Apart, Freed
<1>4. Hands(type, v)
  <2>1. Hands(type, w) /\ v.assignments = w.assignments /\ v.executors = w.executors
    BY <1>1 DEF Apart, Freed
  <2> QED BY <2>1 DEF Hands
<1> QED BY <1>1, <1>2, <1>3, <1>4 DEF Good, v

(* The last of the free executors is taken. *)
LEMMA TakeApart ==
  ASSUME NEW type, NEW w, Good(type, w), w.free_executors # <<>>
  PROVE  LET v == [w EXCEPT !.free_executors = Front(w.free_executors)]
             e == Last(w.free_executors)
         IN  /\ Apart(type, v, e) /\ v.assignments = w.assignments
             /\ \A job : Moved(w, v, job, {})
<1> DEFINE f == Front(w.free_executors)
           e == Last(w.free_executors)
           v == [w EXCEPT !.free_executors = f]
           E == DOMAIN w.executors
<1>1. /\ IsWorker(w) /\ Hands(type, w)
      /\ IsFiniteSet(DOMAIN w.executors) /\ IsFiniteSet(DOMAIN w.assignments)
      /\ IsInjective(w.free_executors) /\ IsInjective(w.assignments)
      /\ Range(w.free_executors) \cap Range(w.assignments) = {}
      /\ DOMAIN w.executors \subseteq Range(w.free_executors) \cup Range(w.assignments)
      /\ \A z \in DOMAIN w.executors : w.executors[z].running => w.executors[z].jobs # <<>>
  BY GoodIs
<1>2. /\ f \in Seq(E) /\ e \in Range(w.free_executors)
      /\ Range(w.free_executors) = Range(f) \cup {e}
      /\ IsInjective(f) /\ e \notin Range(f)
  <2>1. w.free_executors \in Seq(E)
    BY <1>1, WorkerTypes
  <2> QED BY <1>1, <2>1, FrontIs
<1>3. e \in E
  BY <1>1, <1>2, WorkerTypes
<1> HIDE DEF f, e
<1>4. v = [free_executors |-> f, assignments |-> w.assignments, executors |-> w.executors,
           job_cache |-> w.job_cache, job_args |-> w.job_args, panicked |-> w.panicked]
  BY <1>1, Fields
<1> HIDE DEF v
<1>5. IsWorker(v)
  BY <1>1, <1>2, <1>4, WorkerTypes, IsAWorker
<1>6. /\ v.assignments = w.assignments /\ v.executors = w.executors /\ v.free_executors = f
      /\ v.panicked = w.panicked /\ v.job_args = w.job_args
  BY <1>4
<1>7. Hands(type, v)
  BY <1>1, <1>6 DEF Hands
<1>8. Apart(type, v, e)
  BY <1>1, <1>2, <1>3, <1>5, <1>6, <1>7 DEF Apart
<1>9. \A job : Moved(w, v, job, {})
  BY <1>6 DEF Moved, Same
<1> QED BY <1>6, <1>8, <1>9 DEF v, e, f
-----------------------------------------------------------------------------
(* A process is stopped and another started in its place. *)
Restarted(w, e, v, id) ==
    /\ id \in Nat /\ id \notin DOMAIN w.executors /\ id \notin Range(w.assignments)
    /\ IsWorker(v)
    /\ DOMAIN v.executors = (DOMAIN w.executors \ {e}) \cup {id}
    /\ v.executors[id] = Idle
    /\ \A x \in DOMAIN w.executors \ {e} : v.executors[x] = w.executors[x]
    /\ IsFiniteSet(DOMAIN v.executors)
    /\ IsInjective(v.free_executors)
    /\ Range(v.free_executors) = Range(w.free_executors) \ {e}
    /\ v.assignments = w.assignments /\ v.job_args = w.job_args
    /\ v.job_cache = w.job_cache /\ v.panicked = w.panicked

LEMMA RestartIs ==
  ASSUME NEW w, IsWorker(w), IsFiniteSet(DOMAIN w.executors), IsFiniteSet(DOMAIN w.assignments),
         IsInjective(w.free_executors), NEW e
  PROVE  Restarted(w, e, restart_executor(w, e).worker, restart_executor(w, e).id)
<1> DEFINE id == NextId(w)
           u == stop_executor(w, e)
           v == start_executor(u, id)
           f == Drop(w.free_executors, e)
           X == Without(w.executors, e)
           Y == With(X, id, Idle)
           E == DOMAIN w.executors
           g == w.free_executors
           R(fr, ex) == [free_executors |-> fr, assignments |-> w.assignments, executors |-> ex,
                         job_cache |-> w.job_cache, job_args |-> w.job_args, panicked |-> w.panicked]
<1>1. id \in Nat /\ id \notin E /\ id \notin Range(w.assignments)
  BY NextIdIs
<1>2. restart_executor(w, e).worker = v /\ restart_executor(w, e).id = id
  BY DEF restart_executor
<1>3. g \in Seq(E) /\ Range(g) \subseteq E /\ IsMap(w.executors, Nat, Executor) /\ E \subseteq Nat
  BY WorkerTypes
<1>4. f \in Seq(E) /\ IsInjective(f) /\ Range(f) = Range(g) \ {e}
  BY <1>3, DropIs
<1>5. DOMAIN X = E \ {e} /\ \A x \in E \ {e} : X[x] = w.executors[x]
  BY DEF Without
<1>6. IsMap(X, Nat, Executor)
  BY <1>3, MapWithout
<1>7. f \in Seq(E \ {e})
  <2> HIDE DEF f, g, E
  <2>1. Range(f) \subseteq E \ {e}
    BY <1>3, <1>4
  <2> QED BY <1>4, <2>1, SeqIn
<1>8. u = R(f, X) /\ IsWorker(u)
  <2>1. CASE e \in E
    <3>1. u = [w EXCEPT !.executors = X, !.free_executors = f]
      BY <2>1 DEF stop_executor
    <3> HIDE DEF X, f
    <3>2. [w EXCEPT !.executors = X, !.free_executors = f] = R(f, X)
      BY TwoFields
    <3>3. IsWorker(R(f, X))
      BY <1>5, <1>6, <1>7, WorkerTypes, IsAWorker
    <3> QED BY <3>1, <3>2, <3>3
  <2>2. CASE e \notin E
    <3>1. u = w
      BY <2>2 DEF stop_executor
    <3>2. f = g
      BY <1>3, <2>2 DEF Drop
    <3>3. X = w.executors
      <4>1. w.executors = [x \in E |-> w.executors[x]]
        BY <1>3 DEF IsMap
      <4>2. E \ {e} = E
        BY <2>2
      <4> QED BY <4>1, <4>2 DEF Without
    <3>4. w = R(g, w.executors)
      BY DEF IsWorker
    <3> QED BY <3>1, <3>2, <3>3, <3>4
  <2> QED BY <2>1, <2>2
<1> HIDE DEF X, f, u, E, id
<1>9. v = R(f, Y)
  <2>1. v = [u EXCEPT !.executors = With(u.executors, id, Idle)]
    BY DEF start_executor
  <2>2. u.executors = X /\ u.free_executors = f /\ u.assignments = w.assignments
        /\ u.job_cache = w.job_cache /\ u.job_args = w.job_args /\ u.panicked = w.panicked
    BY <1>8
  <2> HIDE DEF v
  <2>3. v = [u EXCEPT !.executors = Y]
    BY <2>1, <2>2
  <2> HIDE DEF Y
  <2> QED BY <1>8, <2>2, <2>3, Fields
<1>10. /\ DOMAIN Y = (E \ {e}) \cup {id} /\ Y[id] = Idle
       /\ \A x \in E \ {e} : Y[x] = w.executors[x]
  BY <1>1, <1>5 DEF With
<1>11. IsMap(Y, Nat, Executor)
  BY <1>1, <1>6, MapWith, IdleIs
<1> HIDE DEF Y, v, g
<1>12. f \in Seq(DOMAIN Y)
  BY <1>3, <1>4, <1>10, SeqIn
<1>13. IsWorker(v)
  BY <1>9, <1>11, <1>12, WorkerTypes, IsAWorker
<1>14. IsFiniteSet(DOMAIN Y)
  <2>1. IsFiniteSet(E \ {e})
    BY FS_RemoveElement DEF E
  <2>2. IsFiniteSet((E \ {e}) \cup {id})
    BY <2>1, FS_AddElement
  <2> QED BY <1>10, <2>2
<1>15. Restarted(w, e, v, id)
  BY <1>1, <1>4, <1>9, <1>10, <1>13, <1>14 DEF E, g, Restarted
<1> QED BY <1>2, <1>15

(* A task is given up: its process is replaced, or its thread aborted.     *)
LEMMA ForgetIs ==
  ASSUME NEW w, IsWorker(w), NEW old
  PROVE  LET v == [w EXCEPT !.assignments = Without(w.assignments, old)]
         IN  /\ IsWorker(v)
             /\ v.free_executors = w.free_executors /\ v.executors = w.executors
             /\ v.assignments = Without(w.assignments, old)
             /\ v.job_cache = w.job_cache /\ v.job_args = w.job_args /\ v.panicked = w.panicked
             /\ DOMAIN v.assignments = DOMAIN w.assignments \ {old}
             /\ \A k \in DOMAIN w.assignments \ {old} : v.assignments[k] = w.assignments[k]
<1> DEFINE A == Without(w.assignments, old)
           v == [w EXCEPT !.assignments = A]
<1>1. IsMap(A, Key, Nat)
  BY WorkerTypes, MapWithout
<1>2. /\ DOMAIN A = DOMAIN w.assignments \ {old}
      /\ \A k \in DOMAIN w.assignments \ {old} : A[k] = w.assignments[k]
  BY DEF Without
<1> HIDE DEF A
<1>3. v = [free_executors |-> w.free_executors, assignments |-> A, executors |-> w.executors,
           job_cache |-> w.job_cache, job_args |-> w.job_args, panicked |-> w.panicked]
  BY Fields
<1> HIDE DEF v
<1>4. IsWorker(v)
  BY <1>1, <1>3, WorkerTypes, IsAWorker
<1> QED BY <1>2, <1>3, <1>4 DEF v, A

LEMMA ProcessGivenUp ==
  ASSUME NEW w, Good("dll", w), NEW old \in DOMAIN w.assignments
  PROVE  LET u == [w EXCEPT !.assignments = Without(w.assignments, old)]
             r == restart_executor(u, w.assignments[old])
         IN  /\ Apart("dll", r.worker, r.id)
             /\ DOMAIN r.worker.assignments = DOMAIN w.assignments \ {old}
             /\ \A job : Moved(w, r.worker, job, {})
<1> DEFINE u == [w EXCEPT !.assignments = Without(w.assignments, old)]
           e == w.assignments[old]
           r == restart_executor(u, e)
           v == r.worker
           id == r.id
<1>1. /\ IsWorker(w) /\ Hands("dll", w)
      /\ IsFiniteSet(DOMAIN w.executors) /\ IsFiniteSet(DOMAIN w.assignments)
      /\ IsInjective(w.free_executors) /\ IsInjective(w.assignments)
      /\ Range(w.free_executors) \cap Range(w.assignments) = {}
      /\ DOMAIN w.executors \subseteq Range(w.free_executors) \cup Range(w.assignments)
      /\ \A z \in DOMAIN w.executors : w.executors[z].running => w.executors[z].jobs # <<>>
  BY GoodIs
<1>2. /\ IsWorker(u) /\ u.free_executors = w.free_executors /\ u.executors = w.executors
      /\ u.assignments = Without(w.assignments, old)
      /\ u.job_args = w.job_args /\ u.panicked = w.panicked
      /\ DOMAIN u.assignments = DOMAIN w.assignments \ {old}
      /\ \A k \in DOMAIN w.assignments \ {old} : u.assignments[k] = w.assignments[k]
  BY <1>1, ForgetIs
<1>3. IsInjective(u.assignments) /\ Range(u.assignments) = Range(w.assignments) \ {e}
  BY <1>1, <1>2, InjectiveWithout
<1>4. IsFiniteSet(DOMAIN u.assignments)
  <2>1. IsFiniteSet(DOMAIN w.assignments \ {old})
    BY <1>1, FS_RemoveElement
  <2> QED BY <1>2, <2>1
<1> HIDE DEF u
<1>5. /\ id \in Nat /\ id \notin DOMAIN w.executors /\ id \notin Range(u.assignments)
      /\ IsWorker(v)
      /\ DOMAIN v.executors = (DOMAIN w.executors \ {e}) \cup {id}
      /\ v.executors[id] = Idle
      /\ \A x \in DOMAIN w.executors \ {e} : v.executors[x] = w.executors[x]
      /\ IsFiniteSet(DOMAIN v.executors)
      /\ IsInjective(v.free_executors)
      /\ Range(v.free_executors) = Range(w.free_executors) \ {e}
      /\ v.assignments = u.assignments /\ v.job_args = w.job_args /\ v.panicked = w.panicked
  <2>1. IsFiniteSet(DOMAIN u.executors) /\ IsInjective(u.free_executors)
    BY <1>1, <1>2
  <2>2. IsWorker(u)
    BY <1>2
  <2>3. Restarted(u, e, v, id)
    <3> HIDE DEF e
    <3> QED BY <1>4, <2>1, <2>2, RestartIs
  <2> HIDE DEF v, id
  <2> QED BY <1>2, <2>3 DEF Restarted
<1> HIDE DEF v, id
<1>6. e \in Range(w.assignments) /\ Range(w.free_executors) \subseteq DOMAIN w.executors
  BY <1>1, WorkerTypes DEF Range
<1>7. Hands("dll", v)
  <2> SUFFICES ASSUME NEW z \in DOMAIN v.executors
               PROVE  /\ Len(v.executors[z].jobs) + Len(v.executors[z].results) <= 1
                      /\ \A k \in InHand(v.executors[z]) :
                            k \in DOMAIN v.assignments /\ v.assignments[k] = z
    BY DEF Hands
  <2>1. CASE z = id
    <3>1. v.executors[z] = Idle
      BY <1>5, <2>1
    <3> QED BY <3>1, IdleIs
  <2>2. CASE z # id
    <3>1. z \in DOMAIN w.executors /\ z # e /\ v.executors[z] = w.executors[z]
      BY <1>5, <2>2
    <3>2. /\ Len(w.executors[z].jobs) + Len(w.executors[z].results) <= 1
          /\ \A k \in InHand(w.executors[z]) : k \in DOMAIN w.assignments /\ w.assignments[k] = z
      BY <1>1, <3>1 DEF Hands
    <3>3. ASSUME NEW k \in InHand(w.executors[z])
          PROVE  k \in DOMAIN v.assignments /\ v.assignments[k] = z
      BY <1>2, <1>5, <3>1, <3>2
    <3> QED BY <3>1, <3>2, <3>3
  <2> QED BY <2>1, <2>2
<1>8. ASSUME NEW z \in DOMAIN v.executors, v.executors[z].running PROVE v.executors[z].jobs # <<>>
  <2>1. CASE z = id
    BY <1>5, <1>8, <2>1, IdleIs
  <2>2. CASE z # id
    BY <1>1, <1>5, <1>8, <2>2
  <2> QED BY <2>1, <2>2
<1>9. /\ Range(v.free_executors) \cap Range(v.assignments) = {}
      /\ DOMAIN v.executors \subseteq Range(v.free_executors) \cup Range(v.assignments) \cup {id}
      /\ id \in DOMAIN v.executors
      /\ id \notin Range(v.free_executors) /\ id \notin Range(v.assignments)
  BY <1>1, <1>3, <1>5, <1>6
<1>10. Apart("dll", v, id)
  BY <1>3, <1>4, <1>5, <1>7, <1>8, <1>9 DEF Apart
<1>11. ASSUME NEW k \in DOMAIN v.assignments PROVE Same(w, v, k)
  <2>1. k \in DOMAIN w.assignments /\ k # old /\ v.assignments[k] = w.assignments[k]
    BY <1>2, <1>5
  <2>2. w.assignments[k] # e
    BY <1>1, <2>1 DEF IsInjective
  <2>3. w.assignments[k] # id
    <3>1. w.assignments[k] \in Range(u.assignments)
      BY <1>2, <1>5, <2>1 DEF Range
    <3> QED BY <1>5, <3>1
  <2> QED BY <1>5, <2>1, <2>2, <2>3 DEF Same
<1>12. \A job : Moved(w, v, job, {})
  BY <1>5, <1>11 DEF Moved
<1> QED BY <1>2, <1>5, <1>10, <1>12 DEF v, id, u

LEMMA AbortIs ==
  ASSUME NEW w, IsWorker(w), NEW e \in DOMAIN w.executors
  PROVE  LET v == abort_executor(w, e)
             x == w.executors[e]
             y == v.executors[e]
         IN  /\ IsWorker(v)
             /\ v.free_executors = w.free_executors /\ v.assignments = w.assignments
             /\ v.job_cache = w.job_cache /\ v.job_args = w.job_args /\ v.panicked = w.panicked
             /\ DOMAIN v.executors = DOMAIN w.executors
             /\ \A z \in DOMAIN w.executors \ {e} : v.executors[z] = w.executors[z]
             /\ y.jobs = x.jobs /\ y.running = x.running
<1> DEFINE x == w.executors[e]
           y == abort(x)
           v == abort_executor(w, e)
<1>1. x \in Executor
  BY WorkerTypes
<1>2. y \in Executor /\ y.jobs = x.jobs /\ y.running = x.running
  BY <1>1 DEF abort, Executor
<1>3. v = [w EXCEPT !.executors = [w.executors EXCEPT ![e] = y]]
  BY DEF abort_executor
<1> HIDE DEF y
<1> QED BY <1>2, <1>3, SetExecutorIs

LEMMA ThreadGivenUp ==
  ASSUME NEW w, Good("wasm", w), NEW old \in DOMAIN w.assignments
  PROVE  LET u == [w EXCEPT !.assignments = Without(w.assignments, old)]
             v == abort_executor(u, w.assignments[old])
         IN  /\ Apart("wasm", v, w.assignments[old])
             /\ DOMAIN v.assignments = DOMAIN w.assignments \ {old}
             /\ \A job : Moved(w, v, job, {})
<1> DEFINE u == [w EXCEPT !.assignments = Without(w.assignments, old)]
           e == w.assignments[old]
           v == abort_executor(u, e)
<1>1. /\ IsWorker(w) /\ Hands("wasm", w)
      /\ IsFiniteSet(DOMAIN w.executors) /\ IsFiniteSet(DOMAIN w.assignments)
      /\ IsInjective(w.free_executors) /\ IsInjective(w.assignments)
      /\ Range(w.free_executors) \cap Range(w.assignments) = {}
      /\ DOMAIN w.executors \subseteq Range(w.free_executors) \cup Range(w.assignments)
      /\ \A z \in DOMAIN w.executors : w.executors[z].running => w.executors[z].jobs # <<>>
  BY GoodIs
<1>2. /\ IsWorker(u) /\ u.free_executors = w.free_executors /\ u.executors = w.executors
      /\ u.assignments = Without(w.assignments, old)
      /\ u.job_args = w.job_args /\ u.panicked = w.panicked
      /\ DOMAIN u.assignments = DOMAIN w.assignments \ {old}
      /\ \A k \in DOMAIN w.assignments \ {old} : u.assignments[k] = w.assignments[k]
  BY <1>1, ForgetIs
<1>3. IsInjective(u.assignments) /\ Range(u.assignments) = Range(w.assignments) \ {e}
  BY <1>1, <1>2, InjectiveWithout
<1>4. IsFiniteSet(DOMAIN u.assignments)
  <2>1. IsFiniteSet(DOMAIN w.assignments \ {old})
    BY <1>1, FS_RemoveElement
  <2> QED BY <1>2, <2>1
<1>5. e \in Range(w.assignments) /\ Range(w.assignments) \subseteq DOMAIN w.executors
  BY <1>1 DEF Hands, Range
<1> HIDE DEF u
<1>6. /\ IsWorker(v)
      /\ v.free_executors = w.free_executors /\ v.assignments = u.assignments
      /\ v.job_args = w.job_args /\ v.panicked = w.panicked
      /\ DOMAIN v.executors = DOMAIN w.executors
      /\ \A z \in DOMAIN w.executors \ {e} : v.executors[z] = w.executors[z]
      /\ v.executors[e].jobs = w.executors[e].jobs /\ v.executors[e].running = w.executors[e].running
  <2>1. e \in DOMAIN u.executors
    BY <1>2, <1>5
  <2> HIDE DEF e
  <2> QED BY <1>2, <2>1, AbortIs
<1> HIDE DEF v
<1>7. Hands("wasm", v)
  BY <1>3, <1>5, <1>6 DEF Hands
<1>8. ASSUME NEW z \in DOMAIN v.executors, v.executors[z].running PROVE v.executors[z].jobs # <<>>
  BY <1>1, <1>6, <1>8
<1>9. /\ Range(v.free_executors) \cap Range(v.assignments) = {}
      /\ DOMAIN v.executors \subseteq Range(v.free_executors) \cup Range(v.assignments) \cup {e}
      /\ e \in DOMAIN v.executors
      /\ e \notin Range(v.free_executors) /\ e \notin Range(v.assignments)
  BY <1>1, <1>3, <1>5, <1>6
<1>10. Apart("wasm", v, e)
  BY <1>1, <1>3, <1>4, <1>6, <1>7, <1>8, <1>9 DEF Apart
<1>11. ASSUME NEW k \in DOMAIN v.assignments PROVE Same(w, v, k)
  <2>1. k \in DOMAIN w.assignments /\ k # old /\ v.assignments[k] = w.assignments[k]
    BY <1>2, <1>6
  <2>2. w.assignments[k] # e
    BY <1>1, <2>1 DEF IsInjective
  <2> QED BY <1>6, <2>1, <2>2 DEF Same
<1>12. \A job : Moved(w, v, job, {})
  BY <1>6, <1>11 DEF Moved
<1> QED BY <1>2, <1>6, <1>10, <1>12 DEF v, u
-----------------------------------------------------------------------------
(* One turn of the loops over a request: a task comes in place of another. *)
Exchange(D, old, key) == IF old \in D THEN (D \ {old}) \cup {key} ELSE D

LEMMA dll_replaceIs ==
  ASSUME NEW w, Good("dll", w), NEW old, NEW key \in Key, key \notin DOMAIN w.assignments
  PROVE  Turned("dll", w, dll_replace(w, old, key), key[1], key,
                Exchange(DOMAIN w.assignments, old, key))
<1>1. CASE old \in DOMAIN w.assignments
  <2> DEFINE u == [w EXCEPT !.assignments = Without(w.assignments, old)]
             r == restart_executor(u, w.assignments[old])
             v == assign_task(r.worker, r.id, key)
             b == r.worker
             id == r.id
  <2>1. /\ Apart("dll", b, id)
        /\ DOMAIN b.assignments = DOMAIN w.assignments \ {old}
        /\ Moved(w, b, key[1], {})
    BY <1>1, ProcessGivenUp
  <2>2. dll_replace(w, old, key) = v
    BY <1>1 DEF dll_replace
  <2>3. key \notin DOMAIN b.assignments
    BY <2>1
  <2> HIDE DEF b, id, v
  <2>4. v = assign_task(b, id, key)
    BY DEF v, b, id
  <2>5. Turned("dll", b, v, key[1], key, DOMAIN b.assignments \cup {key})
    BY <2>1, <2>3, <2>4, AssignGood
  <2>6. Moved(w, v, key[1], {} \cup {key})
    BY <2>1, <2>5, MovedTwice DEF Turned
  <2>7. {} \cup {key} = {key}
    OBVIOUS
  <2> QED BY <1>1, <2>1, <2>2, <2>5, <2>6, <2>7 DEF Turned, Exchange
<1>2. CASE old \notin DOMAIN w.assignments
  <2>1. dll_replace(w, old, key) = w
    BY <1>2 DEF dll_replace
  <2>2. Moved(w, w, key[1], {key})
    BY MovedNot
  <2> QED BY <1>2, <2>1, <2>2 DEF Turned, Exchange
<1> QED BY <1>1, <1>2

LEMMA wasm_replaceIs ==
  ASSUME NEW w, Good("wasm", w), NEW old, NEW key \in Key, key \notin DOMAIN w.assignments
  PROVE  Turned("wasm", w, wasm_replace(w, old, key), key[1], key,
                Exchange(DOMAIN w.assignments, old, key))
<1>1. CASE old \in DOMAIN w.assignments
  <2> DEFINE u == [w EXCEPT !.assignments = Without(w.assignments, old)]
             e == w.assignments[old]
             b == abort_executor(u, e)
             v == assign_task(b, e, key)
  <2>1. /\ Apart("wasm", b, e)
        /\ DOMAIN b.assignments = DOMAIN w.assignments \ {old}
        /\ Moved(w, b, key[1], {})
    BY <1>1, ThreadGivenUp
  <2>2. wasm_replace(w, old, key) = v
    BY <1>1 DEF wasm_replace
  <2>3. key \notin DOMAIN b.assignments
    BY <2>1
  <2> HIDE DEF b, e
  <2>5. Turned("wasm", b, v, key[1], key, DOMAIN b.assignments \cup {key})
    BY <2>1, <2>3, AssignGood
  <2> HIDE DEF v
  <2>6. Moved(w, v, key[1], {} \cup {key})
    BY <2>1, <2>5, MovedTwice DEF Turned
  <2>7. {} \cup {key} = {key}
    OBVIOUS
  <2> QED BY <1>1, <2>1, <2>2, <2>5, <2>6, <2>7 DEF Turned, Exchange
<1>2. CASE old \notin DOMAIN w.assignments
  <2>1. wasm_replace(w, old, key) = w
    BY <1>2 DEF wasm_replace
  <2>2. Moved(w, w, key[1], {key})
    BY MovedNot
  <2> QED BY <1>2, <2>1, <2>2 DEF Turned, Exchange
<1> QED BY <1>1, <1>2

(* A task finds an executor or is refused. *)
Tried(type, w, refused, key, s) ==
    \/ s = [worker |-> w, refused |-> refused \cup {key}]
    \/ /\ s = [worker |-> s.worker, refused |-> refused]
       /\ Turned(type, w, s.worker, key[1], key, DOMAIN w.assignments \cup {key})

LEMMA AssignNextIs ==
  ASSUME NEW type, NEW w, Good(type, w), NEW refused, NEW key \in Key,
         key \notin DOMAIN w.assignments
  PROVE  Tried(type, w, refused, key, AssignNext([worker |-> w, refused |-> refused], key))
<1> DEFINE s == AssignNext([worker |-> w, refused |-> refused], key)
<1>1. CASE w.free_executors = <<>>
  BY <1>1 DEF AssignNext, Tried
<1>2. CASE w.free_executors # <<>>
  <2> DEFINE b == [w EXCEPT !.free_executors = Front(w.free_executors)]
             e == Last(w.free_executors)
             v == assign_task(b, e, key)
  <2>1. s = [worker |-> v, refused |-> refused]
    BY <1>2 DEF AssignNext
  <2>2. Apart(type, b, e) /\ b.assignments = w.assignments /\ Moved(w, b, key[1], {})
    BY <1>2, TakeApart
  <2> HIDE DEF b, e
  <2>3. Turned(type, b, v, key[1], key, DOMAIN b.assignments \cup {key})
    BY <2>2, AssignGood
  <2> HIDE DEF v, s
  <2>4. Moved(w, v, key[1], {} \cup {key})
    BY <2>2, <2>3, MovedTwice DEF Turned
  <2>5. {} \cup {key} = {key}
    OBVIOUS
  <2>6. Turned(type, w, v, key[1], key, DOMAIN w.assignments \cup {key})
    BY <2>2, <2>3, <2>4, <2>5 DEF Turned
  <2>7. s.worker = v
    BY <2>1
  <2>8. Tried(type, w, refused, key, s)
    BY <2>1, <2>6, <2>7 DEF Tried
  <2> QED BY <2>8 DEF s
<1> QED BY <1>1, <1>2
-----------------------------------------------------------------------------
(* The loops. *)
AllWorkers ==
    [free_executors : Seq(Nat), assignments : UNION {[D -> Nat] : D \in SUBSET Key},
     executors : UNION {[D -> Executor] : D \in SUBSET Nat},
     job_cache : Seq(Jobs), job_args : Seq(Jobs), panicked : BOOLEAN]

LEMMA WorkerIn ==
  ASSUME NEW w, IsWorker(w)
  PROVE  w \in AllWorkers
<1>1. w.executors \in [DOMAIN w.executors -> Executor] /\ DOMAIN w.executors \subseteq Nat
  BY DEF IsWorker, IsMap
<1>2. w.assignments \in [DOMAIN w.assignments -> Nat] /\ DOMAIN w.assignments \subseteq Key
  BY DEF IsWorker, IsMap
<1>3. w.free_executors \in Seq(Nat)
  BY <1>1, SeqDef DEF IsWorker
<1>4. w = [free_executors |-> w.free_executors, assignments |-> w.assignments,
            executors |-> w.executors, job_cache |-> w.job_cache, job_args |-> w.job_args,
            panicked |-> w.panicked] /\ w.job_cache \in Seq(Jobs) /\ w.job_args \in Seq(Jobs)
            /\ w.panicked \in BOOLEAN
  BY DEF IsWorker
<1>5. w.executors \in UNION {[D -> Executor] : D \in SUBSET Nat}
  BY <1>1
<1>6. w.assignments \in UNION {[D -> Nat] : D \in SUBSET Key}
  BY <1>2
<1> QED BY <1>3, <1>4, <1>5, <1>6 DEF AllWorkers

(* The replacements of a request, one after the other.                     *)
Old(job, reps, i) == <<job, reps[i][1]>>
New(job, reps, i) == <<job, reps[i][2]>>

Replaceable(w, job, reps) ==
    /\ job \in Jobs /\ reps \in Seq(Tasks \X Tasks)
    /\ \A i \in 1 .. Len(reps) :
          /\ New(job, reps, i) \notin DOMAIN w.assignments
          /\ \A j \in 1 .. Len(reps) :
                /\ New(job, reps, i) # Old(job, reps, j)
                /\ i # j => /\ Old(job, reps, i) # Old(job, reps, j)
                            /\ New(job, reps, i) # New(job, reps, j)

KeysAfter(w, job, reps, k) ==
    (DOMAIN w.assignments \ {Old(job, reps, i) : i \in 1 .. k})
        \cup {New(job, reps, i) : i \in {j \in 1 .. k : Old(job, reps, j) \in DOMAIN w.assignments}}

Replaced(type, w, job, reps, k, v) ==
    /\ Good(type, v)
    /\ Moved(w, v, job, {New(job, reps, i) : i \in 1 .. k})
    /\ DOMAIN v.assignments = KeysAfter(w, job, reps, k)

LEMMA ReplacingStarts ==
  ASSUME NEW type, NEW w, NEW job, NEW reps, Good(type, w)
  PROVE  Replaced(type, w, job, reps, 0, w)
<1>1. 1 .. 0 = {}
  OBVIOUS
<1>2. {New(job, reps, i) : i \in 1 .. 0} = {} /\ KeysAfter(w, job, reps, 0) = DOMAIN w.assignments
  BY <1>1 DEF KeysAfter
<1>3. Moved(w, w, job, {})
  BY MovedNot
<1> QED BY <1>2, <1>3 DEF Replaced

LEMMA ReplacingGoesOn ==
  ASSUME NEW type, NEW w, NEW job, NEW reps, Replaceable(w, job, reps),
         NEW k \in 1 .. Len(reps), NEW v, Replaced(type, w, job, reps, k - 1, v)
  PROVE  /\ New(job, reps, k) \in Key /\ New(job, reps, k)[1] = job
         /\ New(job, reps, k) \notin DOMAIN v.assignments
         /\ \A u : Turned(type, v, u, job, New(job, reps, k),
                          Exchange(DOMAIN v.assignments, Old(job, reps, k), New(job, reps, k)))
                   => Replaced(type, w, job, reps, k, u)
<1> DEFINE n(i) == New(job, reps, i)
           o(i) == Old(job, reps, i)
           N(m) == {n(i) : i \in 1 .. m}
           D == DOMAIN w.assignments
           F == DOMAIN v.assignments
<1>1. /\ Len(reps) \in Nat /\ job \in Jobs /\ reps \in Seq(Tasks \X Tasks)
      /\ \A i \in 1 .. Len(reps) : reps[i] \in Tasks \X Tasks
  <2>1. job \in Jobs /\ reps \in Seq(Tasks \X Tasks)
    BY DEF Replaceable
  <2> QED BY <2>1, LenProperties, ElementOfSeq
<1>2. n(k) \in Key /\ n(k)[1] = job
  BY <1>1 DEF New, Key
<1>3. \A i, j \in 1 .. Len(reps) :
         n(i) \notin D /\ n(i) # o(j) /\ (i # j => o(i) # o(j) /\ n(i) # n(j))
  BY DEF Replaceable
<1>4. /\ \A i \in 1 .. k - 1 : i \in 1 .. Len(reps) /\ i # k /\ i \in 1 .. k
      /\ \A i \in 1 .. k : i \in 1 .. k - 1 \/ i = k
      /\ k \in 1 .. k
  BY <1>1
<1>5. F = (D \ {o(i) : i \in 1 .. k - 1}) \cup {n(i) : i \in {j \in 1 .. k - 1 : o(j) \in D}}
  BY DEF Replaced, KeysAfter
<1> HIDE DEF n, o, D, F
<1>6. n(k) \notin F /\ (o(k) \in F <=> o(k) \in D)
  BY <1>3, <1>4, <1>5
<1>7. ASSUME NEW u, Turned(type, v, u, job, n(k), Exchange(F, o(k), n(k)))
      PROVE  Replaced(type, w, job, reps, k, u)
  <2>1. N(k) = N(k - 1) \cup {n(k)}
    BY <1>4
  <2>2. Moved(w, u, job, N(k - 1) \cup {n(k)})
    <3>1. Moved(w, v, job, N(k - 1))
      BY DEF Replaced, n
    <3>2. Moved(v, u, job, {n(k)})
      BY <1>7 DEF Turned
    <3> HIDE DEF N
    <3> QED BY <3>1, <3>2, MovedTwice
  <2>3. DOMAIN u.assignments = (D \ {o(i) : i \in 1 .. k}) \cup {n(i) : i \in {j \in 1 .. k : o(j) \in D}}
    <3> DEFINE G == DOMAIN u.assignments
    <3>1. G = IF o(k) \in F THEN (F \ {o(k)}) \cup {n(k)} ELSE F
      BY <1>7 DEF Turned, Exchange
    <3> HIDE DEF G
    <3>2. CASE o(k) \in D
      <4>1. G = (F \ {o(k)}) \cup {n(k)}
        BY <1>6, <3>1, <3>2
      <4>2. o(k) \notin {n(i) : i \in {j \in 1 .. k - 1 : o(j) \in D}}
        BY <1>3, <1>4
      <4>3. {o(i) : i \in 1 .. k} = {o(i) : i \in 1 .. k - 1} \cup {o(k)}
        BY <1>4
      <4>4. {n(i) : i \in {j \in 1 .. k : o(j) \in D}} =
                {n(i) : i \in {j \in 1 .. k - 1 : o(j) \in D}} \cup {n(k)}
        BY <1>4, <3>2
      <4> QED BY <1>5, <4>1, <4>2, <4>3, <4>4 DEF G
    <3>3. CASE o(k) \notin D
      <4>1. G = F
        BY <1>6, <3>1, <3>3
      <4>3. {o(i) : i \in 1 .. k} = {o(i) : i \in 1 .. k - 1} \cup {o(k)}
        BY <1>4
      <4>4. {n(i) : i \in {j \in 1 .. k : o(j) \in D}} =
                {n(i) : i \in {j \in 1 .. k - 1 : o(j) \in D}}
        BY <1>4, <3>3
      <4> QED BY <1>5, <3>3, <4>1, <4>3, <4>4 DEF G
    <3> QED BY <3>2, <3>3
  <2>4. Good(type, u)
    BY <1>7 DEF Turned
  <2>5. Moved(w, u, job, N(k))
    BY <2>1, <2>2
  <2> QED BY <2>3, <2>4, <2>5 DEF Replaced, KeysAfter, n, o, D
<1> QED BY <1>2, <1>6, <1>7 DEF n, o, D, F

LEMMA dll_replacingIs ==
  ASSUME NEW w, NEW job, NEW reps, Good("dll", w), Replaceable(w, job, reps)
  PROVE  Replaced("dll", w, job, reps, Len(reps), dll_replacing(w, job, reps)[Len(reps)])
<1> DEFINE m == Len(reps)
           one(v, k) == dll_replace(v, <<job, reps[k][1]>>, <<job, reps[k][2]>>)
           S == [k \in 0 .. m |-> {v \in AllWorkers : Replaced("dll", w, job, reps, k, v)}]
           step == [k \in 1 .. m |-> [v \in AllWorkers |-> one(v, k)]]
           P(h) == h = [k \in 0 .. m |-> IF k = 0 THEN w ELSE one(h[k - 1], k)]
           after == dll_replacing(w, job, reps)
<1>1. m \in Nat
  BY LenProperties DEF Replaceable
<1>2. after = CHOOSE h : P(h)
  BY DEF dll_replacing
<1>3. ASSUME NEW k \in 0 .. m, NEW v PROVE v \in S[k] <=> Replaced("dll", w, job, reps, k, v)
  <2>1. Replaced("dll", w, job, reps, k, v) => v \in AllWorkers
    BY WorkerIn DEF Replaced, Good
  <2> QED BY <2>1
<1>4. S \in [0 .. m -> SUBSET AllWorkers]
  OBVIOUS
<1>5. ASSUME NEW k \in 1 .. m, NEW v, Replaced("dll", w, job, reps, k - 1, v)
      PROVE  Replaced("dll", w, job, reps, k, one(v, k))
  <2> DEFINE n == New(job, reps, k)
             o == Old(job, reps, k)
             D == DOMAIN v.assignments
  <2>1. /\ n \in Key /\ n[1] = job /\ n \notin D
        /\ \A u : Turned("dll", v, u, job, n, Exchange(D, o, n))
                   => Replaced("dll", w, job, reps, k, u)
    BY <1>5, ReplacingGoesOn
  <2>2. one(v, k) = dll_replace(v, o, n)
    BY DEF Old, New
  <2>3. Good("dll", v)
    BY <1>5 DEF Replaced
  <2> HIDE DEF n, o
  <2>4. Turned("dll", v, dll_replace(v, o, n), n[1], n, Exchange(D, o, n))
    BY <2>1, <2>3, dll_replaceIs
  <2> HIDE DEF one
  <2> QED BY <2>1, <2>2, <2>4
<1> HIDE DEF one, m, after, S
<1>6. w \in S[0]
  <2>1. Replaced("dll", w, job, reps, 0, w)
    BY ReplacingStarts
  <2> QED BY <1>1, <1>3, <2>1
<1>7. ASSUME NEW k \in 1 .. m, NEW v \in S[k - 1]
      PROVE  v \in AllWorkers /\ one(v, k) \in S[k]
  <2>1. k - 1 \in 0 .. m /\ k \in 0 .. m
    BY <1>1
  <2> QED BY <1>3, <1>4, <1>5, <1>7, <2>1
<1>8. \A k \in 1 .. m : \A v \in S[k - 1] : step[k][v] \in S[k]
  BY <1>7
<1>9. P(after)
  <2>1. PICK g : Loops(g, m, w, step) /\ \A k \in 0 .. m : g[k] \in S[k]
    <3> HIDE DEF step
    <3> QED BY <1>1, <1>4, <1>6, <1>8, LoopExists
  <2>2. ASSUME NEW k \in 0 .. m, k # 0 PROVE step[k][g[k - 1]] = one(g[k - 1], k)
    <3>1. k \in 1 .. m /\ k - 1 \in 0 .. m
      BY <1>1, <2>2
    <3>2. g[k - 1] \in AllWorkers
      BY <1>7, <2>1, <3>1
    <3> QED BY <3>1, <3>2
  <2>3. P(g)
    <3> HIDE DEF step
    <3> QED BY <2>1, <2>2 DEF Loops
  <2> HIDE DEF P
  <2> QED BY <1>2, <2>3
<1>10. \A k \in 0 .. m : after[k] \in S[k]
  <2>1. after[0] \in S[0]
    BY <1>1, <1>6, <1>9
  <2>2. ASSUME NEW k \in 1 .. m, after[k - 1] \in S[k - 1] PROVE after[k] \in S[k]
    <3>1. k \in 0 .. m /\ k # 0
      BY <1>1
    <3>2. after[k] = one(after[k - 1], k)
      BY <1>9, <3>1
    <3> QED BY <1>7, <2>2, <3>2
  <2> HIDE DEF P
  <2> QED BY <1>1, <2>1, <2>2, LoopInvariant
<1>11. m \in 0 .. m
  BY <1>1
<1> QED BY <1>3, <1>10, <1>11 DEF after, m

LEMMA wasm_replacingIs ==
  ASSUME NEW w, NEW job, NEW reps, Good("wasm", w), Replaceable(w, job, reps)
  PROVE  Replaced("wasm", w, job, reps, Len(reps), wasm_replacing(w, job, reps)[Len(reps)])
<1> DEFINE m == Len(reps)
           one(v, k) == wasm_replace(v, <<job, reps[k][1]>>, <<job, reps[k][2]>>)
           S == [k \in 0 .. m |-> {v \in AllWorkers : Replaced("wasm", w, job, reps, k, v)}]
           step == [k \in 1 .. m |-> [v \in AllWorkers |-> one(v, k)]]
           P(h) == h = [k \in 0 .. m |-> IF k = 0 THEN w ELSE one(h[k - 1], k)]
           after == wasm_replacing(w, job, reps)
<1>1. m \in Nat
  BY LenProperties DEF Replaceable
<1>2. after = CHOOSE h : P(h)
  BY DEF wasm_replacing
<1>3. ASSUME NEW k \in 0 .. m, NEW v PROVE v \in S[k] <=> Replaced("wasm", w, job, reps, k, v)
  <2>1. Replaced("wasm", w, job, reps, k, v) => v \in AllWorkers
    BY WorkerIn DEF Replaced, Good
  <2> QED BY <2>1
<1>4. S \in [0 .. m -> SUBSET AllWorkers]
  OBVIOUS
<1>5. ASSUME NEW k \in 1 .. m, NEW v, Replaced("wasm", w, job, reps, k - 1, v)
      PROVE  Replaced("wasm", w, job, reps, k, one(v, k))
  <2> DEFINE n == New(job, reps, k)
             o == Old(job, reps, k)
             D == DOMAIN v.assignments
  <2>1. /\ n \in Key /\ n[1] = job /\ n \notin D
        /\ \A u : Turned("wasm", v, u, job, n, Exchange(D, o, n))
                   => Replaced("wasm", w, job, reps, k, u)
    BY <1>5, ReplacingGoesOn
  <2>2. one(v, k) = wasm_replace(v, o, n)
    BY DEF Old, New
  <2>3. Good("wasm", v)
    BY <1>5 DEF Replaced
  <2> HIDE DEF n, o
  <2>4. Turned("wasm", v, wasm_replace(v, o, n), n[1], n, Exchange(D, o, n))
    BY <2>1, <2>3, wasm_replaceIs
  <2> HIDE DEF one
  <2> QED BY <2>1, <2>2, <2>4
<1> HIDE DEF one, m, after, S
<1>6. w \in S[0]
  <2>1. Replaced("wasm", w, job, reps, 0, w)
    BY ReplacingStarts
  <2> QED BY <1>1, <1>3, <2>1
<1>7. ASSUME NEW k \in 1 .. m, NEW v \in S[k - 1]
      PROVE  v \in AllWorkers /\ one(v, k) \in S[k]
  <2>1. k - 1 \in 0 .. m /\ k \in 0 .. m
    BY <1>1
  <2> QED BY <1>3, <1>4, <1>5, <1>7, <2>1
<1>8. \A k \in 1 .. m : \A v \in S[k - 1] : step[k][v] \in S[k]
  BY <1>7
<1>9. P(after)
  <2>1. PICK g : Loops(g, m, w, step) /\ \A k \in 0 .. m : g[k] \in S[k]
    <3> HIDE DEF step
    <3> QED BY <1>1, <1>4, <1>6, <1>8, LoopExists
  <2>2. ASSUME NEW k \in 0 .. m, k # 0 PROVE step[k][g[k - 1]] = one(g[k - 1], k)
    <3>1. k \in 1 .. m /\ k - 1 \in 0 .. m
      BY <1>1, <2>2
    <3>2. g[k - 1] \in AllWorkers
      BY <1>7, <2>1, <3>1
    <3> QED BY <3>1, <3>2
  <2>3. P(g)
    <3> HIDE DEF step
    <3> QED BY <2>1, <2>2 DEF Loops
  <2> HIDE DEF P
  <2> QED BY <1>2, <2>3
<1>10. \A k \in 0 .. m : after[k] \in S[k]
  <2>1. after[0] \in S[0]
    BY <1>1, <1>6, <1>9
  <2>2. ASSUME NEW k \in 1 .. m, after[k - 1] \in S[k - 1] PROVE after[k] \in S[k]
    <3>1. k \in 0 .. m /\ k # 0
      BY <1>1
    <3>2. after[k] = one(after[k - 1], k)
      BY <1>9, <3>1
    <3> QED BY <1>7, <2>2, <3>2
  <2> HIDE DEF P
  <2> QED BY <1>1, <2>1, <2>2, LoopInvariant
<1>11. m \in 0 .. m
  BY <1>1
<1> QED BY <1>3, <1>10, <1>11 DEF after, m

(* The tasks of a request, from the last to the first. *)
Back(job, tasks, k) == {<<job, tasks[Len(tasks) - i + 1]>> : i \in 1 .. k}

Assignable(w, job, tasks) ==
    /\ job \in Jobs /\ tasks \in Seq(Tasks) /\ IsInjective(tasks)
    /\ \A i \in 1 .. Len(tasks) : <<job, tasks[i]>> \notin DOMAIN w.assignments

Assigned(type, w, job, tasks, k, s) ==
    /\ s = [worker |-> s.worker, refused |-> s.refused]
    /\ Good(type, s.worker)
    /\ Moved(w, s.worker, job, Back(job, tasks, k))
    /\ s.refused \subseteq Back(job, tasks, k)
    /\ DOMAIN s.worker.assignments = DOMAIN w.assignments \cup (Back(job, tasks, k) \ s.refused)

LEMMA AssigningStarts ==
  ASSUME NEW type, NEW w, NEW job, NEW tasks, Good(type, w)
  PROVE  Assigned(type, w, job, tasks, 0, [worker |-> w, refused |-> {}])
<1>1. 1 .. 0 = {}
  OBVIOUS
<1>2. Back(job, tasks, 0) = {}
  BY <1>1 DEF Back
<1>3. Moved(w, w, job, {})
  BY MovedNot
<1> QED BY <1>2, <1>3 DEF Assigned

LEMMA AssigningGoesOn ==
  ASSUME NEW type, NEW w, NEW job, NEW tasks, Assignable(w, job, tasks),
         NEW k \in 1 .. Len(tasks), NEW s, Assigned(type, w, job, tasks, k - 1, s)
  PROVE  Assigned(type, w, job, tasks, k, AssignNext(s, <<job, tasks[Len(tasks) - k + 1]>>))
<1> DEFINE n == Len(tasks)
           key(i) == <<job, tasks[n - i + 1]>>
           B == Back(job, tasks, k - 1)
           C == Back(job, tasks, k)
           v == s.worker
           q == key(k)
           t == AssignNext(s, q)
           D == DOMAIN w.assignments
<1>1. n \in Nat /\ job \in Jobs /\ tasks \in Seq(Tasks) /\ \A i \in 1 .. n : tasks[i] \in Tasks
  <2>1. job \in Jobs /\ tasks \in Seq(Tasks)
    BY DEF Assignable
  <2> QED BY <2>1, LenProperties, ElementOfSeq
<1>2. \A i \in 1 .. n : n - i + 1 \in 1 .. n
  BY <1>1
<1>3. q \in Key /\ q[1] = job /\ q \notin D
  BY <1>1, <1>2 DEF Key, Assignable
<1>4. q \notin B
  <2> SUFFICES ASSUME NEW i \in 1 .. k - 1, key(i) = key(k) PROVE FALSE
    BY DEF Back
  <2>1. i \in 1 .. n /\ n - i + 1 # n - k + 1
    BY <1>1
  <2>2. \A a, b \in 1 .. n : tasks[a] = tasks[b] => a = b
    BY <1>1, LenProperties DEF Assignable, IsInjective
  <2>3. tasks[n - i + 1] = tasks[n - k + 1]
    OBVIOUS
  <2> QED BY <1>2, <2>1, <2>2, <2>3
<1>5. C = B \cup {q}
  <2>1. \A i \in 1 .. k : i \in 1 .. k - 1 \/ i = k
    BY <1>1
  <2>2. (\A i \in 1 .. k - 1 : i \in 1 .. k) /\ k \in 1 .. k
    BY <1>1
  <2> QED BY <2>1, <2>2 DEF Back
<1> HIDE DEF q, B, C, v, D
<1>6. /\ s = [worker |-> v, refused |-> s.refused]
      /\ Good(type, v) /\ Moved(w, v, job, B)
      /\ s.refused \subseteq B /\ DOMAIN v.assignments = D \cup (B \ s.refused)
  BY DEF Assigned, B, v, D
<1>7. q \notin DOMAIN v.assignments
  BY <1>3, <1>4, <1>6
<1>8. \/ t = [worker |-> v, refused |-> s.refused \cup {q}]
      \/ /\ t = [worker |-> t.worker, refused |-> s.refused]
         /\ Turned(type, v, t.worker, q[1], q, DOMAIN v.assignments \cup {q})
  <2> DEFINE f == s.refused
  <2>1. t = AssignNext([worker |-> v, refused |-> f], q)
    BY <1>6
  <2> HIDE DEF f, t
  <2>2. Tried(type, v, f, q, AssignNext([worker |-> v, refused |-> f], q))
    BY <1>3, <1>6, <1>7, AssignNextIs
  <2> QED BY <2>1, <2>2 DEF f, Tried
<1> HIDE DEF t
<1>9. CASE t = [worker |-> v, refused |-> s.refused \cup {q}]
  <2>1. Moved(v, v, job, {q})
    BY <1>7, MovedNot
  <2>2. Moved(w, v, job, C)
    BY <1>5, <1>6, <2>1, MovedTwice
  <2>3. t.worker = v /\ t.refused = s.refused \cup {q}
    BY <1>9
  <2>4. t.refused \subseteq C /\ DOMAIN v.assignments = D \cup (C \ t.refused)
    BY <1>4, <1>5, <1>6, <2>3
  <2>5. Assigned(type, w, job, tasks, k, t)
    BY <1>6, <1>9, <2>2, <2>3, <2>4 DEF Assigned, C, D
  <2> QED BY <2>5 DEF t, q
<1>10. CASE /\ t = [worker |-> t.worker, refused |-> s.refused]
            /\ Turned(type, v, t.worker, q[1], q, DOMAIN v.assignments \cup {q})
  <2> DEFINE u == t.worker
  <2>1. Good(type, u) /\ Moved(v, u, job, {q}) /\ DOMAIN u.assignments = DOMAIN v.assignments \cup {q}
    BY <1>3, <1>10 DEF Turned
  <2>2. t.refused = s.refused /\ t = [worker |-> u, refused |-> t.refused]
    BY <1>10
  <2> HIDE DEF u
  <2>3. Moved(w, u, job, C)
    BY <1>5, <1>6, <2>1, MovedTwice
  <2>4. t.refused \subseteq C /\ DOMAIN u.assignments = D \cup (C \ t.refused)
    BY <1>4, <1>5, <1>6, <2>1, <2>2
  <2>5. Assigned(type, w, job, tasks, k, t)
    BY <2>1, <2>2, <2>3, <2>4 DEF Assigned, C, D, u
  <2> QED BY <2>5 DEF t, q
<1> QED BY <1>8, <1>9, <1>10

LEMMA AssigningIs ==
  ASSUME NEW type, NEW w, NEW job, NEW tasks, Good(type, w), Assignable(w, job, tasks)
  PROVE  Assigned(type, w, job, tasks, Len(tasks), Assigning(w, job, tasks)[Len(tasks)])
<1> DEFINE m == Len(tasks)
           start == [worker |-> w, refused |-> {}]
           one(s, k) == AssignNext(s, <<job, tasks[Len(tasks) - k + 1]>>)
           U == [worker : AllWorkers, refused : SUBSET Key]
           S == [k \in 0 .. m |-> {s \in U : Assigned(type, w, job, tasks, k, s)}]
           step == [k \in 1 .. m |-> [s \in U |-> one(s, k)]]
           P(h) == h = [k \in 0 .. m |-> IF k = 0 THEN start ELSE one(h[k - 1], k)]
           after == Assigning(w, job, tasks)
<1>1. m \in Nat /\ job \in Jobs /\ \A i \in 1 .. m : tasks[i] \in Tasks
  <2>1. job \in Jobs /\ tasks \in Seq(Tasks)
    BY DEF Assignable
  <2> QED BY <2>1, LenProperties, ElementOfSeq
<1>2. after = CHOOSE h : P(h)
  BY DEF Assigning
<1>3. ASSUME NEW k \in 0 .. m, NEW s PROVE s \in S[k] <=> Assigned(type, w, job, tasks, k, s)
  <2>1. ASSUME Assigned(type, w, job, tasks, k, s) PROVE s \in U
    <3>1. s.worker \in AllWorkers
      BY <2>1, WorkerIn DEF Assigned, Good
    <3>2. Back(job, tasks, k) \subseteq Key
      <4>1. \A i \in 1 .. k : m - i + 1 \in 1 .. m
        BY <1>1
      <4>2. \A i \in 1 .. k : <<job, tasks[m - i + 1]>> \in Key
        BY <1>1, <4>1 DEF Key
      <4> QED BY <4>2 DEF Back
    <3>3. s = [worker |-> s.worker, refused |-> s.refused] /\ s.refused \in SUBSET Key
      BY <2>1, <3>2 DEF Assigned
    <3> QED BY <3>1, <3>3
  <2> QED BY <2>1
<1>4. S \in [0 .. m -> SUBSET U]
  OBVIOUS
<1>5. ASSUME NEW k \in 1 .. m, NEW s, Assigned(type, w, job, tasks, k - 1, s)
      PROVE  Assigned(type, w, job, tasks, k, one(s, k))
  BY <1>5, AssigningGoesOn
<1> HIDE DEF one, m, after, S, start, U
<1>6. start \in S[0]
  <2>1. Assigned(type, w, job, tasks, 0, start)
    BY AssigningStarts DEF start
  <2> QED BY <1>1, <1>3, <2>1
<1>7. ASSUME NEW k \in 1 .. m, NEW s \in S[k - 1]
      PROVE  s \in U /\ one(s, k) \in S[k]
  <2>1. k - 1 \in 0 .. m /\ k \in 0 .. m
    BY <1>1
  <2> QED BY <1>3, <1>4, <1>5, <1>7, <2>1
<1>8. \A k \in 1 .. m : \A s \in S[k - 1] : step[k][s] \in S[k]
  BY <1>7
<1>9. P(after)
  <2>1. PICK g : Loops(g, m, start, step) /\ \A k \in 0 .. m : g[k] \in S[k]
    <3> HIDE DEF step
    <3> QED BY <1>1, <1>4, <1>6, <1>8, LoopExists
  <2>2. ASSUME NEW k \in 0 .. m, k # 0 PROVE step[k][g[k - 1]] = one(g[k - 1], k)
    <3>1. k \in 1 .. m /\ k - 1 \in 0 .. m
      BY <1>1, <2>2
    <3>2. g[k - 1] \in U
      BY <1>7, <2>1, <3>1
    <3> QED BY <3>1, <3>2
  <2>3. P(g)
    <3> HIDE DEF step
    <3> QED BY <2>1, <2>2 DEF Loops
  <2> HIDE DEF P
  <2> QED BY <1>2, <2>3
<1>10. \A k \in 0 .. m : after[k] \in S[k]
  <2>1. after[0] \in S[0]
    BY <1>1, <1>6, <1>9
  <2>2. ASSUME NEW k \in 1 .. m, after[k - 1] \in S[k - 1] PROVE after[k] \in S[k]
    <3>1. k \in 0 .. m /\ k # 0
      BY <1>1
    <3>2. after[k] = one(after[k - 1], k)
      BY <1>9, <3>1
    <3> QED BY <1>7, <2>2, <3>2
  <2> HIDE DEF P
  <2> QED BY <1>1, <2>1, <2>2, LoopInvariant
<1>11. m \in 0 .. m
  BY <1>1
<1> QED BY <1>3, <1>10, <1>11 DEF after, m
-----------------------------------------------------------------------------
(* Requests.  The library comes first and changes the caches alone.        *)
Cached(w, v) ==
    /\ v.free_executors = w.free_executors /\ v.assignments = w.assignments
    /\ v.executors = w.executors /\ v.panicked = w.panicked

LEMMA CachedGood ==
  ASSUME NEW type, NEW w, Good(type, w),
         NEW c \in Seq(Jobs), Len(c) <= CacheSize, NEW g \in Seq(Jobs), Len(g) <= CacheSize,
         NEW v, v = [free_executors |-> w.free_executors, assignments |-> w.assignments,
                     executors |-> w.executors, job_cache |-> c, job_args |-> g,
                     panicked |-> w.panicked]
  PROVE  Good(type, v) /\ Cached(w, v)
<1>1. IsWorker(w) /\ Orderly(w) /\ Hands(type, w)
  BY DEF Good
<1>2. Cached(w, v)
  BY DEF Cached
<1>3. IsWorker(v)
  BY <1>1, WorkerTypes, IsAWorker
<1>4. Orderly(v) /\ Hands(type, v)
  BY <1>1, <1>2 DEF Cached, Orderly, Hands
<1> QED BY <1>2, <1>3, <1>4 DEF Good

LEMMA LibraryIs ==
  ASSUME NEW type, NEW w, Good(type, w), NEW request \in Request
  PROVE  /\ Good(type, process_library(w, request)) /\ Cached(w, process_library(w, request))
         /\ Good(type, process_module(w, request)) /\ Cached(w, process_module(w, request))
<1> DEFINE job == request.job
           C == Push(w.job_cache, job)
           G == Push(w.job_args, job)
           M == Promote(w.job_cache, job)
<1>1. job \in Jobs
  BY DEF Request
<1>2. /\ IsWorker(w) /\ w.job_cache \in Seq(Jobs) /\ Len(w.job_cache) <= CacheSize
      /\ w.job_args \in Seq(Jobs) /\ Len(w.job_args) <= CacheSize
  BY WorkerTypes DEF Good
<1>3. /\ C \in Seq(Jobs) /\ Len(C) <= CacheSize
      /\ G \in Seq(Jobs) /\ Len(G) <= CacheSize
  BY <1>1, <1>2, PushIs
<1>4. M \in Seq(Jobs) /\ (Contains(w.job_cache, job) => Len(M) = Len(w.job_cache))
  BY <1>1, <1>2, PromoteIs
<1> HIDE DEF job, C, G, M
<1>5. [w EXCEPT !.job_cache = C, !.job_args = G] =
        [free_executors |-> w.free_executors, assignments |-> w.assignments,
         executors |-> w.executors, job_cache |-> C, job_args |-> G, panicked |-> w.panicked]
  BY <1>2, TwoFields
<1>6. [w EXCEPT !.job_cache = M] =
        [free_executors |-> w.free_executors, assignments |-> w.assignments,
         executors |-> w.executors, job_cache |-> M, job_args |-> w.job_args,
         panicked |-> w.panicked]
  BY <1>2, Fields
<1>7. Good(type, [w EXCEPT !.job_cache = C, !.job_args = G])
      /\ Cached(w, [w EXCEPT !.job_cache = C, !.job_args = G])
  BY <1>3, <1>5, CachedGood
<1>8. CASE Contains(w.job_cache, job)
  <2>1. process_library(w, request) = [w EXCEPT !.job_cache = M] /\ process_module(w, request) = w
    BY <1>8 DEF process_library, process_module, job, M
  <2>2. Good(type, [w EXCEPT !.job_cache = M]) /\ Cached(w, [w EXCEPT !.job_cache = M])
    <3>1. Len(M) <= CacheSize
      BY <1>2, <1>4, <1>8
    <3> QED BY <1>2, <1>4, <1>6, <3>1, CachedGood
  <2> QED BY <2>1, <2>2 DEF Cached
<1>9. CASE ~Contains(w.job_cache, job)
  <2>1. process_library(w, request) = [w EXCEPT !.job_cache = C, !.job_args = G]
        /\ process_module(w, request) = [w EXCEPT !.job_cache = C, !.job_args = G]
    BY <1>9 DEF process_library, process_module, job, C, G
  <2> QED BY <1>7, <2>1
<1> QED BY <1>8, <1>9

(* What comes of a request for tasks that are not assigned yet: its worker *)
(* misses the library, or some tasks are refused and the others assigned,  *)
(* those that replace a task if that one was still assigned.               *)
Newly(request) == {<<request.job, t>> : t \in ToSet(request.tasks)}
InPlace(w, request) ==
    {<<request.job, p[2]>> : p \in {q \in ToSet(request.replacements) :
                                       <<request.job, q[1]>> \in DOMAIN w.assignments}}

Served(w, request, v, refused) ==
    /\ refused \subseteq Newly(request)
    /\ \A k \in DOMAIN v.assignments :
          IF k \in Asks(request) THEN Started(v, k, request.job) ELSE Same(w, v, k)
    /\ DOMAIN v.assignments =
          (DOMAIN w.assignments \ Gives(request)) \cup InPlace(w, request) \cup (Newly(request) \ refused)

Handled(type, w, request, done) ==
    /\ Good(type, done.worker)
    /\ \/ done = [worker |-> w, response |-> Response("LibraryMissing", Asks(request))]
       \/ \E refused :
             /\ Served(w, request, done.worker, refused)
             /\ done.response = IF refused = {} THEN NoResponse
                                ELSE Response("NoFreeExecutors", refused)

Acceptable(w, request) ==
    request \in Request /\ WellFormed(request) /\ Asks(request) \cap DOMAIN w.assignments = {}

LEMMA AcceptableIs ==
  ASSUME NEW w, NEW request, Acceptable(w, request)
  PROVE  /\ request.job \in Jobs /\ request.tasks \in Seq(Tasks)
         /\ request.replacements \in Seq(Tasks \X Tasks)
         /\ Replaceable(w, request.job, request.replacements)
         /\ Assignable(w, request.job, request.tasks)
         /\ \A i \in 1 .. Len(request.replacements) :
               New(request.job, request.replacements, i) \notin Newly(request)
<1> DEFINE job == request.job
           reps == request.replacements
           tasks == request.tasks
           D == DOMAIN w.assignments
<1>1. job \in Jobs /\ tasks \in Seq(Tasks) /\ reps \in Seq(Tasks \X Tasks)
  BY DEF Acceptable, Request
<1>2. /\ DOMAIN reps = 1 .. Len(reps) /\ DOMAIN tasks = 1 .. Len(tasks)
      /\ \A i \in 1 .. Len(reps) : reps[i] \in Tasks \X Tasks
  BY <1>1, LenProperties, ElementOfSeq
<1>3. /\ IsInjective(tasks) /\ Asks(request) \cap Gives(request) = {}
      /\ \A i \in 1 .. Len(reps) : /\ ~Contains(tasks, reps[i][2])
                                   /\ \A j \in 1 .. Len(reps) : i # j => reps[i][1] # reps[j][1]
                                                                      /\ reps[i][2] # reps[j][2]
  BY <1>2 DEF Acceptable, WellFormed
<1>4. Asks(request) \cap D = {}
  BY DEF Acceptable
<1>5. \A i \in 1 .. Len(reps) : New(job, reps, i) \in Asks(request) /\ Old(job, reps, i) \in Gives(request)
  <2>1. \A i \in 1 .. Len(reps) : reps[i] \in ToSet(reps)
    BY <1>2 DEF ToSet
  <2> QED BY <2>1 DEF Asks, Gives, New, Old
<1>6. \A i \in 1 .. Len(tasks) : <<job, tasks[i]>> \in Asks(request)
  <2>1. \A i \in 1 .. Len(tasks) : tasks[i] \in ToSet(tasks)
    BY <1>2 DEF ToSet
  <2> QED BY <2>1 DEF Asks
<1>7. Assignable(w, job, tasks)
  BY <1>1, <1>3, <1>4, <1>6 DEF Assignable
<1>8. Replaceable(w, job, reps)
  <2>1. ASSUME NEW i \in 1 .. Len(reps), NEW j \in 1 .. Len(reps), i # j
        PROVE  Old(job, reps, i) # Old(job, reps, j) /\ New(job, reps, i) # New(job, reps, j)
    BY <1>3, <2>1 DEF Old, New
  <2> QED BY <1>1, <1>3, <1>4, <1>5, <2>1 DEF Replaceable
<1>9. ASSUME NEW i \in 1 .. Len(reps), New(job, reps, i) \in Newly(request) PROVE FALSE
  <2>1. PICK t \in ToSet(tasks) : New(job, reps, i) = <<job, t>>
    BY <1>9 DEF Newly
  <2>2. t = reps[i][2]
    BY <2>1 DEF New
  <2>3. Contains(tasks, t)
    BY DEF Contains, ToSet
  <2> QED BY <1>3, <2>2, <2>3
<1> QED BY <1>1, <1>7, <1>8, <1>9

(* The tasks of a request by their places. *)
LEMMA ByPlace ==
  ASSUME NEW w, NEW request, Acceptable(w, request)
  PROVE  LET job == request.job
             reps == request.replacements
             tasks == request.tasks
             m == Len(reps)
         IN  /\ {Old(job, reps, i) : i \in 1 .. m} = Gives(request)
             /\ {New(job, reps, i) : i \in {j \in 1 .. m : Old(job, reps, j) \in DOMAIN w.assignments}}
                    = InPlace(w, request)
             /\ {New(job, reps, i) : i \in 1 .. m} \cup Newly(request) = Asks(request)
             /\ Back(job, tasks, Len(tasks)) = Newly(request)
<1> DEFINE job == request.job
           reps == request.replacements
           tasks == request.tasks
           m == Len(reps)
           n == Len(tasks)
<1>1. tasks \in Seq(Tasks) /\ reps \in Seq(Tasks \X Tasks)
  BY AcceptableIs
<1>2. /\ m \in Nat /\ n \in Nat
      /\ ToSet(reps) = {reps[i] : i \in 1 .. m} /\ ToSet(tasks) = {tasks[i] : i \in 1 .. n}
  BY <1>1, LenProperties DEF ToSet
<1> HIDE DEF job, reps, tasks, m, n
<1>3. {Old(job, reps, i) : i \in 1 .. m} = Gives(request)
  BY <1>2 DEF Gives, Old, job, reps
<1>4. {New(job, reps, i) : i \in {j \in 1 .. m : Old(job, reps, j) \in DOMAIN w.assignments}}
        = InPlace(w, request)
  BY <1>2 DEF InPlace, New, Old, job, reps
<1>5. {New(job, reps, i) : i \in 1 .. m} \cup Newly(request) = Asks(request)
  BY <1>2 DEF Asks, Newly, New, job, reps
<1>6. Back(job, tasks, n) = Newly(request)
  <2>1. \A i \in 1 .. n : n - i + 1 \in 1 .. n /\ n - (n - i + 1) + 1 = i
    BY <1>2
  <2>2. Back(job, tasks, n) = {<<job, tasks[n - i + 1]>> : i \in 1 .. n}
    BY DEF Back, n
  <2>3. Newly(request) = {<<job, tasks[i]>> : i \in 1 .. n}
    BY <1>2 DEF Newly, job, tasks
  <2> QED BY <2>1, <2>2, <2>3
<1> QED BY <1>3, <1>4, <1>5, <1>6 DEF job, reps, tasks, m, n

LEMMA ServedIs ==
  ASSUME NEW type, NEW w, NEW request, Acceptable(w, request),
         NEW u, Cached(w, u),
         NEW b, Replaced(type, u, request.job, request.replacements, Len(request.replacements), b)
  PROVE  Handled(type, w, request, process_tasks_assignment(b, request.job, request.tasks))
<1> DEFINE job == request.job
           reps == request.replacements
           tasks == request.tasks
           m == Len(reps)
           n == Len(tasks)
           N == {New(job, reps, i) : i \in 1 .. m}
           D == DOMAIN w.assignments
           s == Assigning(b, job, tasks)[n]
           v == s.worker
<1>1. /\ Newly(request) \subseteq Asks(request) /\ Asks(request) \cap D = {}
      /\ Assignable(w, job, tasks)
      /\ N \cap Newly(request) = {} /\ N \cup Newly(request) = Asks(request)
      /\ Back(job, tasks, n) = Newly(request)
      /\ \A i \in 1 .. n : <<job, tasks[i]>> \in Newly(request)
  <2>1. Asks(request) \cap D = {}
    BY DEF Acceptable
  <2>2. Assignable(w, job, tasks) /\ N \cap Newly(request) = {} /\ tasks \in Seq(Tasks)
    BY AcceptableIs
  <2>3. N \cup Newly(request) = Asks(request) /\ Back(job, tasks, n) = Newly(request)
    BY ByPlace
  <2>4. \A i \in 1 .. n : tasks[i] \in ToSet(tasks)
    BY <2>2, LenProperties DEF ToSet
  <2>5. \A i \in 1 .. n : <<job, tasks[i]>> \in Newly(request)
    BY <2>4 DEF Newly
  <2> QED BY <2>1, <2>2, <2>3, <2>5
<1>2. /\ Good(type, b) /\ Moved(u, b, job, N)
      /\ DOMAIN b.assignments = (D \ Gives(request)) \cup InPlace(w, request)
      /\ InPlace(w, request) \subseteq N
  <2>1. u.assignments = w.assignments
    BY DEF Cached
  <2>2. DOMAIN b.assignments = (D \ {Old(job, reps, i) : i \in 1 .. m})
            \cup {New(job, reps, i) : i \in {j \in 1 .. m : Old(job, reps, j) \in D}}
    BY <2>1 DEF Replaced, KeysAfter
  <2>3. /\ {Old(job, reps, i) : i \in 1 .. m} = Gives(request)
        /\ {New(job, reps, i) : i \in {j \in 1 .. m : Old(job, reps, j) \in D}} = InPlace(w, request)
    BY ByPlace
  <2>4. {New(job, reps, i) : i \in {j \in 1 .. m : Old(job, reps, j) \in D}} \subseteq N
    OBVIOUS
  <2>5. Good(type, b) /\ Moved(u, b, job, N)
    BY DEF Replaced
  <2> QED BY <2>2, <2>3, <2>4, <2>5
<1> HIDE DEF N
<1>3. Assignable(b, job, tasks)
  <2>1. \A i \in 1 .. n : <<job, tasks[i]>> \notin DOMAIN b.assignments
    BY <1>1, <1>2
  <2> QED BY <1>1, <2>1 DEF Assignable
<1>4. Assigned(type, b, job, tasks, n, s)
  BY <1>2, <1>3, AssigningIs
<1> HIDE DEF s
<1>5. /\ Good(type, v) /\ Moved(b, v, job, Newly(request)) /\ s.refused \subseteq Newly(request)
      /\ DOMAIN v.assignments = DOMAIN b.assignments \cup (Newly(request) \ s.refused)
  BY <1>1, <1>4 DEF Assigned
<1> HIDE DEF v
<1>6. Moved(u, v, job, Asks(request))
  BY <1>1, <1>2, <1>5, MovedTwice
<1>7. ASSUME NEW k \in DOMAIN v.assignments
      PROVE  IF k \in Asks(request) THEN Started(v, k, job) ELSE Same(w, v, k)
  BY <1>6 DEF Moved, Same, Cached
<1>8. Served(w, request, v, s.refused)
  BY <1>2, <1>5, <1>7 DEF Served
<1>9. process_tasks_assignment(b, job, tasks) =
        [worker |-> v, response |-> IF s.refused = {} THEN NoResponse
                                    ELSE Response("NoFreeExecutors", s.refused)]
  BY DEF process_tasks_assignment, s, v
<1> QED BY <1>5, <1>8, <1>9 DEF Handled

LEMMA dll_process_requestIs ==
  ASSUME NEW w, NEW request, Good("dll", w), Acceptable(w, request)
  PROVE  Handled("dll", w, request, dll_process_request(w, request))
<1> DEFINE u == process_library(w, request)
           job == request.job
           reps == request.replacements
           b == dll_replacing(u, job, reps)[Len(reps)]
<1>1. CASE HasLibrary(w, request)
  <2>1. Good("dll", u) /\ Cached(w, u)
    BY LibraryIs DEF Acceptable
  <2>2. Acceptable(u, request)
    BY <2>1 DEF Acceptable, Cached
  <2>3. Replaceable(u, job, reps)
    BY <2>2, AcceptableIs
  <2>4. dll_process_request(w, request) = process_tasks_assignment(b, job, request.tasks)
    BY <1>1 DEF dll_process_request
  <2> HIDE DEF u
  <2>5. Replaced("dll", u, job, reps, Len(reps), b)
    BY <2>1, <2>3, dll_replacingIs
  <2> HIDE DEF b
  <2> QED BY <2>1, <2>4, <2>5, ServedIs
<1>2. CASE ~HasLibrary(w, request)
  BY <1>2 DEF dll_process_request, Handled
<1> QED BY <1>1, <1>2

LEMMA wasm_process_requestIs ==
  ASSUME NEW w, NEW request, Good("wasm", w), Acceptable(w, request)
  PROVE  Handled("wasm", w, request, wasm_process_request(w, request))
<1> DEFINE u == process_module(w, request)
           job == request.job
           reps == request.replacements
           b == wasm_replacing(u, job, reps)[Len(reps)]
<1>1. CASE HasModule(w, request)
  <2>1. Good("wasm", u) /\ Cached(w, u)
    BY LibraryIs DEF Acceptable
  <2>2. Acceptable(u, request)
    BY <2>1 DEF Acceptable, Cached
  <2>3. Replaceable(u, job, reps)
    BY <2>2, AcceptableIs
  <2>4. wasm_process_request(w, request) = process_tasks_assignment(b, job, request.tasks)
    BY <1>1 DEF wasm_process_request
  <2> HIDE DEF u
  <2>5. Replaced("wasm", u, job, reps, Len(reps), b)
    BY <2>1, <2>3, wasm_replacingIs
  <2> HIDE DEF b
  <2> QED BY <2>1, <2>4, <2>5, ServedIs
<1>2. CASE ~HasModule(w, request)
  BY <1>2 DEF wasm_process_request, Handled
<1> QED BY <1>1, <1>2
-----------------------------------------------------------------------------
(* The reset: the executors ids, those that have a task, are freed one     *)
(* after the other.                                                        *)
Resetting(type, w, ids, k, v) ==
    /\ IsWorker(v) /\ IsFiniteSet(DOMAIN v.executors)
    /\ v.assignments = w.assignments
    /\ IsInjective(v.free_executors)
    /\ \A i \in k + 1 .. Len(ids) : ids[i] \notin Range(v.free_executors)
    /\ \A e \in DOMAIN v.executors :
          /\ e \in Range(v.free_executors) \/ \E i \in k + 1 .. Len(ids) : e = ids[i]
          /\ v.executors[e].running => v.executors[e].jobs # <<>>
    /\ IF type = "dll" THEN \A e \in Range(v.free_executors) : InHand(v.executors[e]) = {}
       ELSE Range(w.assignments) \subseteq DOMAIN v.executors

Resettable(w, ids) ==
    /\ ids \in Seq(Nat) /\ IsInjective(ids) /\ Range(ids) = Range(w.assignments)
    /\ IsFiniteSet(DOMAIN w.assignments)

LEMMA ResettingStarts ==
  ASSUME NEW type, NEW w, Good(type, w), NEW ids, Resettable(w, ids)
  PROVE  Resetting(type, w, ids, 0, w)
<1>1. /\ IsWorker(w) /\ Hands(type, w) /\ IsFiniteSet(DOMAIN w.executors)
      /\ IsInjective(w.free_executors)
      /\ Range(w.free_executors) \cap Range(w.assignments) = {}
      /\ DOMAIN w.executors \subseteq Range(w.free_executors) \cup Range(w.assignments)
      /\ \A e \in DOMAIN w.executors : w.executors[e].running => w.executors[e].jobs # <<>>
      /\ Range(w.free_executors) \subseteq DOMAIN w.executors
  BY GoodIs, WorkerTypes
<1>2. /\ DOMAIN ids = 0 + 1 .. Len(ids) /\ Range(ids) = Range(w.assignments)
  BY LenProperties DEF Resettable
<1>3. \A i \in 0 + 1 .. Len(ids) : ids[i] \in Range(w.assignments)
  BY <1>2 DEF Range
<1>4. \A e \in Range(w.assignments) : \E i \in 0 + 1 .. Len(ids) : e = ids[i]
  <2>1. \A e \in Range(ids) : \E i \in DOMAIN ids : e = ids[i]
    BY DEF Range
  <2> QED BY <1>2, <2>1
<1>5. ASSUME type = "dll", NEW e \in Range(w.free_executors) PROVE InHand(w.executors[e]) = {}
  BY <1>1, <1>5, NothingInHand
<1>6. type # "dll" => Range(w.assignments) \subseteq DOMAIN w.executors
  BY <1>1 DEF Hands
<1> QED BY <1>1, <1>3, <1>4, <1>5, <1>6 DEF Resetting

(* Once all are freed the assignments can go. *)
LEMMA ResettingEnds ==
  ASSUME NEW type, NEW w, NEW ids, Resettable(w, ids), NEW v, Resetting(type, w, ids, Len(ids), v)
  PROVE  /\ Good(type, [v EXCEPT !.assignments = Empty])
         /\ [v EXCEPT !.assignments = Empty].assignments = Empty
<1> DEFINE u == [v EXCEPT !.assignments = Empty]
<1>1. Len(ids) \in Nat
  BY LenProperties DEF Resettable
<1>2. \A i \in Len(ids) + 1 .. Len(ids) : FALSE
  BY <1>1
<1>3. /\ IsWorker(v) /\ IsFiniteSet(DOMAIN v.executors) /\ IsInjective(v.free_executors)
      /\ \A e \in DOMAIN v.executors :
            e \in Range(v.free_executors) /\ (v.executors[e].running => v.executors[e].jobs # <<>>)
      /\ type = "dll" => \A e \in Range(v.free_executors) : InHand(v.executors[e]) = {}
  BY <1>2 DEF Resetting
<1>4. u = [free_executors |-> v.free_executors, assignments |-> Empty, executors |-> v.executors,
           job_cache |-> v.job_cache, job_args |-> v.job_args, panicked |-> v.panicked]
  BY <1>3, Fields
<1>5. DOMAIN Empty = {} /\ Range(Empty) = {} /\ IsInjective(Empty) /\ IsMap(Empty, Key, Nat)
  BY EmptyIs
<1> HIDE DEF u
<1>6. IsWorker(u)
  BY <1>3, <1>4, <1>5, WorkerTypes, IsAWorker
<1>7. u.free_executors = v.free_executors /\ u.executors = v.executors /\ u.assignments = Empty
  BY <1>4
<1>8. Orderly(u)
  <2>1. IsFiniteSet({})
    BY FS_EmptySet
  <2> QED BY <1>3, <1>5, <1>7, <2>1 DEF Orderly
<1>9. Hands(type, u)
  <2>1. CASE type = "dll"
    <3>1. ASSUME NEW e \in DOMAIN v.executors
          PROVE  InHand(v.executors[e]) = {} /\ Len(v.executors[e].jobs) + Len(v.executors[e].results) <= 1
      <4>1. InHand(v.executors[e]) = {} /\ v.executors[e] \in Executor
        BY <1>3, <2>1, WorkerTypes
      <4>2. v.executors[e].jobs = <<>> /\ v.executors[e].results = <<>>
        BY <4>1, ExecutorIs
      <4>3. Len(<<>>) = 0
        OBVIOUS
      <4> QED BY <4>1, <4>2, <4>3
    <3> QED BY <1>7, <2>1, <3>1 DEF Hands
  <2>2. CASE type # "dll"
    BY <1>5, <1>7, <2>2 DEF Hands
  <2> QED BY <2>1, <2>2
<1> QED BY <1>6, <1>7, <1>8, <1>9 DEF Good, u

LEMMA dll_ResettingGoesOn ==
  ASSUME NEW w, NEW ids, Resettable(w, ids), NEW k \in 1 .. Len(ids),
         NEW v, Resetting("dll", w, ids, k - 1, v)
  PROVE  Resetting("dll", w, ids, k, RestartNext(v, ids[k]))
<1> DEFINE n == Len(ids)
           e == ids[k]
           r == restart_executor(v, e)
           b == r.worker
           id == r.id
           u == Free(b, id)
<1>1. /\ n \in Nat /\ DOMAIN ids = 1 .. n /\ IsInjective(ids) /\ Range(ids) = Range(w.assignments)
      /\ IsFiniteSet(DOMAIN w.assignments)
  BY LenProperties DEF Resettable
<1>2. /\ k - 1 + 1 = k
      /\ \A i \in k + 1 .. n : i \in k .. n
      /\ \A i \in k .. n : i \in 1 .. n /\ (i = k \/ i \in k + 1 .. n)
  BY <1>1
<1> HIDE DEF n
<1>3. /\ IsWorker(v) /\ IsFiniteSet(DOMAIN v.executors)
      /\ v.assignments = w.assignments /\ IsInjective(v.free_executors)
      /\ \A i \in k .. n : ids[i] \notin Range(v.free_executors)
      /\ \A z \in DOMAIN v.executors :
            /\ z \in Range(v.free_executors) \/ \E i \in k .. n : z = ids[i]
            /\ v.executors[z].running => v.executors[z].jobs # <<>>
      /\ \A z \in Range(v.free_executors) : InHand(v.executors[z]) = {}
  BY <1>2 DEF Resetting, n
<1>4. Restarted(v, e, b, id)
  <2>1. IsFiniteSet(DOMAIN v.assignments)
    BY <1>1, <1>3
  <2> HIDE DEF e
  <2> QED BY <1>3, <2>1, RestartIs
<1>5. RestartNext(v, e) = u
  BY DEF RestartNext
<1> HIDE DEF b, id
<1>6. /\ id \in Nat /\ id \notin DOMAIN v.executors /\ id \notin Range(w.assignments)
      /\ IsWorker(b)
      /\ DOMAIN b.executors = (DOMAIN v.executors \ {e}) \cup {id}
      /\ b.executors[id] = Idle
      /\ \A x \in DOMAIN v.executors \ {e} : b.executors[x] = v.executors[x]
      /\ IsFiniteSet(DOMAIN b.executors)
      /\ IsInjective(b.free_executors)
      /\ Range(b.free_executors) = Range(v.free_executors) \ {e}
      /\ b.assignments = w.assignments
  BY <1>3, <1>4 DEF Restarted
<1>7. Range(v.free_executors) \subseteq DOMAIN v.executors
  BY <1>3, WorkerTypes
<1>8. Freed(b, id, u)
  BY <1>6, <1>7, FreeIs
<1> HIDE DEF u
<1>9. /\ IsWorker(u) /\ u.assignments = w.assignments /\ u.executors = b.executors
      /\ IsInjective(u.free_executors)
      /\ Range(u.free_executors) = (Range(v.free_executors) \ {e}) \cup {id}
  BY <1>6, <1>8 DEF Freed
<1>10. \A i \in k + 1 .. n : ids[i] \notin Range(u.free_executors)
  <2>1. \A i \in k .. n : ids[i] \in Range(w.assignments)
    BY <1>1, <1>2 DEF Range
  <2> QED BY <1>2, <1>3, <1>6, <1>9, <2>1
<1>11. ASSUME NEW z \in DOMAIN u.executors
       PROVE  /\ z \in Range(u.free_executors) \/ \E i \in k + 1 .. n : z = ids[i]
              /\ u.executors[z].running => u.executors[z].jobs # <<>>
  <2>1. CASE z = id
    <3>1. u.executors[z] = Idle
      BY <1>6, <1>9, <2>1
    <3> QED BY <1>9, <2>1, <3>1, IdleIs
  <2>2. CASE z # id
    <3>1. z \in DOMAIN v.executors /\ z # e /\ u.executors[z] = v.executors[z]
      BY <1>6, <1>9, <2>2
    <3>2. z \in Range(v.free_executors) \/ \E i \in k + 1 .. n : z = ids[i]
      BY <1>2, <1>3, <3>1
    <3> QED BY <1>3, <1>9, <3>1, <3>2
  <2> QED BY <2>1, <2>2
<1>12. ASSUME NEW z \in Range(u.free_executors) PROVE InHand(u.executors[z]) = {}
  <2>1. CASE z = id
    <3>1. u.executors[z] = Idle
      BY <1>6, <1>9, <2>1
    <3> QED BY <3>1, IdleIs
  <2>2. CASE z # id
    <3>1. z \in Range(v.free_executors) /\ z # e
      BY <1>9, <2>2
    <3>2. u.executors[z] = v.executors[z]
      BY <1>6, <1>7, <1>9, <3>1
    <3> QED BY <1>3, <3>1, <3>2
  <2> QED BY <2>1, <2>2
<1>13. Resetting("dll", w, ids, k, u)
  BY <1>6, <1>9, <1>10, <1>11, <1>12 DEF Resetting, n
<1> QED BY <1>5, <1>13

LEMMA wasm_ResettingGoesOn ==
  ASSUME NEW w, NEW ids, Resettable(w, ids), NEW k \in 1 .. Len(ids),
         NEW v, Resetting("wasm", w, ids, k - 1, v)
  PROVE  Resetting("wasm", w, ids, k, AbortNext(v, ids[k]))
<1> DEFINE n == Len(ids)
           e == ids[k]
           b == abort_executor(v, e)
           u == Free(b, e)
<1>1. /\ n \in Nat /\ DOMAIN ids = 1 .. n /\ IsInjective(ids) /\ Range(ids) = Range(w.assignments)
      /\ IsFiniteSet(DOMAIN w.assignments)
  BY LenProperties DEF Resettable
<1>2. /\ k - 1 + 1 = k
      /\ \A i \in k + 1 .. n : i \in k .. n
      /\ \A i \in k + 1 .. n : i # k
      /\ \A i \in k .. n : i \in 1 .. n /\ (i = k \/ i \in k + 1 .. n)
      /\ k \in 1 .. n /\ k \in k .. n
  BY <1>1
<1> HIDE DEF n
<1>3. /\ IsWorker(v) /\ IsFiniteSet(DOMAIN v.executors)
      /\ v.assignments = w.assignments /\ IsInjective(v.free_executors)
      /\ \A i \in k .. n : ids[i] \notin Range(v.free_executors)
      /\ \A z \in DOMAIN v.executors :
            /\ z \in Range(v.free_executors) \/ \E i \in k .. n : z = ids[i]
            /\ v.executors[z].running => v.executors[z].jobs # <<>>
      /\ Range(w.assignments) \subseteq DOMAIN v.executors
  BY <1>2 DEF Resetting, n
<1>4. e \in DOMAIN v.executors /\ e \notin Range(v.free_executors)
  <2>1. e \in Range(ids)
    BY <1>1, <1>2 DEF Range
  <2> QED BY <1>1, <1>2, <1>3, <2>1
<1>5. AbortNext(v, e) = u
  BY DEF AbortNext
<1>6. /\ IsWorker(b)
      /\ b.free_executors = v.free_executors /\ b.assignments = v.assignments
      /\ DOMAIN b.executors = DOMAIN v.executors
      /\ \A z \in DOMAIN v.executors \ {e} : b.executors[z] = v.executors[z]
      /\ b.executors[e].jobs = v.executors[e].jobs /\ b.executors[e].running = v.executors[e].running
  <2> HIDE DEF e
  <2> QED BY <1>3, <1>4, AbortIs
<1> HIDE DEF b
<1>7. Freed(b, e, u)
  <2> HIDE DEF e
  <2> QED BY <1>3, <1>4, <1>6, FreeIs
<1> HIDE DEF u
<1>8. /\ IsWorker(u) /\ u.assignments = w.assignments /\ u.executors = b.executors
      /\ IsInjective(u.free_executors)
      /\ Range(u.free_executors) = Range(v.free_executors) \cup {e}
  BY <1>3, <1>6, <1>7 DEF Freed
<1>9. \A i \in k + 1 .. n : ids[i] \notin Range(u.free_executors)
  <2>1. \A i \in k + 1 .. n : ids[i] # e
    BY <1>1, <1>2 DEF IsInjective
  <2> QED BY <1>2, <1>3, <1>8, <2>1
<1>10. ASSUME NEW z \in DOMAIN u.executors
       PROVE  /\ z \in Range(u.free_executors) \/ \E i \in k + 1 .. n : z = ids[i]
              /\ u.executors[z].running => u.executors[z].jobs # <<>>
  <2>1. z \in Range(u.free_executors) \/ \E i \in k + 1 .. n : z = ids[i]
    BY <1>2, <1>3, <1>6, <1>8
  <2>2. u.executors[z].running => u.executors[z].jobs # <<>>
    BY <1>3, <1>6, <1>8
  <2> QED BY <2>1, <2>2
<1>11. Resetting("wasm", w, ids, k, u)
  BY <1>3, <1>6, <1>8, <1>9, <1>10 DEF Resetting, n
<1> QED BY <1>5, <1>11

LEMMA dll_resettingIs ==
  ASSUME NEW w, Good("dll", w), NEW ids, Resettable(w, ids)
  PROVE  Resetting("dll", w, ids, Len(ids), dll_resetting(w, ids)[Len(ids)])
<1> DEFINE m == Len(ids)
           one(v, k) == RestartNext(v, ids[k])
           S == [k \in 0 .. m |-> {v \in AllWorkers : Resetting("dll", w, ids, k, v)}]
           step == [k \in 1 .. m |-> [v \in AllWorkers |-> one(v, k)]]
           P(h) == h = [k \in 0 .. m |-> IF k = 0 THEN w ELSE one(h[k - 1], k)]
           after == dll_resetting(w, ids)
<1>1. m \in Nat
  BY LenProperties DEF Resettable
<1>2. after = CHOOSE h : P(h)
  BY DEF dll_resetting
<1>3. ASSUME NEW k \in 0 .. m, NEW v PROVE v \in S[k] <=> Resetting("dll", w, ids, k, v)
  <2>1. Resetting("dll", w, ids, k, v) => v \in AllWorkers
    BY WorkerIn DEF Resetting
  <2> QED BY <2>1
<1>4. S \in [0 .. m -> SUBSET AllWorkers]
  OBVIOUS
<1>5. ASSUME NEW k \in 1 .. m, NEW v, Resetting("dll", w, ids, k - 1, v)
      PROVE  Resetting("dll", w, ids, k, one(v, k))
  BY <1>5, dll_ResettingGoesOn
<1> HIDE DEF one, m, after, S
<1>6. w \in S[0]
  <2>1. Resetting("dll", w, ids, 0, w)
    BY ResettingStarts
  <2> QED BY <1>1, <1>3, <2>1
<1>7. ASSUME NEW k \in 1 .. m, NEW v \in S[k - 1]
      PROVE  v \in AllWorkers /\ one(v, k) \in S[k]
  <2>1. k - 1 \in 0 .. m /\ k \in 0 .. m
    BY <1>1
  <2> QED BY <1>3, <1>4, <1>5, <1>7, <2>1
<1>8. \A k \in 1 .. m : \A v \in S[k - 1] : step[k][v] \in S[k]
  BY <1>7
<1>9. P(after)
  <2>1. PICK g : Loops(g, m, w, step) /\ \A k \in 0 .. m : g[k] \in S[k]
    <3> HIDE DEF step
    <3> QED BY <1>1, <1>4, <1>6, <1>8, LoopExists
  <2>2. ASSUME NEW k \in 0 .. m, k # 0 PROVE step[k][g[k - 1]] = one(g[k - 1], k)
    <3>1. k \in 1 .. m /\ k - 1 \in 0 .. m
      BY <1>1, <2>2
    <3>2. g[k - 1] \in AllWorkers
      BY <1>7, <2>1, <3>1
    <3> QED BY <3>1, <3>2
  <2>3. P(g)
    <3> HIDE DEF step
    <3> QED BY <2>1, <2>2 DEF Loops
  <2> HIDE DEF P
  <2> QED BY <1>2, <2>3
<1>10. \A k \in 0 .. m : after[k] \in S[k]
  <2>1. after[0] \in S[0]
    BY <1>1, <1>6, <1>9
  <2>2. ASSUME NEW k \in 1 .. m, after[k - 1] \in S[k - 1] PROVE after[k] \in S[k]
    <3>1. k \in 0 .. m /\ k # 0
      BY <1>1
    <3>2. after[k] = one(after[k - 1], k)
      BY <1>9, <3>1
    <3> QED BY <1>7, <2>2, <3>2
  <2> HIDE DEF P
  <2> QED BY <1>1, <2>1, <2>2, LoopInvariant
<1>11. m \in 0 .. m
  BY <1>1
<1> QED BY <1>3, <1>10, <1>11 DEF after, m


LEMMA wasm_resettingIs ==
  ASSUME NEW w, Good("wasm", w), NEW ids, Resettable(w, ids)
  PROVE  Resetting("wasm", w, ids, Len(ids), wasm_resetting(w, ids)[Len(ids)])
<1> DEFINE m == Len(ids)
           one(v, k) == AbortNext(v, ids[k])
           S == [k \in 0 .. m |-> {v \in AllWorkers : Resetting("wasm", w, ids, k, v)}]
           step == [k \in 1 .. m |-> [v \in AllWorkers |-> one(v, k)]]
           P(h) == h = [k \in 0 .. m |-> IF k = 0 THEN w ELSE one(h[k - 1], k)]
           after == wasm_resetting(w, ids)
<1>1. m \in Nat
  BY LenProperties DEF Resettable
<1>2. after = CHOOSE h : P(h)
  BY DEF wasm_resetting
<1>3. ASSUME NEW k \in 0 .. m, NEW v PROVE v \in S[k] <=> Resetting("wasm", w, ids, k, v)
  <2>1. Resetting("wasm", w, ids, k, v) => v \in AllWorkers
    BY WorkerIn DEF Resetting
  <2> QED BY <2>1
<1>4. S \in [0 .. m -> SUBSET AllWorkers]
  OBVIOUS
<1>5. ASSUME NEW k \in 1 .. m, NEW v, Resetting("wasm", w, ids, k - 1, v)
      PROVE  Resetting("wasm", w, ids, k, one(v, k))
  BY <1>5, wasm_ResettingGoesOn
<1> HIDE DEF one, m, after, S
<1>6. w \in S[0]
  <2>1. Resetting("wasm", w, ids, 0, w)
    BY ResettingStarts
  <2> QED BY <1>1, <1>3, <2>1
<1>7. ASSUME NEW k \in 1 .. m, NEW v \in S[k - 1]
      PROVE  v \in AllWorkers /\ one(v, k) \in S[k]
  <2>1. k - 1 \in 0 .. m /\ k \in 0 .. m
    BY <1>1
  <2> QED BY <1>3, <1>4, <1>5, <1>7, <2>1
<1>8. \A k \in 1 .. m : \A v \in S[k - 1] : step[k][v] \in S[k]
  BY <1>7
<1>9. P(after)
  <2>1. PICK g : Loops(g, m, w, step) /\ \A k \in 0 .. m : g[k] \in S[k]
    <3> HIDE DEF step
    <3> QED BY <1>1, <1>4, <1>6, <1>8, LoopExists
  <2>2. ASSUME NEW k \in 0 .. m, k # 0 PROVE step[k][g[k - 1]] = one(g[k - 1], k)
    <3>1. k \in 1 .. m /\ k - 1 \in 0 .. m
      BY <1>1, <2>2
    <3>2. g[k - 1] \in AllWorkers
      BY <1>7, <2>1, <3>1
    <3> QED BY <3>1, <3>2
  <2>3. P(g)
    <3> HIDE DEF step
    <3> QED BY <2>1, <2>2 DEF Loops
  <2> HIDE DEF P
  <2> QED BY <1>2, <2>3
<1>10. \A k \in 0 .. m : after[k] \in S[k]
  <2>1. after[0] \in S[0]
    BY <1>1, <1>6, <1>9
  <2>2. ASSUME NEW k \in 1 .. m, after[k - 1] \in S[k - 1] PROVE after[k] \in S[k]
    <3>1. k \in 0 .. m /\ k # 0
      BY <1>1
    <3>2. after[k] = one(after[k - 1], k)
      BY <1>9, <3>1
    <3> QED BY <1>7, <2>2, <3>2
  <2> HIDE DEF P
  <2> QED BY <1>1, <2>1, <2>2, LoopInvariant
<1>11. m \in 0 .. m
  BY <1>1
<1> QED BY <1>3, <1>10, <1>11 DEF after, m

(* The executors of the assigned tasks, in the order the map gives. *)
Busy(w) ==
    [i \in DOMAIN SetToSeq(DOMAIN w.assignments) |-> w.assignments[SetToSeq(DOMAIN w.assignments)[i]]]

LEMMA BusyIs ==
  ASSUME NEW type, NEW w, Good(type, w)
  PROVE  Resettable(w, Busy(w))
<1> DEFINE D == DOMAIN w.assignments
           A == w.assignments
           order == SetToSeq(D)
           ids == [i \in DOMAIN order |-> A[order[i]]]
<1>1. IsFiniteSet(D) /\ IsInjective(A) /\ \A k \in D : A[k] \in Nat
  BY GoodIs, WorkerTypes
<1> HIDE DEF D, A
<1>2. order \in Seq(D) /\ IsInjective(order) /\ Range(order) = D
  BY <1>1, SetToSeqIs
<1> HIDE DEF order
<1>3. DOMAIN order = 1 .. Len(order) /\ Len(order) \in Nat /\ \A i \in DOMAIN order : order[i] \in D
  BY <1>2, LenProperties, ElementOfSeq
<1>4. ids \in Seq(Nat)
  <2>1. ids \in [1 .. Len(order) -> Nat]
    BY <1>1, <1>3
  <2> HIDE DEF ids
  <2> QED BY <1>3, <2>1, IsASeq
<1>5. DOMAIN A = D
  BY DEF A, D
<1>6. IsInjective(ids)
  BY <1>1, <1>2, <1>3, <1>5 DEF IsInjective
<1>7. Range(ids) = Range(A)
  <2>1. \A i \in DOMAIN order : A[order[i]] \in Range(A)
    BY <1>3, <1>5 DEF Range
  <2>2. \A k \in D : \E i \in DOMAIN order : order[i] = k
    BY <1>2 DEF Range
  <2>3. \A k \in D : \E i \in DOMAIN order : A[order[i]] = A[k]
    BY <2>2
  <2> QED BY <1>5, <2>1, <2>3 DEF Range
<1>8. Busy(w) = ids
  BY DEF Busy, order, A, D
<1> HIDE DEF ids
<1> QED BY <1>1, <1>4, <1>6, <1>7, <1>8 DEF Resettable, A, D

(* A reset leaves a worker in order, with nothing assigned. *)
LEMMA ResetIs ==
  ASSUME NEW w
  PROVE  /\ Good("dll", w) => Good("dll", dll_reset(w)) /\ dll_reset(w).assignments = Empty
         /\ Good("wasm", w) => Good("wasm", wasm_reset(w)) /\ wasm_reset(w).assignments = Empty
<1> DEFINE ids == Busy(w)
           d == dll_resetting(w, ids)[Len(ids)]
           m == wasm_resetting(w, ids)[Len(ids)]
<1>1. dll_reset(w) = [d EXCEPT !.assignments = Empty]
  BY DEF dll_reset, Busy
<1>2. wasm_reset(w) = [m EXCEPT !.assignments = Empty]
  BY DEF wasm_reset, Busy
<1> HIDE DEF ids
<1>3. ASSUME Good("dll", w) PROVE Good("dll", dll_reset(w)) /\ dll_reset(w).assignments = Empty
  <2>1. Resettable(w, ids)
    BY <1>3, BusyIs DEF ids
  <2>2. Resetting("dll", w, ids, Len(ids), d)
    BY <1>3, <2>1, dll_resettingIs
  <2> HIDE DEF d
  <2> QED BY <1>1, <2>1, <2>2, ResettingEnds
<1>4. ASSUME Good("wasm", w) PROVE Good("wasm", wasm_reset(w)) /\ wasm_reset(w).assignments = Empty
  <2>1. Resettable(w, ids)
    BY <1>4, BusyIs DEF ids
  <2>2. Resetting("wasm", w, ids, Len(ids), m)
    BY <1>4, <2>1, wasm_resettingIs
  <2> HIDE DEF m
  <2> QED BY <1>2, <2>1, <2>2, ResettingEnds
<1> QED BY <1>3, <1>4
-----------------------------------------------------------------------------
(* An executor changes without taking anything into its hands. *)
Put(w, e, y) == [w EXCEPT !.executors = [w.executors EXCEPT ![e] = y]]

PutIn(w, e, y, v) ==
    /\ v.free_executors = w.free_executors /\ v.assignments = w.assignments
    /\ v.job_cache = w.job_cache /\ v.job_args = w.job_args /\ v.panicked = w.panicked
    /\ DOMAIN v.executors = DOMAIN w.executors
    /\ v.executors[e] = y
    /\ \A z \in DOMAIN w.executors \ {e} : v.executors[z] = w.executors[z]

LEMMA PutGood ==
  ASSUME NEW type, NEW w, Good(type, w), NEW e \in DOMAIN w.executors, NEW y \in Executor,
         y.running => y.jobs # <<>>, InHand(y) \subseteq InHand(w.executors[e]),
         type = "dll" => Len(y.jobs) + Len(y.results) <= 1
  PROVE  Good(type, Put(w, e, y)) /\ PutIn(w, e, y, Put(w, e, y))
<1> DEFINE v == Put(w, e, y)
<1>1. IsWorker(w) /\ Orderly(w) /\ Hands(type, w)
  BY DEF Good
<1>2. IsWorker(v) /\ PutIn(w, e, y, v)
  BY <1>1, SetExecutorIs DEF Put, PutIn
<1> HIDE DEF v
<1>3. Orderly(v)
  <2>1. \A z \in DOMAIN v.executors : v.executors[z].running => v.executors[z].jobs # <<>>
    BY <1>1, <1>2 DEF PutIn, Orderly
  <2> QED BY <1>1, <1>2, <2>1 DEF PutIn, Orderly
<1>4. Hands(type, v)
  <2>1. CASE type = "dll"
    <3> SUFFICES ASSUME NEW z \in DOMAIN v.executors
                 PROVE  /\ Len(v.executors[z].jobs) + Len(v.executors[z].results) <= 1
                        /\ \A k \in InHand(v.executors[z]) :
                              k \in DOMAIN v.assignments /\ v.assignments[k] = z
      BY <2>1 DEF Hands
    <3>1. z \in DOMAIN w.executors /\ v.assignments = w.assignments
      BY <1>2 DEF PutIn
    <3>2. /\ Len(w.executors[z].jobs) + Len(w.executors[z].results) <= 1
          /\ \A k \in InHand(w.executors[z]) : k \in DOMAIN w.assignments /\ w.assignments[k] = z
      BY <1>1, <2>1, <3>1 DEF Hands
    <3>3. CASE z = e
      <4>1. v.executors[z] = y
        BY <1>2, <3>3 DEF PutIn
      <4> QED BY <2>1, <3>1, <3>2, <3>3, <4>1
    <3>4. CASE z # e
      <4>1. v.executors[z] = w.executors[z]
        BY <1>2, <3>1, <3>4 DEF PutIn
      <4> QED BY <3>1, <3>2, <4>1
    <3> QED BY <3>3, <3>4
  <2>2. CASE type # "dll"
    <3>1. Range(w.assignments) \subseteq DOMAIN w.executors
      BY <1>1, <2>2 DEF Hands
    <3>2. v.assignments = w.assignments /\ DOMAIN v.executors = DOMAIN w.executors
      BY <1>2 DEF PutIn
    <3> QED BY <2>2, <3>1, <3>2 DEF Hands
  <2> QED BY <2>1, <2>2
<1> QED BY <1>2, <1>3, <1>4 DEF Good, v

(* A task nobody holds is no longer assigned. *)
LEMMA Unassigned ==
  ASSUME NEW type, NEW w, Good(type, w), NEW key \in DOMAIN w.assignments,
         w.assignments[key] \in DOMAIN w.executors,
         type = "dll" => \A z \in DOMAIN w.executors : key \notin InHand(w.executors[z])
  PROVE  Apart(type, [w EXCEPT !.assignments = Without(w.assignments, key)], w.assignments[key])
<1> DEFINE u == [w EXCEPT !.assignments = Without(w.assignments, key)]
           e == w.assignments[key]
<1>1. /\ IsWorker(w) /\ Hands(type, w)
      /\ IsFiniteSet(DOMAIN w.executors) /\ IsFiniteSet(DOMAIN w.assignments)
      /\ IsInjective(w.free_executors) /\ IsInjective(w.assignments)
      /\ Range(w.free_executors) \cap Range(w.assignments) = {}
      /\ DOMAIN w.executors \subseteq Range(w.free_executors) \cup Range(w.assignments)
      /\ \A z \in DOMAIN w.executors : w.executors[z].running => w.executors[z].jobs # <<>>
  BY GoodIs
<1>2. /\ IsWorker(u) /\ u.free_executors = w.free_executors /\ u.executors = w.executors
      /\ u.assignments = Without(w.assignments, key)
      /\ DOMAIN u.assignments = DOMAIN w.assignments \ {key}
      /\ \A k \in DOMAIN w.assignments \ {key} : u.assignments[k] = w.assignments[k]
  BY <1>1, ForgetIs
<1>3. IsInjective(u.assignments) /\ Range(u.assignments) = Range(w.assignments) \ {e}
  BY <1>1, <1>2, InjectiveWithout
<1>4. IsFiniteSet(DOMAIN u.assignments)
  <2>1. IsFiniteSet(DOMAIN w.assignments \ {key})
    BY <1>1, FS_RemoveElement
  <2> QED BY <1>2, <2>1
<1>5. e \in Range(w.assignments)
  BY DEF Range
<1> HIDE DEF u
<1>6. Hands(type, u)
  <2>1. CASE type = "dll"
    <3> SUFFICES ASSUME NEW z \in DOMAIN w.executors
                 PROVE  /\ Len(w.executors[z].jobs) + Len(w.executors[z].results) <= 1
                        /\ \A k \in InHand(w.executors[z]) :
                              k \in DOMAIN u.assignments /\ u.assignments[k] = z
      BY <1>2, <2>1 DEF Hands
    <3>1. /\ Len(w.executors[z].jobs) + Len(w.executors[z].results) <= 1
          /\ \A k \in InHand(w.executors[z]) : k \in DOMAIN w.assignments /\ w.assignments[k] = z
      BY <1>1, <2>1 DEF Hands
    <3>2. key \notin InHand(w.executors[z])
      BY <2>1
    <3> QED BY <1>2, <3>1, <3>2
  <2>2. CASE type # "dll"
    BY <1>1, <1>2, <1>3, <2>2 DEF Hands
  <2> QED BY <2>1, <2>2
<1>7. /\ Range(u.free_executors) \cap Range(u.assignments) = {}
      /\ DOMAIN u.executors \subseteq Range(u.free_executors) \cup Range(u.assignments) \cup {e}
      /\ e \in DOMAIN u.executors
      /\ e \notin Range(u.free_executors) /\ e \notin Range(u.assignments)
      /\ \A x \in DOMAIN u.executors : u.executors[x].running => u.executors[x].jobs # <<>>
      /\ IsFiniteSet(DOMAIN u.executors) /\ IsInjective(u.free_executors)
  BY <1>1, <1>2, <1>3, <1>5
<1>8. Apart(type, u, e)
  BY <1>2, <1>3, <1>4, <1>6, <1>7 DEF Apart
<1> QED BY <1>8 DEF u

(* The results an executor has sent are read one by one. *)
LEMMA ReadIs ==
  ASSUME NEW x \in Executor, x.results # <<>>
  PROVE  LET y == [x EXCEPT !.results = Tail(x.results)]
         IN  /\ y \in Executor /\ y.jobs = x.jobs /\ y.running = x.running /\ y.alive = x.alive
             /\ InHand(y) \subseteq InHand(x) /\ InHand(x) \subseteq InHand(y) \cup {Head(x.results)}
             /\ Head(x.results) \in InHand(x)
             /\ Len(x.jobs) + Len(x.results) <= 1 =>
                   InHand(y) = {} /\ Len(y.jobs) + Len(y.results) <= 1
<1> DEFINE s == x.results
           t == Tail(s)
           y == [x EXCEPT !.results = t]
<1>1. s \in Seq(Key) /\ x.jobs \in Seq(Key) /\ Len(x.jobs) \in Nat
  <2>1. s \in Seq(Key) /\ x.jobs \in Seq(Key)
    BY ExecutorIs
  <2> QED BY <2>1, LenProperties
<1>2. /\ t \in Seq(Key) /\ Len(s) \in Nat \ {0} /\ Len(t) = Len(s) - 1
      /\ ToSet(s) = ToSet(t) \cup {Head(s)}
  <2> HIDE DEF s
  <2>1. s # <<>>
    BY DEF s
  <2> QED BY <1>1, <2>1, TailIs
<1> HIDE DEF t
<1>3. y \in Executor /\ y.jobs = x.jobs /\ y.running = x.running /\ y.alive = x.alive /\ y.results = t
  BY <1>2 DEF Executor
<1> HIDE DEF s, y
<1>4. ASSUME Len(x.jobs) + Len(s) <= 1
      PROVE  InHand(y) = {} /\ Len(y.jobs) + Len(y.results) <= 1
  <2>1. Len(x.jobs) = 0 /\ Len(t) = 0
    BY <1>1, <1>2, <1>4
  <2>2. Len(y.jobs) = 0 /\ Len(y.results) = 0
    BY <1>3, <2>1
  <2>3. 0 + 0 = 0 /\ 0 <= 1
    OBVIOUS
  <2>4. InHand(y) = {}
    BY <1>3, <2>2, <2>3, ExecutorIs
  <2> QED BY <2>2, <2>3, <2>4
<1>5. InHand(y) \subseteq InHand(x) /\ InHand(x) \subseteq InHand(y) \cup {Head(s)}
      /\ Head(s) \in InHand(x)
  BY <1>2, <1>3 DEF InHand, s
<1> QED BY <1>3, <1>4, <1>5 DEF s, t, y

(* What the worker is after an item of an executor's stream that answers   *)
(* the tasks keys: the other tasks are where they were, but for those of a *)
(* process that has died.                                                  *)
Received(type, w, v, keys) ==
    /\ Good(type, v)
    /\ keys \subseteq DOMAIN w.assignments
    /\ DOMAIN v.assignments = DOMAIN w.assignments \ keys
    /\ \A k \in DOMAIN v.assignments :
          LET e == w.assignments[k]
          IN  /\ v.assignments[k] = e
              /\ e \in DOMAIN v.executors =>
                    e \in DOMAIN w.executors /\ v.executors[e].alive = w.executors[e].alive
              /\ Held(w, k) => Held(v, k) \/ (type = "dll" /\ ~w.executors[e].alive)

LEMMA ResultIs ==
  ASSUME NEW type, NEW w, Good(type, w), NEW e \in DOMAIN w.executors,
         w.executors[e].results # <<>>
  PROVE  \E keys \in {{}, {Head(w.executors[e].results)}} :
            /\ Received(type, w, Result(w, e).worker, keys)
            /\ Result(w, e).response = IF keys = {} THEN NoResponse ELSE Response("Answer", keys)
<1> DEFINE x == w.executors[e]
           key == Head(x.results)
           y == [x EXCEPT !.results = Tail(x.results)]
           u == Put(w, e, y)
<1>1. /\ IsWorker(w) /\ Hands(type, w)
      /\ \A z \in DOMAIN w.executors : w.executors[z].running => w.executors[z].jobs # <<>>
  BY GoodIs
<1>2. x \in Executor
  BY <1>1, WorkerTypes
<1>3. /\ y \in Executor /\ y.jobs = x.jobs /\ y.running = x.running /\ y.alive = x.alive
      /\ InHand(y) \subseteq InHand(x) /\ InHand(x) \subseteq InHand(y) \cup {key}
      /\ key \in InHand(x)
      /\ (Len(x.jobs) + Len(x.results) <= 1 => InHand(y) = {} /\ Len(y.jobs) + Len(y.results) <= 1)
  <2> HIDE DEF x
  <2>1. x.results # <<>>
    BY DEF x
  <2> QED BY <1>2, <2>1, ReadIs
<1> HIDE DEF y, key
<1>4. type = "dll" => InHand(y) = {} /\ Len(y.jobs) + Len(y.results) <= 1
                        /\ key \in DOMAIN w.assignments /\ w.assignments[key] = e
  BY <1>1, <1>3 DEF Hands
<1>5. Good(type, u) /\ PutIn(w, e, y, u)
  BY <1>1, <1>3, <1>4, PutGood
<1> HIDE DEF u
<1>6. /\ u.assignments = w.assignments /\ DOMAIN u.executors = DOMAIN w.executors
      /\ u.executors[e] = y /\ \A z \in DOMAIN w.executors \ {e} : u.executors[z] = w.executors[z]
  BY <1>5 DEF PutIn
<1>7. \A k \in DOMAIN w.assignments : k # key /\ Held(w, k) => Held(u, k)
  BY <1>3, <1>6 DEF Held
<1>8. \A z \in DOMAIN w.executors : u.executors[z].alive = w.executors[z].alive
  BY <1>3, <1>6
<1>9. CASE key \in DOMAIN w.assignments
  <2> DEFINE a == w.assignments[key]
             b == [u EXCEPT !.assignments = Without(w.assignments, key)]
             v == Free(b, a)
  <2>1. Result(w, e) = [worker |-> v, response |-> Response("Answer", {key})]
    BY <1>9 DEF Result, u, y, key, Put
  <2>2. a \in DOMAIN u.executors
    <3>1. CASE type = "dll"
      BY <1>4, <1>6, <3>1
    <3>2. CASE type # "dll"
      <4>1. a \in Range(w.assignments)
        BY <1>9 DEF Range
      <4> QED BY <1>1, <1>6, <3>2, <4>1 DEF Hands
    <3> QED BY <3>1, <3>2
  <2>3. ASSUME type = "dll", NEW z \in DOMAIN u.executors PROVE key \notin InHand(u.executors[z])
    <3>1. CASE z = e
      BY <1>4, <1>6, <2>3, <3>1
    <3>2. CASE z # e
      <4>1. u.executors[z] = w.executors[z] /\ z \in DOMAIN w.executors
        BY <1>6, <3>2
      <4>2. \A k \in InHand(w.executors[z]) : w.assignments[k] = z
        BY <1>1, <2>3, <4>1 DEF Hands
      <4> QED BY <1>4, <2>3, <3>2, <4>1, <4>2
    <3> QED BY <3>1, <3>2
  <2>4. Apart(type, b, a)
    <3>1. key \in DOMAIN u.assignments /\ u.assignments[key] = a
          /\ b = [u EXCEPT !.assignments = Without(u.assignments, key)]
      BY <1>6, <1>9
    <3> HIDE DEF a, b
    <3> QED BY <1>5, <2>2, <2>3, <3>1, Unassigned
  <2>5. /\ b.executors = u.executors
        /\ DOMAIN b.assignments = DOMAIN w.assignments \ {key}
        /\ \A k \in DOMAIN w.assignments \ {key} : b.assignments[k] = w.assignments[k]
    <3> DEFINE c == [u EXCEPT !.assignments = Without(u.assignments, key)]
    <3>1. IsWorker(u)
      BY <1>5 DEF Good
    <3>2. /\ c.executors = u.executors
          /\ DOMAIN c.assignments = DOMAIN u.assignments \ {key}
          /\ \A k \in DOMAIN u.assignments \ {key} : c.assignments[k] = u.assignments[k]
      BY ONLY <3>1, ForgetIs, Zenon
    <3>3. b = c
      BY <1>6
    <3> HIDE DEF b, c
    <3> QED BY <1>6, <3>2, <3>3
  <2> HIDE DEF b, a
  <2>6. Good(type, v) /\ Freed(b, a, v)
    BY <2>4, FreeGood
  <2> HIDE DEF v
  <2>7. v.assignments = b.assignments /\ v.executors = u.executors
    BY <2>5, <2>6 DEF Freed
  <2>8. ASSUME NEW k \in DOMAIN v.assignments
        PROVE  /\ k \in DOMAIN w.assignments /\ v.assignments[k] = w.assignments[k]
               /\ Held(w, k) => Held(v, k)
    <3>1. k \in DOMAIN w.assignments /\ k # key /\ v.assignments[k] = w.assignments[k]
      BY <2>5, <2>7
    <3>2. Held(u, k) => Held(v, k)
      BY <1>6, <2>7, <3>1 DEF Held
    <3> QED BY <1>7, <3>1, <3>2
  <2>9. Received(type, w, v, {key})
    BY <1>6, <1>8, <1>9, <2>5, <2>6, <2>7, <2>8 DEF Received
  <2>10. {key} # {}
    OBVIOUS
  <2>11. Result(w, e).worker = v /\ Result(w, e).response = Response("Answer", {key})
    BY <2>1
  <2> QED BY <2>9, <2>10, <2>11 DEF key
<1>10. CASE key \notin DOMAIN w.assignments
  <2>1. Result(w, e) = [worker |-> u, response |-> NoResponse]
    BY <1>10 DEF Result, u, y, key, Put
  <2>2. Received(type, w, u, {})
    BY <1>5, <1>6, <1>7, <1>8, <1>10 DEF Received
  <2>3. Result(w, e).worker = u /\ Result(w, e).response = NoResponse
    BY <2>1
  <2> QED BY <2>2, <2>3
<1> QED BY <1>9, <1>10

LEMMA StopIs ==
  ASSUME NEW w, Good("dll", w), NEW e \in DOMAIN w.executors
  PROVE  /\ Good("dll", stop_executor(w, e))
         /\ stop_executor(w, e).assignments = w.assignments
         /\ DOMAIN stop_executor(w, e).executors = DOMAIN w.executors \ {e}
         /\ \A z \in DOMAIN w.executors \ {e} : stop_executor(w, e).executors[z] = w.executors[z]
<1> DEFINE X == Without(w.executors, e)
           g == w.free_executors
           E == DOMAIN w.executors
           f == Drop(g, e)
           v == stop_executor(w, e)
<1>1. /\ IsWorker(w) /\ Hands("dll", w)
      /\ IsFiniteSet(E) /\ IsFiniteSet(DOMAIN w.assignments)
      /\ IsInjective(g) /\ IsInjective(w.assignments)
      /\ Range(g) \cap Range(w.assignments) = {}
      /\ E \subseteq Range(g) \cup Range(w.assignments)
      /\ \A z \in E : w.executors[z].running => w.executors[z].jobs # <<>>
  BY GoodIs
<1>2. g \in Seq(E) /\ IsMap(w.executors, Nat, Executor) /\ Range(g) \subseteq E
  BY <1>1, WorkerTypes
<1>3. DOMAIN X = E \ {e} /\ \A z \in E \ {e} : X[z] = w.executors[z]
  BY DEF Without
<1>4. IsMap(X, Nat, Executor)
  BY <1>2, MapWithout
<1>5. v = [w EXCEPT !.executors = X, !.free_executors = f]
  BY DEF stop_executor
<1> HIDE DEF X, E, g
<1>6. f \in Seq(E) /\ IsInjective(f) /\ Range(f) = Range(g) \ {e}
  BY <1>1, <1>2, DropIs
<1> HIDE DEF f, v
<1>7. v = [free_executors |-> f, assignments |-> w.assignments, executors |-> X,
           job_cache |-> w.job_cache, job_args |-> w.job_args, panicked |-> w.panicked]
  BY <1>1, <1>5, TwoFields
<1>8. v.free_executors = f /\ v.assignments = w.assignments /\ v.executors = X
  BY <1>7
<1>9. f \in Seq(DOMAIN X)
  BY <1>2, <1>3, <1>6, SeqIn
<1>10. IsWorker(v)
  BY <1>1, <1>4, <1>7, <1>9, WorkerTypes, IsAWorker
<1>11. Orderly(v)
  <2>1. IsFiniteSet(E \ {e})
    BY <1>1, FS_RemoveElement
  <2>2. \A z \in DOMAIN X : X[z].running => X[z].jobs # <<>>
    BY <1>1, <1>3
  <2>3. DOMAIN X \subseteq Range(f) \cup Range(w.assignments)
        /\ Range(f) \cap Range(w.assignments) = {}
    BY <1>1, <1>3, <1>6
  <2> QED BY <1>1, <1>3, <1>6, <1>8, <2>1, <2>2, <2>3 DEF Orderly
<1>12. Hands("dll", v)
  <2>1. \A z \in DOMAIN X : z \in E /\ X[z] = w.executors[z]
    BY <1>3
  <2>2. \A z \in E : /\ Len(w.executors[z].jobs) + Len(w.executors[z].results) <= 1
                     /\ \A k \in InHand(w.executors[z]) :
                           k \in DOMAIN w.assignments /\ w.assignments[k] = z
    BY <1>1 DEF Hands, E
  <2>3. \A z \in DOMAIN X : /\ Len(X[z].jobs) + Len(X[z].results) <= 1
                            /\ \A k \in InHand(X[z]) :
                                  k \in DOMAIN w.assignments /\ w.assignments[k] = z
    BY <2>1, <2>2
  <2> QED BY <1>8, <2>3 DEF Hands
<1> QED BY <1>3, <1>8, <1>10, <1>11, <1>12 DEF Good, v, E

(* The death of a process: another takes its place. *)
LEMMA TerminatedIs ==
  ASSUME NEW w, Good("dll", w), NEW e \in DOMAIN w.executors, ~w.executors[e].alive
  PROVE  Received("dll", w, Terminated(w, e).worker, {}) /\ Terminated(w, e).response = NoResponse
<1> DEFINE r == restart_executor(w, e)
           b == r.worker
           id == r.id
           v == Free(b, id)
<1>1. /\ IsWorker(w) /\ Hands("dll", w)
      /\ IsFiniteSet(DOMAIN w.executors) /\ IsFiniteSet(DOMAIN w.assignments)
      /\ IsInjective(w.free_executors) /\ IsInjective(w.assignments)
      /\ Range(w.free_executors) \cap Range(w.assignments) = {}
      /\ DOMAIN w.executors \subseteq Range(w.free_executors) \cup Range(w.assignments)
      /\ \A z \in DOMAIN w.executors : w.executors[z].running => w.executors[z].jobs # <<>>
  BY GoodIs
<1>2. Restarted(w, e, b, id)
  BY <1>1, RestartIs
<1>3. /\ id \notin DOMAIN w.executors /\ id \notin Range(w.assignments)
      /\ IsWorker(b)
      /\ DOMAIN b.executors = (DOMAIN w.executors \ {e}) \cup {id}
      /\ b.executors[id] = Idle
      /\ \A x \in DOMAIN w.executors \ {e} : b.executors[x] = w.executors[x]
      /\ IsFiniteSet(DOMAIN b.executors)
      /\ IsInjective(b.free_executors)
      /\ Range(b.free_executors) = Range(w.free_executors) \ {e}
      /\ b.assignments = w.assignments
  <2> HIDE DEF b, id
  <2> QED BY <1>2 DEF Restarted
<1>4. Terminated(w, e) = [worker |-> v, response |-> NoResponse]
  <2>1. {k \in DOMAIN w.assignments : w.assignments[k] = id} = {}
    <3>1. \A k \in DOMAIN w.assignments : w.assignments[k] \in Range(w.assignments)
      BY DEF Range
    <3> HIDE DEF id
    <3> QED BY <1>3, <3>1
  <2> QED BY <2>1 DEF Terminated
<1> HIDE DEF b, id
<1>5. Range(w.free_executors) \subseteq DOMAIN w.executors
  BY <1>1, WorkerTypes
<1>6. Freed(b, id, v)
  BY <1>3, <1>5, FreeIs
<1> HIDE DEF v
<1>7. /\ IsWorker(v) /\ v.assignments = w.assignments /\ v.executors = b.executors
      /\ IsInjective(v.free_executors)
      /\ Range(v.free_executors) = (Range(w.free_executors) \ {e}) \cup {id}
  BY <1>3, <1>6 DEF Freed
<1>8. \A z \in DOMAIN v.executors :
         \/ z = id /\ v.executors[z] = Idle
         \/ z \in DOMAIN w.executors /\ z # e /\ v.executors[z] = w.executors[z]
  BY <1>3, <1>7
<1>9. Orderly(v)
  <2>1. \A z \in DOMAIN v.executors : v.executors[z].running => v.executors[z].jobs # <<>>
    BY <1>1, <1>8, IdleIs
  <2>2. DOMAIN v.executors \subseteq Range(v.free_executors) \cup Range(v.assignments)
        /\ Range(v.free_executors) \cap Range(v.assignments) = {}
    BY <1>1, <1>3, <1>7
  <2> QED BY <1>1, <1>3, <1>7, <2>1, <2>2 DEF Orderly
<1>10. Hands("dll", v)
  <2> SUFFICES ASSUME NEW z \in DOMAIN v.executors
               PROVE  /\ Len(v.executors[z].jobs) + Len(v.executors[z].results) <= 1
                      /\ \A k \in InHand(v.executors[z]) :
                            k \in DOMAIN w.assignments /\ w.assignments[k] = z
    BY <1>7 DEF Hands
  <2>1. CASE v.executors[z] = Idle
    BY <2>1, IdleIs
  <2>2. CASE z \in DOMAIN w.executors /\ v.executors[z] = w.executors[z]
    BY <1>1, <2>2 DEF Hands
  <2> QED BY <1>8, <2>1, <2>2
<1>11. Good("dll", v)
  BY <1>7, <1>9, <1>10 DEF Good
<1>12. ASSUME NEW k \in DOMAIN w.assignments
       PROVE  /\ w.assignments[k] \in DOMAIN v.executors =>
                    /\ w.assignments[k] \in DOMAIN w.executors
                    /\ v.executors[w.assignments[k]] = w.executors[w.assignments[k]]
              /\ Held(w, k) => Held(v, k) \/ ~w.executors[w.assignments[k]].alive
  <2>1. w.assignments[k] # id
    BY <1>3 DEF Range
  <2>2. Held(w, k) => w.assignments[k] = e \/ Held(v, k)
    BY <1>3, <1>7, <2>1 DEF Held
  <2> QED BY <1>8, <2>1, <2>2
<1>13. Received("dll", w, v, {})
  BY <1>7, <1>11, <1>12 DEF Received
<1> QED BY <1>4, <1>13

LEMMA RecvDroppedIs ==
  ASSUME NEW w, Good("dll", w), NEW e \in DOMAIN w.executors, ~w.executors[e].alive
  PROVE  Received("dll", w, RecvDropped(w, e).worker, {}) /\ RecvDropped(w, e).response = NoResponse
<1> DEFINE v == stop_executor(w, e)
<1>1. /\ Good("dll", v) /\ v.assignments = w.assignments
      /\ DOMAIN v.executors = DOMAIN w.executors \ {e}
      /\ \A z \in DOMAIN w.executors \ {e} : v.executors[z] = w.executors[z]
  BY StopIs
<1>2. RecvDropped(w, e) = [worker |-> v, response |-> NoResponse]
  BY DEF RecvDropped
<1> HIDE DEF v
<1>3. \A k \in DOMAIN w.assignments : Held(w, k) => w.assignments[k] = e \/ Held(v, k)
  BY <1>1 DEF Held
<1>4. Received("dll", w, v, {})
  BY <1>1, <1>3 DEF Received
<1> QED BY <1>2, <1>4

LEMMA StreamEndsIs ==
  ASSUME NEW type, NEW w, Good(type, w), NEW e \in DOMAIN w.executors
  PROVE  Received(type, w, StreamEnds(w, e).worker, {}) /\ StreamEnds(w, e).response = NoResponse
<1> DEFINE x == w.executors[e]
           y == [x EXCEPT !.polled = FALSE]
           v == Put(w, e, y)
<1>1. x \in Executor
  BY WorkerTypes DEF Good
<1>2. /\ y \in Executor /\ y.jobs = x.jobs /\ y.running = x.running /\ y.results = x.results
      /\ y.alive = x.alive
  BY <1>1 DEF Executor
<1>3. InHand(y) = InHand(x)
  BY <1>2 DEF InHand
<1>4. StreamEnds(w, e) = [worker |-> v, response |-> NoResponse]
  BY DEF StreamEnds, Put
<1>5. (x.running => x.jobs # <<>>) /\ (type = "dll" => Len(x.jobs) + Len(x.results) <= 1)
  BY DEF Good, Orderly, Hands
<1> HIDE DEF y
<1>6. Good(type, v) /\ PutIn(w, e, y, v)
  BY <1>2, <1>3, <1>5, PutGood
<1> HIDE DEF v
<1>7. /\ v.assignments = w.assignments /\ DOMAIN v.executors = DOMAIN w.executors
      /\ v.executors[e] = y /\ \A z \in DOMAIN w.executors \ {e} : v.executors[z] = w.executors[z]
  BY <1>6 DEF PutIn
<1>8. \A k \in DOMAIN w.assignments : Held(w, k) => Held(v, k)
  BY <1>3, <1>7 DEF Held
<1>9. \A z \in DOMAIN w.executors : v.executors[z].alive = w.executors[z].alive
  BY <1>2, <1>7
<1>10. Received(type, w, v, {})
  BY <1>6, <1>7, <1>8, <1>9 DEF Received
<1> QED BY <1>4, <1>10

(* An item of an executor's stream. *)
Answered(type, w, done) ==
    \E keys \in SUBSET Key :
        /\ Received(type, w, done.worker, keys)
        /\ done.response = IF keys = {} THEN NoResponse ELSE Response("Answer", keys)

LEMMA ResultAnswered ==
  ASSUME NEW type, NEW w, Good(type, w), NEW e \in DOMAIN w.executors,
         w.executors[e].results # <<>>
  PROVE  Answered(type, w, Result(w, e))
<1> DEFINE x == w.executors[e]
<1>1. x \in Executor
  BY WorkerTypes DEF Good
<1>2. x.results \in Seq(Key)
  BY <1>1, ExecutorIs
<1>3. Head(x.results) \in Key
  <2> DEFINE s == x.results
  <2>1. s \in Seq(Key) /\ s # <<>>
    BY <1>2
  <2> HIDE DEF s
  <2>2. Head(s) \in Key
    BY <2>1, TailIs
  <2> QED BY <2>2 DEF s
<1>4. \A keys \in {{}, {Head(x.results)}} : keys \in SUBSET Key
  BY <1>3
<1>5. \E keys \in {{}, {Head(x.results)}} :
            /\ Received(type, w, Result(w, e).worker, keys)
            /\ Result(w, e).response = IF keys = {} THEN NoResponse ELSE Response("Answer", keys)
  BY ResultIs
<1> HIDE DEF x
<1> QED BY <1>4, <1>5 DEF Answered

LEMMA MessageIs ==
  ASSUME NEW type, NEW w, Good(type, w), NEW e \in DOMAIN w.executors,
         NEW done \in IF type = "dll" THEN dll_process_message(w, e) ELSE wasm_process_message(w, e)
  PROVE  Answered(type, w, done)
<1> DEFINE x == w.executors[e]
<1>1. \/ x.results # <<>> /\ done = Result(w, e)
      \/ type = "dll" /\ ~x.alive /\ done \in {Terminated(w, e), RecvDropped(w, e)}
      \/ done = StreamEnds(w, e)
  BY DEF dll_process_message, wasm_process_message
<1>2. CASE x.results # <<>> /\ done = Result(w, e)
  BY <1>2, ResultAnswered
<1>3. CASE type = "dll" /\ ~x.alive /\ done \in {Terminated(w, e), RecvDropped(w, e)}
  <2>1. CASE done = Terminated(w, e)
    BY <1>3, <2>1, TerminatedIs DEF Answered
  <2>2. CASE done = RecvDropped(w, e)
    BY <1>3, <2>2, RecvDroppedIs DEF Answered
  <2> QED BY <1>3, <2>1, <2>2
<1>4. CASE done = StreamEnds(w, e)
  BY <1>4, StreamEndsIs DEF Answered
<1> QED BY <1>1, <1>2, <1>3, <1>4
-----------------------------------------------------------------------------
(* The steps of an executor. *)
Works(x, y) ==
    /\ y \in Executor /\ (y.running => y.jobs # <<>>) /\ InHand(y) \subseteq InHand(x)
    /\ Len(x.jobs) + Len(x.results) <= 1 => Len(y.jobs) + Len(y.results) <= 1

LEMMA Rests ==
  ASSUME NEW x \in Executor, NEW y, y \in Executor, y.results = x.results, ~y.running, y.jobs = <<>>
  PROVE  Works(x, y)
<1>1. Len(x.jobs) \in Nat /\ Len(x.results) \in Nat
  BY ExecutorIs, LenProperties
<1>2. Len(y.jobs) = 0 /\ ToSet(y.jobs) = {} /\ Len(y.results) = Len(x.results)
  BY DEF ToSet
<1>3. InHand(y) \subseteq InHand(x)
  BY <1>2 DEF InHand
<1>4. Len(x.jobs) + Len(x.results) <= 1 => Len(y.jobs) + Len(y.results) <= 1
  <2>1. \A a, b \in Nat : a + b <= 1 => 0 + b <= 1
    OBVIOUS
  <2> QED BY <1>1, <1>2, <2>1
<1> QED BY <1>3, <1>4 DEF Works

LEMMA recv_jobIs ==
  ASSUME NEW x \in Executor, x.jobs # <<>>
  PROVE  Works(x, recv_job(x)) /\ recv_job(x).alive = x.alive /\ InHand(recv_job(x)) = InHand(x)
<1> DEFINE y == recv_job(x)
<1>1. /\ y \in Executor /\ y.jobs = x.jobs /\ y.results = x.results /\ y.alive = x.alive
  BY DEF recv_job, Executor
<1> HIDE DEF y
<1> QED BY <1>1 DEF Works, InHand, y

LEMMA executeIs ==
  ASSUME NEW x \in Executor, x.jobs # <<>>, ~x.running, NEW cache
  PROVE  Works(x, execute(x, cache))
<1> DEFINE y == execute(x, cache)
<1>1. CASE Contains(cache, Head(x.jobs)[1])
  <2>1. y \in Executor /\ y.jobs = x.jobs /\ y.results = x.results
    BY <1>1 DEF execute, Executor
  <2> HIDE DEF y
  <2> QED BY <2>1 DEF Works, InHand, y
<1>2. CASE ~Contains(cache, Head(x.jobs)[1])
  <2>1. y \in Executor /\ y.jobs = <<>> /\ y.results = x.results /\ ~y.running
    <3>1. <<>> \in Seq(Key)
      OBVIOUS
    <3> QED BY <1>2, <3>1 DEF execute, Executor
  <2> HIDE DEF y
  <2> QED BY <2>1, Rests DEF y
<1> QED BY <1>1, <1>2

LEMMA send_resultIs ==
  ASSUME NEW x \in Executor, x.jobs # <<>>
  PROVE  Works(x, send_result(x)) /\ send_result(x).alive = x.alive
         /\ InHand(send_result(x)) = InHand(x)
<1> DEFINE y == send_result(x)
           j == x.jobs
           r == x.results
           q == Append(r, Head(j))
<1>1. j \in Seq(Key) /\ r \in Seq(Key) /\ j # <<>>
  BY ExecutorIs
<1>2. /\ Tail(j) \in Seq(Key) /\ q \in Seq(Key)
      /\ Len(Tail(j)) + Len(q) = Len(j) + Len(r)
      /\ ToSet(j) = ToSet(Tail(j)) \cup {Head(j)} /\ ToSet(q) = ToSet(r) \cup {Head(j)}
  <2> HIDE DEF j, r, q
  <2>1. /\ Tail(j) \in Seq(Key) /\ Head(j) \in Key
        /\ Len(j) \in Nat /\ Len(Tail(j)) = Len(j) - 1
        /\ ToSet(j) = ToSet(Tail(j)) \cup {Head(j)}
    BY <1>1, TailIs
  <2>2. q \in Seq(Key) /\ Len(q) = Len(r) + 1 /\ Len(r) \in Nat
    BY <1>1, <2>1, AppendProperties, LenProperties DEF q
  <2>3. Range(q) = Range(r) \cup {Head(j)}
    BY <1>1, <2>1, AppendIs DEF q
  <2>4. ToSet(q) = ToSet(r) \cup {Head(j)}
    BY <2>3 DEF Range, ToSet
  <2> QED BY <2>1, <2>2, <2>4
<1> HIDE DEF j, r, q
<1>3. y \in Executor /\ y.jobs = Tail(j) /\ y.results = q /\ ~y.running /\ y.alive = x.alive
  <2> DEFINE a == [x EXCEPT !.running = FALSE, !.jobs = Tail(j), !.results = q]
  <2>1. y = a
    BY DEF send_result, j, r, q
  <2>2. a \in Executor /\ a.jobs = Tail(j) /\ a.results = q /\ ~a.running /\ a.alive = x.alive
    BY <1>2 DEF Executor
  <2> QED BY <2>1, <2>2
<1> HIDE DEF y
<1>4. InHand(y) = InHand(x)
  BY <1>2, <1>3 DEF InHand, j, r
<1> QED BY <1>2, <1>3, <1>4 DEF Works, y, j, r

LEMMA interruptedIs ==
  ASSUME NEW x \in Executor, x.running => x.jobs # <<>>
  PROVE  Works(x, interrupted(x)) /\ interrupted(x).alive = x.alive
<1> DEFINE y == interrupted(x)
           j == x.jobs
           q == IF x.running THEN Tail(j) ELSE j
<1>1. j \in Seq(Key) /\ x.results \in Seq(Key) /\ Len(j) \in Nat /\ Len(x.results) \in Nat
  BY ExecutorIs, LenProperties
<1>2. q \in Seq(Key) /\ ToSet(q) \subseteq ToSet(j) /\ Len(q) \in Nat /\ Len(q) <= Len(j)
  <2>1. CASE x.running
    <3>1. j # <<>>
      BY <2>1
    <3> HIDE DEF j
    <3>2. /\ Tail(j) \in Seq(Key) /\ Len(Tail(j)) = Len(j) - 1 /\ Len(j) \in Nat \ {0}
          /\ ToSet(j) = ToSet(Tail(j)) \cup {Head(j)}
      BY <1>1, <3>1, TailIs
    <3> QED BY <2>1, <3>2
  <2>2. CASE ~x.running
    BY <1>1, <2>2
  <2> QED BY <2>1, <2>2
<1> HIDE DEF q
<1>3. y \in Executor /\ y.jobs = q /\ y.results = x.results /\ ~y.running /\ y.alive = x.alive
  <2> DEFINE a == [x EXCEPT !.notified = FALSE, !.running = FALSE, !.jobs = q]
  <2>1. y = a
    BY DEF interrupted, j, q
  <2>2. a \in Executor /\ a.jobs = q /\ a.results = x.results /\ ~a.running /\ a.alive = x.alive
    BY <1>2 DEF Executor
  <2> QED BY <2>1, <2>2
<1> HIDE DEF y
<1>4. InHand(y) \subseteq InHand(x)
  BY <1>2, <1>3 DEF InHand, j
<1>5. Len(j) + Len(x.results) <= 1 => Len(y.jobs) + Len(y.results) <= 1
  <2>1. \A a, b, c \in Nat : c <= a /\ a + b <= 1 => c + b <= 1
    OBVIOUS
  <2> QED BY <1>1, <1>2, <1>3, <2>1
<1> QED BY <1>3, <1>4, <1>5 DEF Works, y, j

LEMMA dieIs ==
  ASSUME NEW x \in Executor
  PROVE  Works(x, die(x))
<1> DEFINE y == die(x)
<1>1. y \in Executor /\ y.jobs = <<>> /\ y.results = x.results /\ ~y.running
  <2>1. <<>> \in Seq(Key)
    OBVIOUS
  <2> QED BY <2>1 DEF die, Executor
<1> HIDE DEF y
<1> QED BY <1>1, Rests DEF y
-----------------------------------------------------------------------------
(* The events of the client the loop has not read: what they ask for and   *)
(* give up, and that they do not get in each other's way.                  *)
Messages(s) == {m.request : m \in {x \in ToSet(s) : x.event = "Message"}}
AllAsks(s) == UNION {Asks(r) : r \in Messages(s)}
AllGives(s) == UNION {Gives(r) : r \in Messages(s)}

InOrder(s) ==
    \A i, j \in DOMAIN s : s[i].event = "Message" /\ s[j].event = "Message" =>
        LET r == s[i].request
            q == s[j].request
        IN  /\ WellFormed(r)
            /\ i # j => Asks(r) \cap Asks(q) = {} /\ Gives(r) \cap Gives(q) = {}
            /\ i <= j => Gives(r) \cap Asks(q) = {}

OutOf(s, D, L) ==
    AllAsks(s) \cap D = {} /\ AllAsks(s) \cap L = {} /\ AllGives(s) \cap L = {}

LEMMA UnreadIs == InFlight = AllAsks(client.events) /\ Giving = AllGives(client.events)
BY DEF InFlight, Giving, Unread, AllAsks, AllGives, Messages

LEMMA AllAre ==
  ASSUME NEW s
  PROVE  /\ \A k : k \in AllAsks(s) <=>
                      \E i \in DOMAIN s : s[i].event = "Message" /\ k \in Asks(s[i].request)
         /\ \A k : k \in AllGives(s) <=>
                      \E i \in DOMAIN s : s[i].event = "Message" /\ k \in Gives(s[i].request)
BY DEF AllAsks, AllGives, Messages, ToSet

LEMMA DistinctIs ==
  Distinct <=> (client # NoClient =>
                  InOrder(client.events) /\ OutOf(client.events, DOMAIN worker.assignments, late))
<1> DEFINE s == client.events
           D == DOMAIN worker.assignments
<1>1. OutOf(s, D, late) <=>
        \A i \in DOMAIN s : s[i].event = "Message" =>
            /\ Asks(s[i].request) \cap D = {}
            /\ Asks(s[i].request) \cap late = {} /\ Gives(s[i].request) \cap late = {}
  <2> HIDE DEF s, D
  <2>1. ASSUME NEW L PROVE /\ AllAsks(s) \cap L = {} <=>
                                \A i \in DOMAIN s : s[i].event = "Message" =>
                                    Asks(s[i].request) \cap L = {}
                           /\ AllGives(s) \cap L = {} <=>
                                \A i \in DOMAIN s : s[i].event = "Message" =>
                                    Gives(s[i].request) \cap L = {}
    BY AllAre
  <2>2. /\ AllAsks(s) \cap D = {} <=>
             \A i \in DOMAIN s : s[i].event = "Message" => Asks(s[i].request) \cap D = {}
        /\ AllAsks(s) \cap late = {} <=>
             \A i \in DOMAIN s : s[i].event = "Message" => Asks(s[i].request) \cap late = {}
        /\ AllGives(s) \cap late = {} <=>
             \A i \in DOMAIN s : s[i].event = "Message" => Gives(s[i].request) \cap late = {}
    BY <2>1
  <2> QED BY <2>2 DEF OutOf
<1>2. Distinct => (client # NoClient => InOrder(s) /\ OutOf(s, D, late))
  <2> SUFFICES ASSUME Distinct, client # NoClient PROVE InOrder(s) /\ OutOf(s, D, late)
    OBVIOUS
  <2>1. InOrder(s)
    BY DEF Distinct, IsMessage, InOrder
  <2>2. OutOf(s, D, late)
    BY <1>1 DEF Distinct, IsMessage
  <2> QED BY <2>1, <2>2
<1>3. (client # NoClient => InOrder(s) /\ OutOf(s, D, late)) => Distinct
  BY <1>1 DEF Distinct, IsMessage, InOrder
<1> QED BY <1>2, <1>3

(* The first of them is read. *)
LEMMA HeadRead ==
  ASSUME NEW s \in Seq(Event), s # <<>>, InOrder(s)
  PROVE  /\ InOrder(Tail(s))
         /\ Head(s).event # "Message" =>
               AllAsks(Tail(s)) = AllAsks(s) /\ AllGives(Tail(s)) = AllGives(s)
         /\ Head(s).event = "Message" =>
               LET r == Head(s).request
               IN  /\ WellFormed(r)
                   /\ AllAsks(s) = AllAsks(Tail(s)) \cup Asks(r)
                   /\ AllGives(s) = AllGives(Tail(s)) \cup Gives(r)
                   /\ AllAsks(Tail(s)) \cap Asks(r) = {} /\ AllGives(Tail(s)) \cap Gives(r) = {}
                   /\ AllAsks(Tail(s)) \cap Gives(r) = {}
<1> DEFINE t == Tail(s)
           h == Head(s)
           r == h.request
<1>1. /\ Len(s) \in Nat \ {0} /\ DOMAIN s = 1 .. Len(s) /\ DOMAIN t = 1 .. Len(s) - 1
      /\ h = s[1] /\ \A i \in DOMAIN t : t[i] = s[i + 1]
      /\ ToSet(s) = ToSet(t) \cup {h}
  BY TailIs
<1> HIDE DEF t, h
<1>2. \A i \in DOMAIN t : i \in Nat /\ i + 1 \in DOMAIN s /\ 1 # i + 1 /\ 1 <= i + 1
  BY <1>1
<1>3. 1 \in DOMAIN s
  BY <1>1
<1>4. InOrder(t)
  <2>1. \A i, j \in DOMAIN t : (i # j => i + 1 # j + 1) /\ (i <= j => i + 1 <= j + 1)
    BY <1>2
  <2>2. SUFFICES ASSUME NEW i \in DOMAIN t, NEW j \in DOMAIN t,
                        t[i].event = "Message", t[j].event = "Message"
                 PROVE  /\ WellFormed(t[i].request)
                        /\ i # j => /\ Asks(t[i].request) \cap Asks(t[j].request) = {}
                                    /\ Gives(t[i].request) \cap Gives(t[j].request) = {}
                        /\ i <= j => Gives(t[i].request) \cap Asks(t[j].request) = {}
    BY DEF InOrder
  <2> DEFINE a == i + 1
             b == j + 1
  <2>3. a \in DOMAIN s /\ b \in DOMAIN s /\ t[i] = s[a] /\ t[j] = s[b]
        /\ (i # j => a # b) /\ (i <= j => a <= b)
    BY <1>1, <1>2, <2>1
  <2> HIDE DEF a, b
  <2>4. s[a].event = "Message" /\ s[b].event = "Message"
    BY <2>2, <2>3
  <2>5. /\ WellFormed(s[a].request)
        /\ a # b => /\ Asks(s[a].request) \cap Asks(s[b].request) = {}
                    /\ Gives(s[a].request) \cap Gives(s[b].request) = {}
        /\ a <= b => Gives(s[a].request) \cap Asks(s[b].request) = {}
    BY <2>3, <2>4 DEF InOrder
  <2> QED BY <2>3, <2>5
<1>5. h.event # "Message" => Messages(t) = Messages(s)
  BY <1>1 DEF Messages
<1>6. h.event = "Message" => Messages(s) = Messages(t) \cup {r}
  BY <1>1 DEF Messages
<1>7. h.event # "Message" => AllAsks(t) = AllAsks(s) /\ AllGives(t) = AllGives(s)
  BY <1>5 DEF AllAsks, AllGives
<1>8. h.event = "Message" => /\ AllAsks(s) = AllAsks(t) \cup Asks(r)
                             /\ AllGives(s) = AllGives(t) \cup Gives(r)
  BY <1>6 DEF AllAsks, AllGives
<1>9. ASSUME h.event = "Message"
      PROVE  /\ WellFormed(r)
             /\ \A i \in DOMAIN t : t[i].event = "Message" =>
                   /\ Asks(t[i].request) \cap Asks(r) = {} /\ Gives(t[i].request) \cap Gives(r) = {}
                   /\ Asks(t[i].request) \cap Gives(r) = {}
  <2>1. WellFormed(r)
    BY <1>1, <1>3, <1>9 DEF InOrder
  <2>2. ASSUME NEW i \in DOMAIN t, t[i].event = "Message"
        PROVE  /\ Asks(t[i].request) \cap Asks(r) = {} /\ Gives(t[i].request) \cap Gives(r) = {}
               /\ Asks(t[i].request) \cap Gives(r) = {}
    <3>1. s[1] = h /\ s[i + 1] = t[i] /\ 1 \in DOMAIN s /\ i + 1 \in DOMAIN s
          /\ 1 # i + 1 /\ 1 <= i + 1
      BY <1>1, <1>2, <1>3
    <3>2. /\ Asks(s[1].request) \cap Asks(s[i + 1].request) = {}
          /\ Gives(s[1].request) \cap Gives(s[i + 1].request) = {}
          /\ Gives(s[1].request) \cap Asks(s[i + 1].request) = {}
      BY <1>9, <2>2, <3>1 DEF InOrder
    <3> QED BY <3>1, <3>2
  <2> QED BY <2>1, <2>2
<1>10. h.event = "Message" => /\ AllAsks(t) \cap Asks(r) = {} /\ AllGives(t) \cap Gives(r) = {}
                              /\ AllAsks(t) \cap Gives(r) = {}
  BY <1>9, AllAre
<1> QED BY <1>4, <1>7, <1>8, <1>9, <1>10 DEF t, h

(* Another comes behind the last. *)
LEMMA OneMore ==
  ASSUME NEW s \in Seq(Event), NEW m \in Event, InOrder(s),
         m.event = "Message" =>
            /\ WellFormed(m.request)
            /\ Asks(m.request) \cap AllAsks(s) = {} /\ Gives(m.request) \cap AllGives(s) = {}
            /\ Asks(m.request) \cap AllGives(s) = {}
  PROVE  LET t == s \o <<m>>
         IN  /\ InOrder(t)
             /\ m.event # "Message" => AllAsks(t) = AllAsks(s) /\ AllGives(t) = AllGives(s)
             /\ m.event = "Message" => /\ AllAsks(t) = AllAsks(s) \cup Asks(m.request)
                                       /\ AllGives(t) = AllGives(s) \cup Gives(m.request)
<1> DEFINE t == s \o <<m>>
           n == Len(s)
           r == m.request
<1>1. /\ n \in Nat /\ DOMAIN s = 1 .. n /\ DOMAIN t = 1 .. n + 1
      /\ (\A i \in 1 .. n : t[i] = s[i]) /\ t[n + 1] = m
      /\ ToSet(t) = ToSet(s) \cup {m}
  BY OneMoreIs
<1> HIDE DEF t, n
<1>2. \A i \in DOMAIN t : i \in Nat /\ (i = n + 1 \/ (i \in DOMAIN s /\ i <= n))
  BY <1>1
<1>3. (m.event # "Message" => Messages(t) = Messages(s))
      /\ (m.event = "Message" => Messages(t) = Messages(s) \cup {r})
  BY <1>1 DEF Messages
<1>4. /\ m.event # "Message" => AllAsks(t) = AllAsks(s) /\ AllGives(t) = AllGives(s)
      /\ m.event = "Message" => /\ AllAsks(t) = AllAsks(s) \cup Asks(r)
                                /\ AllGives(t) = AllGives(s) \cup Gives(r)
  BY <1>3 DEF AllAsks, AllGives
<1>5. InOrder(t)
  <2> SUFFICES ASSUME NEW i \in DOMAIN t, NEW j \in DOMAIN t,
                      t[i].event = "Message", t[j].event = "Message"
               PROVE  /\ WellFormed(t[i].request)
                      /\ i # j => /\ Asks(t[i].request) \cap Asks(t[j].request) = {}
                                  /\ Gives(t[i].request) \cap Gives(t[j].request) = {}
                      /\ i <= j => Gives(t[i].request) \cap Asks(t[j].request) = {}
    BY DEF InOrder
  <2>1. \A a \in DOMAIN s : s[a].event = "Message" =>
            Asks(s[a].request) \subseteq AllAsks(s) /\ Gives(s[a].request) \subseteq AllGives(s)
    BY AllAre
  <2>2. CASE i \in DOMAIN s /\ j \in DOMAIN s
    <3>1. t[i] = s[i] /\ t[j] = s[j]
      BY <1>1, <2>2
    <3> QED BY <2>2, <3>1 DEF InOrder
  <2>3. CASE i \in DOMAIN s /\ j = n + 1
    <3>1. t[i] = s[i] /\ t[j] = m
      BY <1>1, <2>3
    <3>2. WellFormed(s[i].request)
      BY <2>3, <3>1 DEF InOrder
    <3> QED BY <2>1, <2>3, <3>1, <3>2
  <2>4. CASE i = n + 1 /\ j \in DOMAIN s
    <3>1. t[i] = m /\ t[j] = s[j] /\ ~(i <= j)
      BY <1>1, <2>4
    <3> QED BY <2>1, <2>4, <3>1
  <2>5. CASE i = n + 1 /\ j = n + 1
    <3>1. t[i] = m /\ t[j] = m
      BY <1>1, <2>5
    <3>2. Asks(r) \cap Gives(r) = {}
      BY <3>1 DEF WellFormed
    <3> QED BY <2>5, <3>1, <3>2
  <2> QED BY <1>2, <2>2, <2>3, <2>4, <2>5
<1> QED BY <1>4, <1>5 DEF t
-----------------------------------------------------------------------------
(* The invariant in three parts: what is about the worker, what is about   *)
(* the client, and the rest.                                               *)
Workers ==
    /\ Good(kind, worker) /\ lost \subseteq DOMAIN worker.assignments
    /\ HeldUnlessLost /\ DeadLost

Clients ==
    /\ client \in Client \cup {NoClient} /\ asked \subseteq Key /\ late \subseteq asked
    /\ Sequel /\ Distinct /\ Asking

Rest ==
    /\ kind \in Kinds /\ node_manager \in NodeManagerConnection
    /\ stopped \in {"no", "error", "panic", "hung"} /\ deaths \in Nat

LEMMA Parts == IInv <=> Workers /\ Clients /\ Rest
BY DEF IInv, TypeOK, Workers, Clients, Rest, Good

LEMMA PartsNext ==
  ASSUME Workers', Clients', Rest'
  PROVE  IInv'
BY DEF IInv, TypeOK, Workers, Clients, Rest, Good

LEMMA ClientsSame ==
  ASSUME Clients, client' = client, DOMAIN worker'.assignments = DOMAIN worker.assignments,
         asked' = asked, late' = late
  PROVE  Clients'
BY DEF Clients, Sequel, Distinct, Asking, IsMessage, InFlight, Giving, Unread

LEMMA WorkersSame ==
  ASSUME Workers, kind' = kind, worker' = worker, lost' = lost, Running' => Running
  PROVE  Workers'
BY DEF Workers, HeldUnlessLost, DeadLost, Held

LEMMA ClientIs ==
  ASSUME NEW c \in Client
  PROVE  /\ c.events \in Seq(Event) /\ c.connected \in BOOLEAN /\ c.buffer \in Seq(Responses)
         /\ c.task \in {"waiting", "serving", "ended"}
         /\ c = [task |-> c.task, events |-> c.events, connected |-> c.connected,
                 buffer |-> c.buffer]
BY DEF Client

LEMMA ManagerIs ==
  ASSUME NEW c \in NodeManagerConnection, c.events # <<>>
  PROVE  [c EXCEPT !.events = Tail(c.events)] \in NodeManagerConnection
<1> DEFINE V == {"Connected", "Disconnected", "AssignClient", "UnassignClient",
                 "ConnectionNotEstablished"}
           s == c.events
<1>1. s \in Seq(V) /\ s # <<>>
  BY DEF NodeManagerConnection
<1>2. Tail(s) \in Seq(V)
  <2> HIDE DEF s, V
  <2> QED BY <1>1, TailIs
<1> QED BY <1>2 DEF NodeManagerConnection

LEMMA connectIs == connect \in NodeManagerConnection
<1>1. <<>> \in Seq({"Connected", "Disconnected", "AssignClient", "UnassignClient",
                    "ConnectionNotEstablished"})
  OBVIOUS
<1> QED BY <1>1 DEF connect, NodeManagerConnection

(* The first state. *)
LEMMA newIs == Good("dll", new) /\ Good("wasm", new) /\ DOMAIN new.assignments = {}
<1> DEFINE F == [i \in 1 .. NumExecutors |-> i]
           X == [e \in 1 .. NumExecutors |-> Idle]
<1>1. NumExecutors \in Nat /\ 0 <= CacheSize
  BY WorkerAssumption
<1>2. IsMap(X, Nat, Executor)
  BY <1>1, IdleIs DEF IsMap
<1>3. F \in Seq(DOMAIN X) /\ IsInjective(F) /\ Range(F) = 1 .. NumExecutors
  <2>1. F \in [1 .. NumExecutors -> DOMAIN X]
    OBVIOUS
  <2>2. IsInjective(F) /\ Range(F) = 1 .. NumExecutors
    BY DEF IsInjective, Range
  <2> HIDE DEF F, X
  <2> QED BY <1>1, <2>1, <2>2, IsASeq
<1>4. DOMAIN Empty = {} /\ Range(Empty) = {} /\ IsInjective(Empty) /\ IsMap(Empty, Key, Nat)
  BY EmptyIs
<1>5. /\ DOMAIN X = 1 .. NumExecutors
      /\ \A e \in 1 .. NumExecutors : X[e] = Idle
  OBVIOUS
<1>6. IsFiniteSet(1 .. NumExecutors) /\ IsFiniteSet({})
  BY <1>1, FS_Interval, FS_EmptySet
<1>7. <<>> \in Seq(Jobs) /\ Len(<<>>) = 0
  OBVIOUS
<1>8. new = [free_executors |-> F, assignments |-> Empty, executors |-> X, job_cache |-> <<>>,
             job_args |-> <<>>, panicked |-> FALSE]
  BY DEF new
<1> HIDE DEF F, X
<1>9. IsWorker(new)
  BY <1>1, <1>2, <1>3, <1>4, <1>7, <1>8, IsAWorker
<1>10. new.free_executors = F /\ new.assignments = Empty /\ new.executors = X
  BY <1>8
<1>11. Orderly(new)
  BY <1>3, <1>4, <1>5, <1>6, <1>10, IdleIs DEF Orderly
<1>12. Hands("wasm", new)
  BY <1>4, <1>10 DEF Hands
<1>13. Hands("dll", new)
  BY <1>5, <1>10, IdleIs DEF Hands
<1> QED BY <1>4, <1>9, <1>10, <1>11, <1>12, <1>13 DEF Good

LEMMA GoodKind ==
  ASSUME NEW type, NEW w
  PROVE  type # "dll" => (Good(type, w) <=> Good("wasm", w))
BY DEF Good, Hands

LEMMA InitHolds == Init => IInv
<1> SUFFICES ASSUME Init PROVE Workers /\ Clients /\ Rest
  BY Parts
<1> USE DEF Init
<1>1. Good(kind, worker) /\ DOMAIN worker.assignments = {}
  <2>1. Good("dll", new) /\ Good("wasm", new) /\ DOMAIN new.assignments = {}
    BY newIs
  <2>2. kind # "dll" => Good(kind, new)
    BY <2>1, GoodKind
  <2> HIDE DEF new
  <2> QED BY <2>1, <2>2
<1>2. Workers
  BY <1>1 DEF Workers, HeldUnlessLost, DeadLost
<1>3. Clients
  BY DEF Clients, Sequel, Distinct, Asking
<1>4. Rest
  BY connectIs DEF Rest
<1> QED BY <1>2, <1>3, <1>4
-----------------------------------------------------------------------------
(* Steps that leave the worker and the client alone. *)
LEMMA Elsewhere ==
  ASSUME IInv, UNCHANGED <<kind, worker, client, deaths, asked, late, lost>>,
         node_manager' \in NodeManagerConnection,
         stopped' \in {"no", "error", "panic", "hung"}, Running' => Running
  PROVE  IInv'
<1>1. Workers /\ Clients /\ Rest
  BY Parts
<1>2. Workers'
  BY <1>1, WorkersSame
<1>3. Clients'
  BY <1>1, ClientsSame
<1>4. Rest'
  BY <1>1 DEF Rest
<1> QED BY <1>2, <1>3, <1>4, PartsNext

LEMMA Listening ==
  ASSUME IInv
  PROVE  /\ node_manager \in NodeManagerConnection /\ stopped \in {"no", "error", "panic", "hung"}
         /\ node_manager.events # <<>> /\ ReadNodeManager => node_manager' \in NodeManagerConnection
<1>1. /\ node_manager \in NodeManagerConnection /\ stopped \in {"no", "error", "panic", "hung"}
  BY Parts DEF Rest
<1> QED BY <1>1, ManagerIs DEF ReadNodeManager

LEMMA ProcessConnectedHolds == IInv /\ ProcessConnected => IInv'
BY Listening, Elsewhere DEF ProcessConnected, NodeManagerEvent, Running

LEMMA ProcessDisconnectedHolds == IInv /\ ProcessDisconnected => IInv'
BY Listening, Elsewhere, connectIs DEF ProcessDisconnected, NodeManagerEvent, Running

LEMMA ConnectionNotEstablishedHolds == IInv /\ ConnectionNotEstablished => IInv'
BY Listening, Elsewhere DEF ConnectionNotEstablished, NodeManagerEvent, Running

LEMMA HeartbeatFailsHolds == IInv /\ HeartbeatFails => IInv'
BY Listening, Elsewhere DEF HeartbeatFails, Running

LEMMA WorkerSpinsHolds == IInv /\ WorkerSpins => IInv'
BY Listening, Elsewhere DEF WorkerSpins, Running

LEMMA NodeManagerTaskHolds ==
  ASSUME IInv, NEW from, NEW to \in {"serving", "ended"},
         NEW event \in {"Connected", "Disconnected", "AssignClient", "UnassignClient",
                        "ConnectionNotEstablished"},
         NodeManagerTask(from, to, event)
  PROVE  IInv'
<1> DEFINE V == {"Connected", "Disconnected", "AssignClient", "UnassignClient",
                 "ConnectionNotEstablished"}
           s == node_manager.events
<1>1. s \in Seq(V)
  BY Listening DEF NodeManagerConnection
<1>2. Append(s, event) \in Seq(V)
  <2>1. event \in V
    OBVIOUS
  <2> HIDE DEF s, V
  <2> QED BY <1>1, <2>1, AppendProperties
<1>3. node_manager' = [task |-> to, events |-> Append(s, event)]
  BY DEF NodeManagerTask
<1> HIDE DEF s
<1>4. node_manager' \in NodeManagerConnection
  BY <1>2, <1>3 DEF NodeManagerConnection
<1> QED BY <1>4, Listening, Elsewhere DEF NodeManagerTask, Running

LEMMA ManagerHolds == IInv /\ (connect_node_manager \/ NodeManagerSends) => IInv'
BY NodeManagerTaskHolds DEF connect_node_manager, NodeManagerSends
-----------------------------------------------------------------------------
(* The client changes, and with it the worker is reset. *)
LEMMA NewClient ==
  ASSUME IInv, reset_worker, Forgotten, lost' = {}, client' \in {new_client, NoClient},
         kind' = kind
  PROVE  Workers' /\ Clients'
<1>1. Good(kind, worker)
  BY Parts DEF Workers
<1>2. Good(kind, worker') /\ worker'.assignments = Empty
  <2>1. CASE kind = "dll"
    BY <1>1, <2>1, ResetIs DEF reset_worker
  <2>2. CASE kind # "dll"
    <3>1. Good("wasm", worker)
      BY <1>1, <2>2, GoodKind
    <3>2. Good("wasm", worker') /\ worker'.assignments = Empty
      BY <2>2, <3>1, ResetIs DEF reset_worker
    <3> QED BY <2>2, <3>2, GoodKind
  <2> QED BY <2>1, <2>2
<1>3. DOMAIN worker'.assignments = {}
  BY <1>2, EmptyIs
<1>4. Workers'
  BY <1>2, <1>3 DEF Workers, HeldUnlessLost, DeadLost
<1>5. new_client \in Client /\ new_client.task = "waiting" /\ new_client.events = <<>>
  <2>1. <<>> \in Seq(Event) /\ <<>> \in Seq(Responses)
    OBVIOUS
  <2> QED BY <2>1 DEF new_client, Client
<1> HIDE DEF new_client
<1>6. asked' = {} /\ late' = {}
  BY DEF Forgotten
<1>7. Sequel' /\ Asking'
  BY <1>3, <1>5, <1>6 DEF Sequel, Asking
<1>8. Distinct'
  <2> SUFFICES ASSUME client' # NoClient PROVE Distinct'
    BY DEF Distinct
  <2>1. client'.events = <<>>
    BY <1>5
  <2>2. DOMAIN client'.events = {}
    BY <2>1
  <2> QED BY <2>2 DEF Distinct
<1>9. Clients'
  BY <1>5, <1>6, <1>7, <1>8 DEF Clients
<1> QED BY <1>4, <1>9

LEMMA AssignClientHolds == IInv /\ AssignClient => IInv'
<1> SUFFICES ASSUME IInv, AssignClient PROVE IInv'
  OBVIOUS
<1>1. Workers' /\ Clients'
  BY NewClient DEF AssignClient
<1>2. Rest'
  BY Listening, Parts DEF Rest, AssignClient, NodeManagerEvent
<1> QED BY <1>1, <1>2, PartsNext

LEMMA UnassignClientHolds == IInv /\ UnassignClient => IInv'
<1> SUFFICES ASSUME IInv, UnassignClient PROVE IInv'
  OBVIOUS
<1>1. Workers' /\ Clients'
  BY NewClient DEF UnassignClient
<1>2. Rest'
  BY Listening, Parts DEF Rest, UnassignClient, NodeManagerEvent
<1> QED BY <1>1, <1>2, PartsNext
-----------------------------------------------------------------------------
(* Steps of the client and its connection. *)
Waiting(c, D, L) ==
    IF c.task = "serving" THEN ((AllAsks(c.events) \cup D) \ AllGives(c.events)) \cup L ELSE {}

Follow(c, D) ==
    /\ c.task = "waiting" => c.events = <<>> /\ D = {}
    /\ c.task = "serving" =>
         /\ \A i \in DOMAIN c.events : c.events[i].event # "Disconnected"
         /\ ~c.connected => D = {} /\ c.events # <<>> /\ c.events[1].event = "Connected"

LEMMA Hearing ==
  ASSUME Clients, client # NoClient
  PROVE  /\ client \in Client /\ client.events \in Seq(Event)
         /\ client.connected \in BOOLEAN /\ client.buffer \in Seq(Responses)
         /\ client.task \in {"waiting", "serving", "ended"}
         /\ asked \subseteq Key /\ late \subseteq asked
         /\ InOrder(client.events) /\ OutOf(client.events, DOMAIN worker.assignments, late)
         /\ Follow(client, DOMAIN worker.assignments)
         /\ asked = Waiting(client, DOMAIN worker.assignments, late)
<1>1. client \in Client /\ asked \subseteq Key /\ late \subseteq asked
      /\ Sequel /\ Distinct /\ Asking
  BY DEF Clients
<1>2. /\ client.events \in Seq(Event) /\ client.connected \in BOOLEAN
      /\ client.buffer \in Seq(Responses) /\ client.task \in {"waiting", "serving", "ended"}
  BY <1>1, ClientIs
<1>3. InOrder(client.events) /\ OutOf(client.events, DOMAIN worker.assignments, late)
  BY <1>1, DistinctIs
<1>4. Follow(client, DOMAIN worker.assignments)
  BY <1>1 DEF Sequel, Follow
<1>5. asked = Waiting(client, DOMAIN worker.assignments, late)
  BY <1>1, UnreadIs DEF Asking, Waiting
<1> QED BY <1>1, <1>2, <1>3, <1>4, <1>5

LEMMA ClientsNext ==
  ASSUME client' \in Client, asked' \subseteq Key, late' \subseteq asked',
         InOrder(client'.events), OutOf(client'.events, DOMAIN worker'.assignments, late'),
         Follow(client', DOMAIN worker'.assignments),
         asked' = Waiting(client', DOMAIN worker'.assignments, late')
  PROVE  Clients'
<1>1. client' # NoClient
  BY NoClientAssumption
<1>2. Sequel'
  BY DEF Sequel, Follow
<1>3. Distinct'
  <2>1. (Distinct <=> (client # NoClient =>
             InOrder(client.events) /\ OutOf(client.events, DOMAIN worker.assignments, late)))'
    BY DistinctIs, PTL
  <2> QED BY <2>1
<1>4. (InFlight = AllAsks(client.events) /\ Giving = AllGives(client.events))'
  BY UnreadIs, PTL
<1>5. Asking'
  BY <1>1, <1>4 DEF Asking, Waiting
<1> QED BY <1>2, <1>3, <1>5 DEF Clients

LEMMA EventIs ==
  ASSUME NEW m \in Event
  PROVE  m.event = "Message" => m.request \in Request
BY DEF Event

(* An event that is not a message is read. *)
LEMMA ClientConnectedHolds == IInv /\ ClientConnected => IInv'
<1> SUFFICES ASSUME IInv, ClientConnected PROVE IInv'
  OBVIOUS
<1> DEFINE s == client.events
           D == DOMAIN worker.assignments
<1>1. Workers /\ Clients /\ Rest
  BY Parts
<1>2. client # NoClient /\ s # <<>> /\ Head(s).event = "Connected"
      /\ UNCHANGED <<kind, worker, node_manager, stopped, deaths, asked, late, lost>>
  BY DEF ClientConnected, ClientEvent
<1>3. /\ client \in Client /\ s \in Seq(Event) /\ asked \subseteq Key /\ late \subseteq asked
      /\ InOrder(s) /\ OutOf(s, D, late) /\ Follow(client, D) /\ asked = Waiting(client, D, late)
  BY <1>1, <1>2, Hearing
<1>4. client' = [client EXCEPT !.events = Tail(s), !.connected = TRUE, !.buffer = <<>>]
  BY DEF ClientConnected
<1> HIDE DEF s, D
<1>5. /\ InOrder(Tail(s)) /\ AllAsks(Tail(s)) = AllAsks(s) /\ AllGives(Tail(s)) = AllGives(s)
  BY <1>2, <1>3, HeadRead
<1>6. /\ Tail(s) \in Seq(Event) /\ Len(s) \in Nat \ {0} /\ Len(Tail(s)) = Len(s) - 1
      /\ DOMAIN s = 1 .. Len(s) /\ DOMAIN Tail(s) = 1 .. Len(Tail(s))
      /\ \A i \in 1 .. Len(Tail(s)) : Tail(s)[i] = s[i + 1]
  BY <1>2, <1>3, TailIs
<1>7. client' \in Client /\ client'.events = Tail(s) /\ client'.connected /\ client'.task = client.task
  <2>1. <<>> \in Seq(Responses)
    OBVIOUS
  <2> QED BY <1>3, <1>4, <1>6, <2>1 DEF Client
<1>8. client.task # "waiting"
  BY <1>2, <1>3 DEF Follow, s
<1>9. Follow(client', D)
  <2>1. \A i \in DOMAIN Tail(s) : i + 1 \in DOMAIN s /\ Tail(s)[i] = s[i + 1]
    BY <1>6
  <2>2. client.task = "serving" => \A i \in DOMAIN s : s[i].event # "Disconnected"
    BY <1>3 DEF Follow, s
  <2> QED BY <1>7, <1>8, <2>1, <2>2 DEF Follow
<1>10. OutOf(Tail(s), D, late) /\ Waiting(client', D, late) = Waiting(client, D, late)
  BY <1>3, <1>5, <1>7 DEF OutOf, Waiting, s
<1>11. Clients'
  <2>1. DOMAIN worker'.assignments = D
    BY <1>2 DEF D
  <2> QED BY <1>2, <1>3, <1>5, <1>7, <1>9, <1>10, <2>1, ClientsNext
<1>12. Workers'
  BY <1>1, <1>2, WorkersSame DEF Running
<1>13. Rest'
  BY <1>1, <1>2 DEF Rest
<1> QED BY <1>11, <1>12, <1>13, PartsNext

LEMMA ClientDisconnectedHolds == IInv /\ ClientDisconnected => IInv'
<1> SUFFICES ASSUME IInv, ClientDisconnected PROVE IInv'
  OBVIOUS
<1> DEFINE s == client.events
           D == DOMAIN worker.assignments
<1>1. Workers /\ Clients /\ Rest
  BY Parts
<1>2. client # NoClient /\ s # <<>> /\ Head(s).event = "Disconnected"
      /\ UNCHANGED <<kind, worker, node_manager, stopped, deaths, asked, late, lost>>
  BY DEF ClientDisconnected, ClientEvent
<1>3. /\ client \in Client /\ s \in Seq(Event) /\ asked \subseteq Key /\ late \subseteq asked
      /\ client.task \in {"waiting", "serving", "ended"}
      /\ InOrder(s) /\ OutOf(s, D, late) /\ Follow(client, D) /\ asked = Waiting(client, D, late)
  BY <1>1, <1>2, Hearing
<1>4. client' = [client EXCEPT !.events = Tail(s), !.connected = FALSE]
  BY DEF ClientDisconnected
<1>5. client.task = "ended"
  <2>1. client.task # "waiting"
    BY <1>2, <1>3 DEF Follow
  <2>2. 1 \in DOMAIN s /\ Head(s) = s[1]
    <3> HIDE DEF s
    <3> QED BY <1>2, <1>3, TailIs
  <2>3. client.task # "serving"
    BY <1>2, <1>3, <2>2 DEF Follow
  <2> QED BY <1>3, <2>1, <2>3
<1> HIDE DEF s, D
<1>6. /\ InOrder(Tail(s)) /\ AllAsks(Tail(s)) = AllAsks(s) /\ AllGives(Tail(s)) = AllGives(s)
      /\ Tail(s) \in Seq(Event)
  BY <1>2, <1>3, HeadRead, TailIs
<1>7. client' \in Client /\ client'.events = Tail(s) /\ client'.task = "ended"
  BY <1>3, <1>4, <1>5, <1>6 DEF Client
<1>8. /\ Follow(client', D) /\ OutOf(Tail(s), D, late)
      /\ Waiting(client', D, late) = Waiting(client, D, late)
  BY <1>3, <1>5, <1>6, <1>7 DEF Follow, OutOf, Waiting
<1>9. Clients'
  <2>1. DOMAIN worker'.assignments = D
    BY <1>2 DEF D
  <2> QED BY <1>2, <1>3, <1>6, <1>7, <1>8, <2>1, ClientsNext
<1>10. Workers'
  BY <1>1, <1>2, WorkersSame DEF Running
<1>11. Rest'
  BY <1>1, <1>2 DEF Rest
<1> QED BY <1>9, <1>10, <1>11, PartsNext

(* The connection's own steps. *)
LEMMA TaskIs ==
  ASSUME Clients, NEW from, NEW to \in {"serving", "ended"}, NEW m \in Event,
         ClientTask(from, to, <<m>>)
  PROVE  /\ client # NoClient /\ client.task = from
         /\ client' \in Client /\ client'.task = to /\ client'.events = client.events \o <<m>>
         /\ client'.connected = client.connected
<1> DEFINE s == client.events
           t == s \o <<m>>
<1>1. client # NoClient /\ client.task = from
      /\ client' = [client EXCEPT !.task = to, !.events = t]
  BY DEF ClientTask
<1>2. client \in Client /\ s \in Seq(Event)
  BY <1>1, Hearing
<1>3. t \in Seq(Event)
  <2> HIDE DEF s
  <2> QED BY <1>2, OneMoreIs
<1> HIDE DEF t
<1>4. client' \in Client /\ client'.task = to /\ client'.events = t /\ client'.connected = client.connected
  BY <1>1, <1>2, <1>3 DEF Client
<1> QED BY <1>1, <1>4 DEF t

LEMMA AcceptHolds ==
  ASSUME IInv, accept_client, ClientTask("waiting", "serving", <<[event |-> "Connected"]>>)
  PROVE  IInv'
<1> DEFINE s == client.events
           D == DOMAIN worker.assignments
           m == [event |-> "Connected"]
<1>1. Workers /\ Clients /\ Rest
  BY Parts
<1>2. m \in Event /\ m.event = "Connected"
  BY DEF Event
<1> HIDE DEF m
<1>3. /\ client # NoClient /\ client.task = "waiting"
      /\ client' \in Client /\ client'.task = "serving" /\ client'.events = s \o <<m>>
  <2>1. ClientTask("waiting", "serving", <<m>>)
    BY DEF m
  <2> QED BY <1>1, <1>2, <2>1, TaskIs
<1>4. /\ s \in Seq(Event) /\ asked \subseteq Key /\ late \subseteq asked
      /\ InOrder(s) /\ OutOf(s, D, late) /\ Follow(client, D) /\ asked = Waiting(client, D, late)
  BY <1>1, <1>3, Hearing
<1>5. UNCHANGED <<asked, late, kind, worker, node_manager, stopped, deaths, lost>>
  BY <1>3 DEF accept_client
<1>6. s = <<>> /\ D = {} /\ asked = {} /\ late = {}
  BY <1>3, <1>4 DEF Follow, Waiting
<1> HIDE DEF s, D
<1>7. InOrder(s \o <<m>>) /\ AllAsks(s \o <<m>>) = AllAsks(s) /\ AllGives(s \o <<m>>) = AllGives(s)
  BY <1>2, <1>4, OneMore
<1>8. AllAsks(s) = {} /\ AllGives(s) = {}
  <2>1. ToSet(s) = {}
    BY <1>6 DEF ToSet
  <2> QED BY <2>1 DEF AllAsks, AllGives, Messages
<1>9. OutOf(client'.events, D, late) /\ asked = Waiting(client', D, late)
  BY <1>3, <1>6, <1>7, <1>8 DEF OutOf, Waiting
<1>10. Follow(client', D)
  <2>1. s \o <<m>> = <<m>>
    BY <1>6
  <2>2. client'.events = <<m>>
    BY <1>3, <2>1
  <2>3. /\ \A i \in DOMAIN <<m>> : <<m>>[i] = m
        /\ <<m>> # <<>> /\ <<m>>[1] = m
    OBVIOUS
  <2>4. m.event # "Disconnected"
    BY <1>2
  <2> QED BY <1>2, <1>3, <1>6, <2>2, <2>3, <2>4 DEF Follow
<1>11. Clients'
  <2>1. DOMAIN worker'.assignments = D
    BY <1>5 DEF D
  <2> QED BY <1>3, <1>4, <1>5, <1>7, <1>9, <1>10, <2>1, ClientsNext
<1>12. Workers'
  BY <1>1, <1>5, WorkersSame DEF Running
<1>13. Rest'
  BY <1>1, <1>5 DEF Rest
<1> QED BY <1>11, <1>12, <1>13, PartsNext

LEMMA HangUpHolds ==
  ASSUME IInv, accept_client, ClientTask("serving", "ended", <<[event |-> "Disconnected"]>>)
  PROVE  IInv'
<1> DEFINE s == client.events
           D == DOMAIN worker.assignments
           m == [event |-> "Disconnected"]
<1>1. Workers /\ Clients /\ Rest
  BY Parts
<1>2. m \in Event /\ m.event = "Disconnected"
  BY DEF Event
<1> HIDE DEF m
<1>3. /\ client # NoClient /\ client.task = "serving"
      /\ client' \in Client /\ client'.task = "ended" /\ client'.events = s \o <<m>>
  <2>1. ClientTask("serving", "ended", <<m>>)
    BY DEF m
  <2> QED BY <1>1, <1>2, <2>1, TaskIs
<1>4. s \in Seq(Event) /\ InOrder(s) /\ OutOf(s, D, late)
  BY <1>1, <1>3, Hearing
<1>5. asked' = {} /\ late' = {} /\ UNCHANGED <<kind, worker, node_manager, stopped, deaths, lost>>
  BY <1>3 DEF accept_client, Forgotten
<1> HIDE DEF s, D
<1>6. InOrder(s \o <<m>>) /\ AllAsks(s \o <<m>>) = AllAsks(s) /\ AllGives(s \o <<m>>) = AllGives(s)
  BY <1>2, <1>4, OneMore
<1>7. OutOf(client'.events, D, late') /\ asked' = Waiting(client', D, late') /\ Follow(client', D)
  BY <1>3, <1>4, <1>5, <1>6 DEF OutOf, Waiting, Follow
<1>8. Clients'
  <2>1. DOMAIN worker'.assignments = D
    BY <1>5 DEF D
  <2> QED BY <1>3, <1>5, <1>6, <1>7, <2>1, ClientsNext
<1>9. Workers'
  BY <1>1, <1>5, WorkersSame DEF Running
<1>10. Rest'
  BY <1>1, <1>5 DEF Rest
<1> QED BY <1>8, <1>9, <1>10, PartsNext

LEMMA accept_clientHolds == IInv /\ accept_client => IInv'
<1> SUFFICES ASSUME IInv, accept_client PROVE IInv'
  OBVIOUS
<1>1. \/ ClientTask("waiting", "serving", <<[event |-> "Connected"]>>)
      \/ ClientTask("serving", "ended", <<[event |-> "Disconnected"]>>)
  BY DEF accept_client
<1> QED BY <1>1, AcceptHolds, HangUpHolds

LEMMA wait_clientHolds == IInv /\ wait_client => IInv'
<1> SUFFICES ASSUME IInv, wait_client PROVE IInv'
  OBVIOUS
<1> DEFINE s == client.events
           D == DOMAIN worker.assignments
<1>1. Workers /\ Clients /\ Rest
  BY Parts
<1>2. client # NoClient /\ client.task = "waiting"
      /\ client' = [client EXCEPT !.task = "ended", !.events = s \o <<>>]
      /\ UNCHANGED <<kind, worker, node_manager, stopped, deaths, asked, late, lost>>
  BY DEF wait_client, ClientTask
<1>3. /\ client \in Client /\ s \in Seq(Event) /\ asked \subseteq Key /\ late \subseteq asked
      /\ InOrder(s) /\ OutOf(s, D, late) /\ asked = Waiting(client, D, late)
  BY <1>1, <1>2, Hearing
<1>4. s \o <<>> = s
  <2> HIDE DEF s
  <2> QED BY <1>3, ConcatEmptySeq
<1> HIDE DEF s, D
<1>5. client' \in Client /\ client'.task = "ended" /\ client'.events = s
  BY <1>2, <1>3, <1>4 DEF Client
<1>6. Follow(client', D) /\ Waiting(client', D, late) = Waiting(client, D, late)
  BY <1>2, <1>5 DEF Follow, Waiting
<1>7. Clients'
  <2>1. DOMAIN worker'.assignments = D
    BY <1>2 DEF D
  <2> QED BY <1>2, <1>3, <1>5, <1>6, <2>1, ClientsNext
<1>8. Workers'
  BY <1>1, <1>2, WorkersSame DEF Running
<1>9. Rest'
  BY <1>1, <1>2 DEF Rest
<1> QED BY <1>7, <1>8, <1>9, PartsNext

LEMMA RequestsAre == \A request \in Requests : request \in Request /\ WellFormed(request)
<1>1. ASSUME NEW S, NEW n \in Nat PROVE BoundedSeq(S, n) \subseteq Seq(S)
  <2>1. \A m \in 0 .. n : \A s \in [1 .. m -> S] : s \in Seq(S)
    BY IsASeq
  <2> QED BY <2>1 DEF BoundedSeq, SeqOf
<1>2. MaxTasks \in Nat /\ MaxReplaced \in Nat
  BY NodeAssumption
<1>3. /\ BoundedSeq(Tasks, MaxTasks) \subseteq Seq(Tasks)
      /\ BoundedSeq(Tasks \X Tasks, MaxReplaced) \subseteq Seq(Tasks \X Tasks)
  BY <1>1, <1>2
<1> QED BY <1>3 DEF Requests, Request

LEMMA KeysOf ==
  ASSUME NEW request \in Request
  PROVE  Asks(request) \subseteq Key /\ Gives(request) \subseteq Key
<1>1. /\ request.job \in Jobs /\ request.replacements \in Seq(Tasks \X Tasks)
      /\ request.tasks \in Seq(Tasks)
  BY DEF Request
<1>2. /\ \A p \in ToSet(request.replacements) : p \in Tasks \X Tasks
      /\ \A t \in ToSet(request.tasks) : t \in Tasks
  BY <1>1, ElementOfSeq, LenProperties DEF ToSet
<1> QED BY <1>1, <1>2 DEF Asks, Gives, Key

LEMMA ClientSendsHolds == IInv /\ ClientSends => IInv'
<1> SUFFICES ASSUME IInv, ClientSends PROVE IInv'
  OBVIOUS
<1>1. PICK request \in Requests :
          /\ Asks(request) \cap (asked \cup Giving) = {}
          /\ Gives(request) \subseteq asked
          /\ ClientTask("serving", "serving", <<Message(request)>>)
          /\ asked' = (asked \ Gives(request)) \cup Asks(request)
          /\ late' = late \ Gives(request)
  BY DEF ClientSends
<1> DEFINE s == client.events
           D == DOMAIN worker.assignments
           m == Message(request)
           A == Asks(request)
           G == Gives(request)
           I == AllAsks(s)
           J == AllGives(s)
<1>2. Workers /\ Clients /\ Rest /\ UNCHANGED <<kind, worker, node_manager, stopped, deaths, lost>>
  BY Parts DEF ClientSends
<1>3. request \in Request /\ WellFormed(request)
  BY RequestsAre
<1>4. m \in Event /\ m.event = "Message" /\ m.request = request
  BY <1>3 DEF Event, Message
<1> HIDE DEF m
<1>5. /\ client # NoClient /\ client.task = "serving"
      /\ client' \in Client /\ client'.task = "serving" /\ client'.events = s \o <<m>>
      /\ client'.connected = client.connected
  <2>1. ClientTask("serving", "serving", <<m>>)
    BY <1>1 DEF m
  <2> QED BY <1>2, <1>4, <2>1, TaskIs
<1>6. /\ s \in Seq(Event) /\ asked \subseteq Key /\ late \subseteq asked
      /\ InOrder(s) /\ OutOf(s, D, late) /\ Follow(client, D) /\ asked = Waiting(client, D, late)
  BY <1>2, <1>5, Hearing
<1>7. /\ asked = ((I \cup D) \ J) \cup late /\ I \cap D = {} /\ I \cap late = {} /\ J \cap late = {}
      /\ A \cap (asked \cup J) = {} /\ G \subseteq asked /\ A \cap G = {}
      /\ asked' = (asked \ G) \cup A /\ late' = late \ G
      /\ A \subseteq Key
  BY <1>1, <1>3, <1>5, <1>6, UnreadIs, KeysOf DEF Waiting, OutOf, WellFormed
<1> HIDE DEF s, D, A, G, I, J
<1>8. A \cap I = {} /\ G \cap J = {} /\ A \cap J = {} /\ A \cap D = {}
  BY <1>6, <1>7
<1>9. /\ InOrder(s \o <<m>>) /\ AllAsks(s \o <<m>>) = I \cup A /\ AllGives(s \o <<m>>) = J \cup G
  BY <1>3, <1>4, <1>6, <1>8, OneMore DEF A, G, I, J
<1>10. OutOf(client'.events, D, late')
  BY <1>5, <1>6, <1>7, <1>8, <1>9 DEF OutOf
<1>11. asked' = ((I \cup A \cup D) \ (J \cup G)) \cup late'
  BY <1>7, <1>8
<1>12. asked' = Waiting(client', D, late')
  BY <1>5, <1>9, <1>11 DEF Waiting
<1>13. Follow(client', D)
  <2> DEFINE t == s \o <<m>>
  <2>1. /\ Len(s) \in Nat /\ DOMAIN s = 1 .. Len(s) /\ DOMAIN t = 1 .. Len(s) + 1
        /\ (\A i \in 1 .. Len(s) : t[i] = s[i]) /\ t[Len(s) + 1] = m /\ t # <<>>
    BY <1>4, <1>6, OneMoreIs
  <2> HIDE DEF t
  <2>2. \A i \in DOMAIN t : t[i] = m \/ (i \in DOMAIN s /\ t[i] = s[i])
    BY <2>1
  <2>3. /\ \A i \in DOMAIN s : s[i].event # "Disconnected"
        /\ ~client.connected => D = {} /\ s # <<>> /\ s[1].event = "Connected"
    BY <1>5, <1>6 DEF Follow, s
  <2>4. s # <<>> => 1 \in 1 .. Len(s)
    BY <1>6, <2>1, EmptySeq
  <2>5. client'.events = t /\ client'.task = "serving" /\ client'.connected = client.connected
    BY <1>5 DEF t
  <2>6. \A i \in DOMAIN t : t[i].event # "Disconnected"
    BY <1>4, <2>2, <2>3
  <2>7. s # <<>> => t[1] = s[1]
    BY <2>1, <2>4
  <2> QED BY <2>1, <2>3, <2>5, <2>6, <2>7 DEF Follow
<1>14. Clients'
  <2>1. DOMAIN worker'.assignments = D
    BY <1>2 DEF D
  <2>2. asked' \subseteq Key /\ late' \subseteq asked'
    BY <1>6, <1>7
  <2> QED BY <1>5, <1>9, <1>10, <1>12, <1>13, <2>1, <2>2, ClientsNext
<1>15. Workers'
  BY <1>2, WorkersSame DEF Running
<1>16. Rest'
  BY <1>2 DEF Rest
<1> QED BY <1>14, <1>15, <1>16, PartsNext
-----------------------------------------------------------------------------
(* Steps of the executors. *)
LEMMA ExecutorSteps ==
  ASSUME Workers, Running, NEW e \in DOMAIN worker.executors, NEW y, Works(worker.executors[e], y),
         worker' = [worker EXCEPT !.executors[e] = y], kind' = kind, stopped' = stopped,
         lost \subseteq lost', lost' \subseteq DOMAIN worker.assignments,
         Drops(e, y) \subseteq lost',
         kind = "dll" => \/ y.alive = worker.executors[e].alive
                         \/ \A k \in InHand(worker.executors[e]) :
                               k \in DOMAIN worker.assignments => k \in lost'
  PROVE  Workers' /\ worker'.assignments = worker.assignments
<1> DEFINE x == worker.executors[e]
           A == worker.assignments
<1>1. Good(kind, worker) /\ HeldUnlessLost /\ DeadLost
  BY DEF Workers
<1>2. worker' = Put(worker, e, y)
  BY DEF Put
<1>3. kind = "dll" => Len(x.jobs) + Len(x.results) <= 1
  BY <1>1 DEF Good, Hands
<1>4. y \in Executor /\ (y.running => y.jobs # <<>>) /\ InHand(y) \subseteq InHand(x)
      /\ (kind = "dll" => Len(y.jobs) + Len(y.results) <= 1)
  BY <1>3 DEF Works
<1>5. Good(kind, worker') /\ PutIn(worker, e, y, worker')
  <2>1. Good(kind, Put(worker, e, y)) /\ PutIn(worker, e, y, Put(worker, e, y))
    BY ONLY <1>1, <1>4, e \in DOMAIN worker.executors, PutGood
  <2> QED BY <1>2, <2>1
<1>6. /\ worker'.assignments = A /\ DOMAIN worker'.executors = DOMAIN worker.executors
      /\ worker'.executors[e] = y
      /\ \A z \in DOMAIN worker.executors \ {e} : worker'.executors[z] = worker.executors[z]
  BY <1>5 DEF PutIn
<1>7. \A k \in DOMAIN A : Held(worker, k) \/ k \in lost
  BY <1>1 DEF HeldUnlessLost
<1>8. ASSUME NEW k \in DOMAIN A PROVE Held(worker', k) \/ k \in lost'
  <2>1. CASE k \in lost
    BY <2>1
  <2>2. CASE Held(worker, k) /\ A[k] # e
    BY <1>6, <2>2 DEF Held
  <2>3. CASE Held(worker, k) /\ A[k] = e
    <3>1. k \in InHand(x)
      BY <2>3 DEF Held
    <3>2. CASE k \in InHand(y)
      BY <1>6, <2>3, <3>2 DEF Held
    <3>3. CASE k \notin InHand(y)
      BY <2>3, <3>1, <3>3 DEF Drops
    <3> QED BY <3>2, <3>3
  <2> QED BY <1>7, <2>1, <2>2, <2>3
<1>9. HeldUnlessLost'
  BY <1>6, <1>8 DEF HeldUnlessLost
<1>10. ASSUME kind = "dll", NEW k \in DOMAIN A, A[k] \in DOMAIN worker.executors,
              ~worker'.executors[A[k]].alive
       PROVE  k \in lost'
  <2>1. CASE A[k] # e
    <3>1. ~worker.executors[A[k]].alive
      BY <1>6, <1>10, <2>1
    <3>2. k \in lost
      BY <1>1, <1>10, <3>1 DEF DeadLost
    <3> QED BY <3>2
  <2>2. CASE A[k] = e
    <3>1. CASE y.alive = x.alive
      <4>1. ~x.alive
        BY <1>6, <1>10, <2>2, <3>1
      <4>2. k \in lost
        BY <1>1, <1>10, <2>2, <4>1 DEF DeadLost
      <4> QED BY <4>2
    <3>2. CASE \A j \in InHand(x) : j \in DOMAIN A => j \in lost'
      <4>1. Held(worker, k) => k \in InHand(x)
        BY <2>2 DEF Held
      <4> QED BY <1>7, <3>2, <4>1
    <3> QED BY <1>10, <3>1, <3>2
  <2> QED BY <2>1, <2>2
<1>11. DeadLost'
  BY <1>6, <1>10 DEF DeadLost
<1>12. Workers'
  BY <1>5, <1>6, <1>9, <1>11 DEF Workers
<1> QED BY <1>6, <1>12

LEMMA ExecutorsHolds == IInv /\ Executors => IInv'
<1> SUFFICES ASSUME IInv, NEW e \in DOMAIN worker.executors,
                    ReceiveJob(e) \/ FinishJob(e) \/ Interrupt(e) \/ ProcessDies(e)
             PROVE  IInv'
  BY DEF Executors
<1> DEFINE x == worker.executors[e]
           D == DOMAIN worker.assignments
<1>1. Workers /\ Clients /\ Rest
  BY Parts
<1>2. x \in Executor /\ (x.running => x.jobs # <<>>) /\ lost \subseteq D
  BY <1>1, WorkerTypes DEF Workers, Good, Orderly
<1>3. \A y : Drops(e, y) \subseteq D
  BY DEF Drops
<1>4. /\ UNCHANGED <<kind, node_manager, client, stopped, asked, late>>
      /\ deaths' \in Nat /\ Running
  BY <1>1 DEF ReceiveJob, FinishJob, Interrupt, ProcessDies, Becomes, Alive, Rest
<1>5. Workers' /\ worker'.assignments = worker.assignments
  <2>1. CASE ReceiveJob(e)
    <3> DEFINE y == IF kind = "dll" THEN recv_job(x) ELSE execute(x, worker.job_cache)
    <3>1. /\ ~x.running /\ x.jobs # <<>> /\ lost' = lost \cup Drops(e, y)
          /\ worker' = [worker EXCEPT !.executors[e] = y]
      BY <2>1 DEF ReceiveJob, Becomes
    <3>2. Works(x, y) /\ (kind = "dll" => y.alive = x.alive)
      <4>1. Works(x, recv_job(x)) /\ recv_job(x).alive = x.alive
        BY <1>2, <3>1, recv_jobIs
      <4>2. Works(x, execute(x, worker.job_cache))
        BY <1>2, <3>1, executeIs
      <4> QED BY <4>1, <4>2
    <3> HIDE DEF y
    <3> QED BY <1>1, <1>2, <1>3, <1>4, <3>1, <3>2, ExecutorSteps
  <2>2. CASE FinishJob(e)
    <3> DEFINE y == send_result(x)
    <3>1. x.running /\ lost' = lost /\ worker' = [worker EXCEPT !.executors[e] = y]
      BY <2>2 DEF FinishJob, Becomes
    <3>2. Works(x, y) /\ y.alive = x.alive /\ InHand(y) = InHand(x)
      BY <1>2, <3>1, send_resultIs
    <3> HIDE DEF y
    <3>3. Drops(e, y) \subseteq lost'
      BY <3>2 DEF Drops
    <3> QED BY <1>1, <1>2, <1>3, <1>4, <3>1, <3>2, <3>3, ExecutorSteps
  <2>3. CASE Interrupt(e)
    <3> DEFINE y == interrupted(x)
    <3>1. lost' = lost \cup Drops(e, y) /\ worker' = [worker EXCEPT !.executors[e] = y]
      BY <2>3 DEF Interrupt, Becomes
    <3>2. Works(x, y) /\ y.alive = x.alive
      BY <1>2, interruptedIs
    <3> HIDE DEF y
    <3> QED BY <1>1, <1>2, <1>3, <1>4, <3>1, <3>2, ExecutorSteps
  <2>4. CASE ProcessDies(e)
    <3> DEFINE y == die(x)
    <3>1. lost' = lost \cup (InHand(x) \cap D) /\ worker' = [worker EXCEPT !.executors[e] = y]
      BY <2>4 DEF ProcessDies
    <3>2. Works(x, y)
      BY <1>2, dieIs
    <3> HIDE DEF y
    <3>3. Drops(e, y) \subseteq lost'
      BY <3>1 DEF Drops
    <3> QED BY <1>1, <1>2, <1>3, <1>4, <3>1, <3>2, <3>3, ExecutorSteps
  <2> QED BY <2>1, <2>2, <2>3, <2>4
<1>6. Clients'
  BY <1>1, <1>4, <1>5, ClientsSame
<1>7. Rest'
  BY <1>1, <1>4 DEF Rest
<1> QED BY <1>5, <1>6, <1>7, PartsNext
-----------------------------------------------------------------------------
(* A response is sent to the client or kept for it. *)
LEMMA SendIs ==
  ASSUME NEW c \in Client, NEW response \in Responses
  PROVE  /\ send(c, response) \in Client /\ send(c, response).task = c.task
         /\ send(c, response).events = c.events /\ send(c, response).connected = c.connected
<1>1. Append(c.buffer, response) \in Seq(Responses)
  <2>1. c.buffer \in Seq(Responses)
    BY ClientIs
  <2> DEFINE b == c.buffer
             R == Responses
  <2>2. b \in Seq(R) /\ response \in R
    BY <2>1
  <2> HIDE DEF b, R
  <2>3. Append(b, response) \in Seq(R)
    BY <2>2, AppendProperties
  <2> QED BY <2>3 DEF b, R
<1> DEFINE t == Append(c.buffer, response)
<1>2. t \in Seq(Responses)
  BY <1>1
<1>3. send(c, response) = c \/ send(c, response) = [c EXCEPT !.buffer = t]
  BY DEF send
<1> HIDE DEF t
<1>4. LET a == [c EXCEPT !.buffer = t]
      IN  a \in Client /\ a.task = c.task /\ a.events = c.events /\ a.connected = c.connected
  BY <1>2 DEF Client
<1> QED BY <1>3, <1>4

LEMMA ResponseIs ==
  /\ NoResponse \in Responses
  /\ \A keys \in SUBSET Key, type \in {"LibraryMissing", "NoFreeExecutors", "Answer"} :
        /\ Response(type, keys) \in Responses /\ Response(type, keys) # NoResponse
        /\ Response(type, keys).keys = keys /\ Response(type, keys).type = type
BY DEF NoResponse, Response, Responses

(* An item of an executor's stream is read. *)
LEMMA WorkerRecvHolds ==
  ASSUME IInv, NEW e \in DOMAIN worker.executors, WorkerRecv(e)
  PROVE  IInv'
<1>1. Workers /\ Clients /\ Rest
  BY Parts
<1>2. PICK done \in IF kind = "dll" THEN dll_process_message(worker, e)
                    ELSE wasm_process_message(worker, e) :
          /\ worker' = done.worker
          /\ client' = send(client, done.response)
          /\ asked' = Settle(done.response)
          /\ lost' = lost \cap DOMAIN done.worker.assignments
  BY DEF WorkerRecv
<1>3. /\ Running /\ client # NoClient /\ late' = late \cap asked'
      /\ UNCHANGED <<kind, node_manager, stopped, deaths>>
  BY DEF WorkerRecv
<1>4. Good(kind, worker) /\ lost \subseteq DOMAIN worker.assignments /\ HeldUnlessLost /\ DeadLost
  BY <1>1 DEF Workers
<1>5. Answered(kind, worker, done)
  BY ONLY <1>2, <1>4, e \in DOMAIN worker.executors, MessageIs
<1> DEFINE D == DOMAIN worker.assignments
           w == worker
           v == done.worker
           r == done.response
<1>6. PICK keys \in SUBSET Key :
          /\ Received(kind, w, v, keys)
          /\ r = IF keys = {} THEN NoResponse ELSE Response("Answer", keys)
  BY <1>5 DEF Answered
<1>7. /\ Good(kind, v) /\ keys \subseteq D /\ DOMAIN v.assignments = D \ keys
      /\ \A k \in DOMAIN v.assignments :
            /\ v.assignments[k] = w.assignments[k]
            /\ w.assignments[k] \in DOMAIN v.executors =>
                 /\ w.assignments[k] \in DOMAIN w.executors
                 /\ v.executors[w.assignments[k]].alive = w.executors[w.assignments[k]].alive
            /\ Held(w, k) => Held(v, k) \/ (kind = "dll" /\ ~w.executors[w.assignments[k]].alive)
  BY <1>6 DEF Received
<1>8. r \in Responses /\ (keys = {} => r = NoResponse) /\ (keys # {} => r # NoResponse /\ r.keys = keys)
  BY <1>6, ResponseIs
<1>9. worker' = v /\ client' = send(client, r) /\ asked' = Settle(r)
      /\ lost' = lost \cap DOMAIN v.assignments
  BY <1>2
<1> HIDE DEF v, r
<1>10. \A k \in D : (Held(w, k) \/ k \in lost) /\ (Held(w, k) => w.assignments[k] \in DOMAIN w.executors)
  BY <1>3, <1>4 DEF HeldUnlessLost, Held
<1>11. \A k \in D : kind = "dll" /\ w.assignments[k] \in DOMAIN w.executors
                      /\ ~w.executors[w.assignments[k]].alive => k \in lost
  BY <1>3, <1>4 DEF DeadLost
<1>12. \A k \in DOMAIN v.assignments : k \in D /\ (Held(v, k) \/ k \in lost)
  BY <1>7, <1>10, <1>11
<1>13. Workers'
  <2>1. Good(kind, worker)'
    BY <1>3, <1>7, <1>9
  <2>2. HeldUnlessLost'
    BY <1>9, <1>12 DEF HeldUnlessLost
  <2>3. DeadLost'
    BY <1>3, <1>7, <1>9, <1>11, <1>12 DEF DeadLost
  <2> QED BY <1>9, <2>1, <2>2, <2>3 DEF Workers
<1>14. /\ client \in Client /\ InOrder(client.events) /\ OutOf(client.events, D, late)
       /\ client.connected \in BOOLEAN /\ asked \subseteq Key /\ late \subseteq asked
       /\ client.task \in {"waiting", "serving", "ended"}
       /\ Follow(client, D) /\ asked = Waiting(client, D, late)
  BY <1>1, <1>3, Hearing
<1>15. /\ client' \in Client /\ client'.task = client.task /\ client'.events = client.events
       /\ client'.connected = client.connected
  BY <1>8, <1>9, <1>14, SendIs
<1>16. keys # {} => client.task # "waiting" /\ (client.task = "serving" => client.connected)
  BY <1>7, <1>14 DEF Follow
<1>17. asked' \subseteq asked /\ (client.task = "serving" => asked' = asked \ keys)
  BY <1>8, <1>9, <1>16 DEF Settle, Delivered
<1>18. DOMAIN worker'.assignments = D \ keys
  BY <1>7, <1>9
<1>19. Follow(client', D \ keys) /\ OutOf(client'.events, D \ keys, late')
  BY <1>3, <1>14, <1>15 DEF Follow, OutOf
<1>20. asked' = Waiting(client', D \ keys, late')
  <2> DEFINE I == AllAsks(client.events)
             J == AllGives(client.events)
  <2>1. CASE client.task = "serving"
    <3>1. asked = ((I \cup D) \ J) \cup late /\ I \cap D = {}
      BY <1>14, <2>1 DEF Waiting, OutOf
    <3>2. asked' = asked \ keys
      BY <1>17, <2>1
    <3> HIDE DEF I, J, D
    <3>3. asked' = ((I \cup (D \ keys)) \ J) \cup late'
      BY <1>3, <1>7, <1>14, <3>1, <3>2
    <3> QED BY <1>15, <2>1, <3>3 DEF Waiting, I, J
  <2>2. CASE client.task # "serving"
    BY <1>14, <1>15, <1>17, <2>2 DEF Waiting
  <2> QED BY <2>1, <2>2
<1>21. Clients'
  BY <1>3, <1>14, <1>15, <1>17, <1>18, <1>19, <1>20, ClientsNext
<1>22. Rest'
  BY <1>1, <1>3 DEF Rest
<1> QED BY <1>13, <1>21, <1>22, PartsNext
-----------------------------------------------------------------------------
(* A request is read. *)
LEMMA RequestRead ==
  ASSUME IInv, ClientEvent("Message")
  PROVE  LET s == client.events
             r == Head(s).request
             D == DOMAIN worker.assignments
         IN  /\ s \in Seq(Event) /\ s # <<>> /\ Tail(s) \in Seq(Event)
             /\ Acceptable(worker, r) /\ Handled(kind, worker, r, Processed(r))
             /\ client.task \in {"serving", "ended"}
             /\ client.task = "serving" =>
                  client.connected /\ \A i \in DOMAIN Tail(s) : Tail(s)[i].event # "Disconnected"
             /\ InOrder(Tail(s))
             /\ Asks(r) \cap AllAsks(Tail(s)) = {} /\ Gives(r) \cap AllGives(Tail(s)) = {}
             /\ Gives(r) \cap AllAsks(Tail(s)) = {}
             /\ AllAsks(s) = AllAsks(Tail(s)) \cup Asks(r) /\ AllGives(s) = AllGives(Tail(s)) \cup Gives(r)
<1> DEFINE s == client.events
           r == Head(s).request
           D == DOMAIN worker.assignments
<1>1. Workers /\ Clients /\ Rest
  BY Parts
<1>2. client # NoClient /\ s # <<>> /\ Head(s).event = "Message"
  BY DEF ClientEvent
<1>3. /\ s \in Seq(Event) /\ client.task \in {"waiting", "serving", "ended"}
      /\ InOrder(s) /\ OutOf(s, D, late) /\ Follow(client, D)
  BY <1>1, <1>2, Hearing
<1>4. Good(kind, worker)
  BY <1>1 DEF Workers
<1> HIDE DEF s
<1>5. /\ WellFormed(r) /\ InOrder(Tail(s))
      /\ AllAsks(s) = AllAsks(Tail(s)) \cup Asks(r) /\ AllGives(s) = AllGives(Tail(s)) \cup Gives(r)
      /\ AllAsks(Tail(s)) \cap Asks(r) = {} /\ AllGives(Tail(s)) \cap Gives(r) = {}
      /\ AllAsks(Tail(s)) \cap Gives(r) = {}
  BY <1>2, <1>3, HeadRead
<1>6. /\ Tail(s) \in Seq(Event) /\ Head(s) \in Event /\ Head(s) = s[1] /\ 1 \in DOMAIN s
      /\ \A i \in DOMAIN Tail(s) : i + 1 \in DOMAIN s /\ Tail(s)[i] = s[i + 1]
  <2>1. /\ Len(s) \in Nat \ {0} /\ DOMAIN s = 1 .. Len(s) /\ DOMAIN Tail(s) = 1 .. Len(s) - 1
        /\ Head(s) = s[1] /\ \A i \in DOMAIN Tail(s) : Tail(s)[i] = s[i + 1]
        /\ Tail(s) \in Seq(Event) /\ Head(s) \in Event
    BY <1>2, <1>3, TailIs
  <2> QED BY <2>1
<1>7. r \in Request
  BY <1>2, <1>6, EventIs
<1>8. Acceptable(worker, r)
  BY <1>3, <1>5, <1>7 DEF Acceptable, OutOf
<1> HIDE DEF r
<1>9. Handled(kind, worker, r, Processed(r))
  <2>1. CASE kind = "dll"
    BY <1>4, <1>8, <2>1, dll_process_requestIs DEF Processed
  <2>2. CASE kind # "dll"
    <3>1. Good("wasm", worker)
      BY <1>4, <2>2, GoodKind
    <3>2. Handled("wasm", worker, r, wasm_process_request(worker, r))
      BY <1>8, <3>1, wasm_process_requestIs
    <3>3. Processed(r) = wasm_process_request(worker, r)
      BY <2>2 DEF Processed
    <3> DEFINE done == Processed(r)
    <3>4. Handled("wasm", worker, r, done)
      BY <3>2, <3>3
    <3>5. Good("wasm", done.worker) => Good(kind, done.worker)
      BY <2>2, GoodKind
    <3> HIDE DEF done
    <3>6. Handled(kind, worker, r, done)
      BY <3>4, <3>5 DEF Handled
    <3> QED BY <3>6 DEF done
  <2> QED BY <2>1, <2>2
<1>10. /\ client.task \in {"serving", "ended"}
       /\ client.task = "serving" =>
            client.connected /\ \A i \in DOMAIN Tail(s) : Tail(s)[i].event # "Disconnected"
  BY <1>2, <1>3, <1>6 DEF Follow, s
<1> QED BY <1>2, <1>3, <1>5, <1>6, <1>8, <1>9, <1>10 DEF r, s

(* The tasks of a request that replace one that is not assigned. *)
Missed(w, request) ==
    {<<request.job, p[2]>> : p \in {q \in ToSet(request.replacements) :
                                       <<request.job, q[1]>> \notin DOMAIN w.assignments}}

LEMMA AsksAre ==
  ASSUME NEW w, NEW request, Acceptable(w, request)
  PROVE  /\ Asks(request) = Newly(request) \cup InPlace(w, request) \cup Missed(w, request)
         /\ Newly(request) \cap (InPlace(w, request) \cup Missed(w, request)) = {}
<1> DEFINE job == request.job
           reps == request.replacements
           m == Len(reps)
<1>1. reps \in Seq(Tasks \X Tasks)
      /\ \A i \in 1 .. m : New(job, reps, i) \notin Newly(request)
  BY AcceptableIs
<1>2. ToSet(reps) = {reps[i] : i \in 1 .. m}
  BY <1>1, LenProperties DEF ToSet
<1>3. \A p \in ToSet(reps) : <<job, p[2]>> \notin Newly(request)
  BY <1>1, <1>2 DEF New
<1>4. Newly(request) \cap (InPlace(w, request) \cup Missed(w, request)) = {}
  BY <1>3 DEF InPlace, Missed
<1>5. Asks(request) = Newly(request) \cup InPlace(w, request) \cup Missed(w, request)
  BY DEF Asks, Newly, InPlace, Missed
<1> QED BY <1>4, <1>5

(* The worker after a request: what is lost is known. *)
LEMMA WorkersServed ==
  ASSUME Workers, Running, kind' = kind, NEW request, Good(kind, worker'),
         \A k \in DOMAIN worker'.assignments :
            IF k \in Asks(request) THEN Started(worker', k, request.job) ELSE Same(worker, worker', k),
         lost' = DOMAIN worker'.assignments \cap
                   ((lost \ Asks(request))
                      \cup {k \in Asks(request) : ~Contains(worker'.job_args, request.job)}),
         Running' => ~worker'.panicked
  PROVE  Workers'
<1> DEFINE w == worker
           v == worker'
<1>1. \A k \in DOMAIN w.assignments :
         /\ Held(w, k) \/ k \in lost
         /\ kind = "dll" /\ w.assignments[k] \in DOMAIN w.executors
              /\ ~w.executors[w.assignments[k]].alive => k \in lost
  BY DEF Workers, HeldUnlessLost, DeadLost
<1>2. ASSUME NEW k \in DOMAIN v.assignments, ~v.panicked
      PROVE  /\ Held(v, k) \/ k \in lost'
             /\ kind = "dll" /\ v.assignments[k] \in DOMAIN v.executors
                  /\ ~v.executors[v.assignments[k]].alive => k \in lost'
  <2>1. CASE k \in Asks(request)
    <3>1. Started(v, k, request.job)
      BY <2>1
    <3>2. ~Contains(v.job_args, request.job) => k \in lost'
      BY <2>1
    <3> QED BY <1>2, <3>1, <3>2 DEF Started, Held
  <2>2. CASE k \notin Asks(request)
    <3>1. Same(w, v, k)
      BY <2>2
    <3>2. k \in lost => k \in lost'
      BY <2>2
    <3>3. k \in DOMAIN w.assignments
      BY <3>1 DEF Same
    <3>4. Held(w, k) => Held(v, k)
      BY <3>1 DEF Same, Held
    <3> QED BY <1>1, <3>1, <3>2, <3>3, <3>4 DEF Same
  <2> QED BY <2>1, <2>2
<1>3. HeldUnlessLost'
  BY <1>2 DEF HeldUnlessLost
<1>4. DeadLost'
  BY <1>2 DEF DeadLost
<1> QED BY <1>3, <1>4 DEF Workers

LEMMA ClientMessageHolds == IInv /\ ClientMessage => IInv'
<1> SUFFICES ASSUME IInv, ClientMessage PROVE IInv'
  OBVIOUS
<1> DEFINE s == client.events
           r == Head(s).request
           w == worker
           D == DOMAIN worker.assignments
           A == Asks(r)
           G == Gives(r)
           I == AllAsks(Tail(s))
           J == AllGives(Tail(s))
           N == Newly(r)
           P == InPlace(w, r)
           T == Missed(w, r)
           done == Processed(r)
           v == done.worker
           re == done.response
           c == [client EXCEPT !.events = Tail(s)]
<1>1. Workers /\ Clients /\ Rest /\ Running /\ client # NoClient
  BY Parts DEF ClientMessage, ClientEvent
<1>2. /\ worker' = v /\ client' = send(c, re)
      /\ asked' = Settle(re) \cup TakenBack(r, re)
      /\ late' = asked' \cap (late \cup TooLate(r, re))
      /\ lost' = DOMAIN v.assignments \cap
                   ((lost \ A) \cup {k \in A : ~Contains(v.job_args, r.job)})
      /\ stopped' \in {"no", "error", "panic"}
      /\ v.panicked => stopped' = "panic"
      /\ UNCHANGED <<kind, node_manager, deaths>>
  <2>1. PICK request \in {r}, done_ \in {done} :
           LET u == done_.worker
           IN  /\ worker' = u /\ client' = send([client EXCEPT !.events = Tail(@)], done_.response)
               /\ asked' = Settle(done_.response) \cup TakenBack(request, done_.response)
               /\ late' = asked' \cap (late \cup TooLate(request, done_.response))
               /\ lost' = DOMAIN u.assignments \cap
                    ((lost \ Asks(request)) \cup {k \in Asks(request) : ~Contains(u.job_args, request.job)})
               /\ stopped' = IF u.panicked THEN "panic"
                             ELSE IF done_.response # NoResponse /\ client.connected
                                        /\ ~(client.task = "serving") THEN "error"
                             ELSE "no"
    BY Zenon DEF ClientMessage
  <2>2. request = r /\ done_ = done
    OBVIOUS
  <2>3. UNCHANGED <<kind, node_manager, deaths>>
    BY DEF ClientMessage
  <2> HIDE DEF r, done
  <2> QED BY <2>1, <2>2, <2>3
<1>3. /\ s \in Seq(Event) /\ s # <<>> /\ Tail(s) \in Seq(Event)
      /\ Acceptable(w, r) /\ Handled(kind, w, r, done)
      /\ client.task \in {"serving", "ended"}
      /\ client.task = "serving" =>
           client.connected /\ \A i \in DOMAIN Tail(s) : Tail(s)[i].event # "Disconnected"
      /\ InOrder(Tail(s))
      /\ A \cap I = {} /\ G \cap J = {} /\ G \cap I = {}
      /\ AllAsks(s) = I \cup A /\ AllGives(s) = J \cup G
  BY RequestRead DEF ClientMessage
<1>4. /\ client \in Client /\ asked \subseteq Key /\ late \subseteq asked
      /\ OutOf(s, D, late) /\ asked = Waiting(client, D, late)
  BY <1>1, Hearing
<1>5. /\ A = N \cup P \cup T /\ N \cap (P \cup T) = {}
  BY <1>3, AsksAre
<1>6. /\ A \cap D = {} /\ A \cap G = {} /\ A \subseteq Key /\ G \subseteq Key
  BY <1>3, KeysOf DEF Acceptable, WellFormed
<1>7. TooLate(r, re) = T \cup (TakenBack(r, re) \ D)
  BY DEF TooLate, Missed
<1>8. /\ I \cap D = {} /\ A \cap late = {} /\ I \cap late = {} /\ J \cap late = {} /\ G \cap late = {}
      /\ client.task = "serving" => asked = ((I \cup A \cup D) \ (J \cup G)) \cup late
      /\ client.task # "serving" => asked = {}
  BY <1>3, <1>4 DEF OutOf, Waiting
<1>9. client.task = "serving" => Delivered
  BY <1>3 DEF Delivered
<1>10. client.task # "serving" => asked' = {} /\ late' = {}
  BY <1>2, <1>8 DEF Settle, TakenBack, Delivered
<1>11. c \in Client /\ c.task = client.task /\ c.events = Tail(s) /\ c.connected = client.connected
  <2> HIDE DEF s
  <2> QED BY <1>3, <1>4 DEF Client
<1> HIDE DEF s, r, w, A, G, I, J, N, P, T, done, c
<1>12. PICK E :
         /\ E = DOMAIN v.assignments /\ re \in Responses
         /\ \A k \in E : IF k \in A THEN Started(v, k, r.job) ELSE Same(w, v, k)
         /\ asked' \subseteq Key /\ late' \subseteq asked'
         /\ I \cap E = {} /\ I \cap late' = {} /\ J \cap late' = {}
         /\ client.task = "serving" => asked' = ((I \cup E) \ J) \cup late'
  <2>1. CASE done = [worker |-> w, response |-> Response("LibraryMissing", A)]
    <3>1. v = w /\ re = Response("LibraryMissing", A)
      BY <2>1
    <3>2. re \in Responses /\ re # NoResponse /\ re.keys = A /\ re.type = "LibraryMissing"
      BY <1>6, <3>1, ResponseIs
    <3> HIDE DEF v, re, D
    <3>3. client.task = "serving" => asked' = (asked \ A) \cup G /\ TakenBack(r, re) = G
      BY <1>2, <1>9, <3>2 DEF Settle, TakenBack, G
    <3>4. CASE client.task = "serving"
      <4>1. late' = asked' \cap (late \cup T \cup (G \ D))
        BY <1>2, <1>7, <3>3, <3>4
      <4>2. asked' = ((I \cup D) \ J) \cup late' /\ I \cap late' = {} /\ J \cap late' = {}
        <5>1. T \subseteq A
          BY <1>5
        <5>2. asked = ((I \cup A \cup D) \ (J \cup G)) \cup late
          BY <1>8, <3>4
        <5> QED BY <1>3, <1>6, <1>8, <3>3, <3>4, <4>1, <5>1, <5>2
      <4>3. D = DOMAIN v.assignments /\ \A k \in D : k \notin A /\ Same(w, v, k)
        BY <1>6, <3>1 DEF D, w, Same
      <4>4. asked' \subseteq Key /\ late' \subseteq asked'
        BY <1>4, <1>6, <3>3, <3>4, <4>1
      <4> QED BY <1>8, <3>2, <3>4, <4>2, <4>3, <4>4
    <3>5. CASE client.task # "serving"
      <4>1. D = DOMAIN v.assignments /\ \A k \in D : k \notin A /\ Same(w, v, k)
        BY <1>6, <3>1 DEF D, w, Same
      <4> QED BY <1>8, <1>10, <3>2, <3>5, <4>1
    <3> QED BY <3>4, <3>5
  <2>2. CASE \E refused : /\ Served(w, r, v, refused)
                          /\ re = IF refused = {} THEN NoResponse
                                  ELSE Response("NoFreeExecutors", refused)
    <3>1. PICK R : /\ Served(w, r, v, R)
                   /\ re = IF R = {} THEN NoResponse ELSE Response("NoFreeExecutors", R)
      BY <2>2
    <3>2. /\ R \subseteq N /\ DOMAIN v.assignments = (D \ G) \cup P \cup (N \ R)
          /\ \A k \in DOMAIN v.assignments : IF k \in A THEN Started(v, k, r.job) ELSE Same(w, v, k)
      BY <3>1 DEF Served, A, G, N, P, w
    <3>3. R \in SUBSET Key
      BY <1>5, <1>6, <3>2
    <3>4. /\ re \in Responses /\ re.type # "LibraryMissing"
          /\ (R = {} => re = NoResponse) /\ (R # {} => re # NoResponse /\ re.keys = R)
      <4>1. NoResponse.type = "None"
        BY DEF NoResponse, Response
      <4> QED BY <3>1, <3>3, <4>1, ResponseIs
    <3> DEFINE E == DOMAIN v.assignments
    <3>5. E = DOMAIN v.assignments /\ E = (D \ G) \cup P \cup (N \ R)
      BY <3>2
    <3> HIDE DEF v, re, D, E
    <3>6. TakenBack(r, re) = {}
      BY <3>4 DEF TakenBack
    <3>7. late' = asked' \cap (late \cup T)
      BY <1>2, <1>7, <3>6
    <3>8. client.task = "serving" => asked' = asked \ R
      BY <1>2, <1>9, <3>4, <3>6 DEF Settle
    <3>9. I \cap E = {}
      BY <1>3, <1>5, <1>8, <3>5
    <3>10. CASE client.task = "serving"
      <4>1. asked' = ((I \cup E) \ J) \cup late' /\ I \cap late' = {} /\ J \cap late' = {}
        BY <1>3, <1>5, <1>6, <1>8, <3>2, <3>5, <3>7, <3>8, <3>10
      <4>2. asked' \subseteq Key /\ late' \subseteq asked'
        BY <1>4, <3>7, <3>8, <3>10
      <4> QED BY <3>2, <3>4, <3>5, <3>9, <4>1, <4>2
    <3>11. CASE client.task # "serving"
      BY <1>10, <3>2, <3>4, <3>5, <3>9, <3>11
    <3> QED BY <3>10, <3>11
  <2>3. Handled(kind, w, r, done)
    BY <1>3
  <2> QED BY <2>1, <2>2, <2>3 DEF Handled, A
<1>13. Good(kind, v)
  BY <1>3 DEF Handled
<1> HIDE DEF v, re
<1>14. Workers'
  <2>1. Good(kind, worker')
    BY <1>2, <1>13
  <2>2. \A k \in DOMAIN worker'.assignments :
            IF k \in Asks(r) THEN Started(worker', k, r.job) ELSE Same(worker, worker', k)
    BY <1>2, <1>12 DEF A, w
  <2>3. lost' = DOMAIN worker'.assignments \cap
                   ((lost \ Asks(r)) \cup {k \in Asks(r) : ~Contains(worker'.job_args, r.job)})
    BY <1>2 DEF A
  <2>4. Running' => ~worker'.panicked
    BY <1>2 DEF Running
  <2> QED BY <1>1, <1>2, <2>1, <2>2, <2>3, <2>4, WorkersServed
<1>15. /\ client' \in Client /\ client'.task = client.task /\ client'.events = Tail(s)
       /\ client'.connected = client.connected
  BY <1>2, <1>11, <1>12, SendIs
<1>16. Clients'
  <2>1. DOMAIN worker'.assignments = E
    BY <1>2, <1>12
  <2>2. Follow(client', E)
    BY <1>3, <1>15 DEF Follow
  <2>3. OutOf(client'.events, E, late')
    BY <1>12, <1>15 DEF OutOf, I, J
  <2>4. asked' = Waiting(client', E, late')
    BY <1>10, <1>12, <1>15 DEF Waiting, I, J
  <2> QED BY <1>3, <1>12, <1>15, <2>1, <2>2, <2>3, <2>4, ClientsNext
<1>17. Rest'
  BY <1>1, <1>2 DEF Rest
<1> QED BY <1>14, <1>16, <1>17, PartsNext
-----------------------------------------------------------------------------
(* Every step preserves the invariant. *)
LEMMA NextHolds == IInv /\ [Next]_vars => IInv'
<1> SUFFICES ASSUME IInv, [Next]_vars PROVE IInv'
  OBVIOUS
<1>1. CASE UNCHANGED vars
  <2>1. stopped \in {"no", "error", "panic", "hung"} /\ node_manager \in NodeManagerConnection
    BY Listening
  <2> QED BY <1>1, <2>1, Elsewhere DEF vars, Running
<1>2. CASE process_node_manager
  BY <1>2, ProcessConnectedHolds, ProcessDisconnectedHolds, AssignClientHolds,
     UnassignClientHolds, ConnectionNotEstablishedHolds DEF process_node_manager
<1>3. CASE process_request
  BY <1>3, ClientConnectedHolds, ClientDisconnectedHolds, ClientMessageHolds DEF process_request
<1>4. ASSUME NEW e \in DOMAIN worker.executors, WorkerRecv(e) PROVE IInv'
  BY <1>4, WorkerRecvHolds
<1>5. CASE Peers
  BY <1>5, ManagerHolds, accept_clientHolds, wait_clientHolds, ClientSendsHolds DEF Peers
<1> QED BY <1>1, <1>2, <1>3, <1>4, <1>5, HeartbeatFailsHolds, WorkerSpinsHolds, ExecutorsHolds
        DEF Next
-----------------------------------------------------------------------------
(* The invariant of a node: its worker is orderly, what is lost is known,  *)
(* the events of its client are in order and the tasks the client waits    *)
(* for are accounted for, whatever the client, the node manager and the    *)
(* executors do (node/src/node.rs, worker.rs).                             *)
THEOREM Inductive == Spec => []IInv
<1>1. Init => IInv
  BY InitHolds
<1>2. IInv /\ [Next]_vars => IInv'
  BY NextHolds
<1> QED BY <1>1, <1>2, PTL DEF Spec

(* The variables of a node keep their types: among others, only an         *)
(* executor that exists is free, only an assigned task is lost, and the    *)
(* caches of libraries and arguments stay within their capacity.           *)
THEOREM TypeCorrect == Spec => []TypeOK
<1>1. IInv => TypeOK
  BY DEF IInv
<1> QED BY <1>1, Inductive, PTL

(* In every state an assigned task is in the hands of its executor unless  *)
(* its process died, an abort meant for the task before it dropped it, or  *)
(* the arguments of its job were evicted.                                  *)
THEOREM TasksHeld == Spec => []HeldUnlessLost
<1>1. IInv => HeldUnlessLost
  BY DEF IInv
<1> QED BY <1>1, Inductive, PTL

(* While its client is connected, what the client waits for is what its    *)
(* unread requests ask for and what is assigned, less what is about to be  *)
(* replaced, and the tasks that came too late to replace another; a client *)
(* that is not connected yet waits for nothing and has nothing assigned.   *)
THEOREM AskedKnown == Spec => []AskedAccounted
<1>1. IInv => AskedAccounted
  BY DEF IInv, Sequel, Asking, AskedAccounted
<1> QED BY <1>1, Inductive, PTL

LEMMA ConservedIs == IInv => ExecutorsConserved
<1> SUFFICES ASSUME IInv PROVE ExecutorsConserved
  OBVIOUS
<1> DEFINE X == DOMAIN worker.executors
           F == worker.free_executors
           A == worker.assignments
           free == ToSet(F)
           busy == {k \in DOMAIN A : A[k] \in X}
           used == {A[k] : k \in busy}
<1>1. /\ IsFiniteSet(DOMAIN A) /\ IsInjective(F) /\ IsInjective(A)
      /\ Range(F) \cap Range(A) = {} /\ X \subseteq Range(F) \cup Range(A)
      /\ Hands(kind, worker) /\ F \in Seq(X)
  BY DEF IInv, TypeOK, Orderly, IsWorker
<1>2. Len(F) \in Nat /\ DOMAIN F = 1 .. Len(F) /\ free = Range(F) /\ free \subseteq X
  <2> HIDE DEF X, F
  <2>1. Len(F) \in Nat /\ DOMAIN F = 1 .. Len(F) /\ \A i \in 1 .. Len(F) : F[i] \in X
    BY <1>1, LenProperties, ElementOfSeq
  <2> QED BY <2>1 DEF ToSet, Range
<1>3. X = free \cup used /\ free \cap used = {}
  <2> HIDE DEF X, F, A, free
  <2>1. used \subseteq Range(A) /\ used \subseteq X /\ (Range(A) \cap X) \subseteq used
    BY DEF Range
  <2> QED BY <1>1, <1>2, <2>1
<1>4. Cardinality(free) = Len(F)
  <2>1. IsFiniteSet(1 .. Len(F)) /\ Cardinality(1 .. Len(F)) = Len(F)
    BY <1>2, FS_Interval
  <2> HIDE DEF F
  <2> QED BY <1>1, <1>2, <2>1, FiniteRange
<1>5. Cardinality(used) = Cardinality(busy)
  <2> DEFINE g == [k \in busy |-> A[k]]
  <2>1. busy \subseteq DOMAIN A
    OBVIOUS
  <2> HIDE DEF busy
  <2>2. IsFiniteSet(busy)
    BY <1>1, <2>1, FS_Subset
  <2>3. DOMAIN g = busy /\ Range(g) = used /\ IsInjective(g)
    BY <1>1, <2>1 DEF IsInjective, Range
  <2> HIDE DEF g
  <2> QED BY <2>2, <2>3, FiniteRange
<1>6. kind = "dll" => \A e \in free : InHand(worker.executors[e]) = {}
  BY <1>1, <1>2, NothingInHand
<1> QED BY <1>3, <1>4, <1>5, <1>6 DEF ExecutorsConserved

(* No executor is leaked or given out twice: each is free once or has one  *)
(* task, through restarts, aborts, replacements, deaths and resets, and a  *)
(* free process has nothing in its hands (free_executors, executors and    *)
(* task_executor of node/src/worker.rs).                                   *)
THEOREM Conserved == Spec => []ExecutorsConserved
BY ConservedIs, Inductive, PTL
=============================================================================
