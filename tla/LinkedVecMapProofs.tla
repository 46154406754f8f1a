-------------------------- MODULE LinkedVecMapProofs --------------------------
(***************************************************************************)
(* Theorems about module LinkedVecMap for any keys, values, addresses and  *)
(* allocator, and any number of iterators: the memory is safe, the index   *)
(* and the list tell the same, and the map implements OrderedMap.          *)
(*                                                                         *)
(* The inductive invariant is Safe, of LinkedVecMapShapes.  Each call is   *)
(* first described on a ring or a free list alone, then on the whole map,  *)
(* as a step that keeps Safe, and last as a step of OrderedMap.            *)
(***************************************************************************)
EXTENDS LinkedVecMapShapes, Basics, TLAPS

-----------------------------------------------------------------------------
(* Paths. *)
LEMMA PathIs ==
  ASSUME NEW f \in [Node -> Node], NEW p \in Node, NEW n \in Nat
  PROVE  /\ Path(f, p, n) \in Seq(Node) /\ Len(Path(f, p, n)) = n
         /\ DOMAIN Path(f, p, n) = 1 .. n
         /\ n # 0 => Path(f, p, n)[1] = p
         /\ \A i \in 1 .. n - 1 : Path(f, p, n)[i + 1] = f[Path(f, p, n)[i]]
<1> DEFINE At0(g) == g = [i \in 0 .. n |-> IF i = 0 THEN p ELSE f[g[i - 1]]]
           h == CHOOSE g : At0(g)
           step == [k \in 1 .. n |-> f]
           In == [k \in 0 .. n |-> Node]
<1>1. Path(f, p, n) = [i \in 1 .. n |-> h[i - 1]]
  BY DEF Path
<1>2. \E g : At0(g)
  <2>1. In \in [0 .. n -> SUBSET Node] /\ p \in In[0]
    OBVIOUS
  <2>2. \A k \in 1 .. n : \A s \in In[k - 1] : step[k][s] \in In[k]
    <3> SUFFICES ASSUME NEW k \in 1 .. n, NEW s \in In[k - 1] PROVE step[k][s] \in In[k]
      OBVIOUS
    <3>1. k \in 0 .. n /\ k - 1 \in 0 .. n
      OBVIOUS
    <3> QED BY <3>1
  <2>3. PICK g : Loops(g, n, p, step)
    <3> HIDE DEF In, step
    <3> QED BY <2>1, <2>2, LoopExists
  <2>4. g = [k \in 0 .. n |-> IF k = 0 THEN p ELSE step[k][g[k - 1]]]
    BY <2>3 DEF Loops
  <2>5. \A k \in 0 .. n : k # 0 => step[k] = f
    OBVIOUS
  <2> HIDE DEF step
  <2>6. At0(g)
    BY <2>4, <2>5
  <2> QED BY <2>6
<1>3. At0(h)
  <2> HIDE DEF At0
  <2> QED BY <1>2
<1> HIDE DEF h
<1>4. h[0] = p /\ \A i \in 1 .. n : h[i] = f[h[i - 1]]
  BY <1>3
<1>5. \A k \in 0 .. n : h[k] \in Node
  <2>1. h[0] \in In[0]
    BY <1>4
  <2>2. \A k \in 1 .. n : h[k - 1] \in In[k - 1] => h[k] \in In[k]
    BY <1>4
  <2>3. \A k \in 0 .. n : h[k] \in In[k]
    <3> HIDE DEF In
    <3> QED BY <2>1, <2>2, LoopInvariant
  <2> QED BY <2>3
<1>6. Path(f, p, n) \in [1 .. n -> Node]
  BY <1>1, <1>5
<1>7. Path(f, p, n) \in Seq(Node) /\ Len(Path(f, p, n)) = n
  BY <1>6
<1>8. ASSUME NEW i \in 1 .. n - 1 PROVE Path(f, p, n)[i + 1] = f[Path(f, p, n)[i]]
  <2>1. i + 1 \in 1 .. n /\ i \in 1 .. n /\ (i + 1) - 1 = i
    OBVIOUS
  <2> QED BY <1>1, <1>4, <2>1
<1> QED BY <1>1, <1>4, <1>6, <1>7, <1>8

(* A path is what follows the field from the same node. *)
LEMMA PathIsThat ==
  ASSUME NEW f \in [Node -> Node], NEW p \in Node, NEW n \in Nat, NEW g \in [1 .. n -> Node],
         n # 0 => g[1] = p,
         \A i \in 1 .. n - 1 : g[i + 1] = f[g[i]]
  PROVE  Path(f, p, n) = g
<1> DEFINE q == Path(f, p, n)
<1>1. /\ q \in Seq(Node) /\ Len(q) = n
      /\ DOMAIN q = 1 .. n
      /\ n # 0 => q[1] = p
      /\ \A i \in 1 .. n - 1 : q[i + 1] = f[q[i]]
  BY PathIs
<1> HIDE DEF q
<1>2. CASE n = 0
  <2>1. q \in [1 .. n -> Node]
    BY <1>1
  <2> QED BY <2>1, <1>2 DEF q
<1>3. CASE n # 0
  <2> DEFINE T == {i \in Nat : i < n => q[i + 1] = g[i + 1]}
  <2>1. 0 \in T
    BY <1>1, <1>3
  <2>2. ASSUME NEW i \in Nat, i \in T PROVE i + 1 \in T
    <3> SUFFICES ASSUME i + 1 < n PROVE q[(i + 1) + 1] = g[(i + 1) + 1]
      OBVIOUS
    <3>1. i + 1 \in 1 .. n - 1 /\ q[i + 1] = g[i + 1]
      BY <2>2
    <3> QED BY <1>1, <3>1
  <2>3. \A i \in Nat : i \in T
    <3> HIDE DEF T
    <3> QED BY <2>1, <2>2, EveryNatural
  <2>4. ASSUME NEW i \in 1 .. n PROVE q[i] = g[i]
    <3>1. i - 1 \in T /\ i - 1 < n /\ (i - 1) + 1 = i
      BY <2>3
    <3> QED BY <3>1
  <2>5. q = [i \in 1 .. n |-> q[i]]
    BY <1>1
  <2> QED BY <2>4, <2>5 DEF q
<1> QED BY <1>2, <1>3

(* Distinct addresses are at most as many as there are. *)
LEMMA FewNodes ==
  ASSUME NEW n \in Nat, NEW g,
         \A i \in 1 .. n : g[i] \in Addr,
         \A i, j \in 1 .. n : g[i] = g[j] => i = j
  PROVE  n <= Cardinality(Addr) /\ Cardinality(Addr) \in Nat
<1> DEFINE h == [i \in 1 .. n |-> g[i]]
<1>1. IsFiniteSet(Addr) /\ Cardinality(Addr) \in Nat
  BY LinkedVecMapAssumption, FS_CardinalityType
<1>2. IsFiniteSet(1 .. n) /\ Cardinality(1 .. n) = n
  BY FS_Interval
<1>3. h \in Injection(1 .. n, Addr)
  BY DEF Injection, IsInjective
<1> HIDE DEF h
<1>4. Cardinality(1 .. n) <= Cardinality(Addr)
  BY <1>1, <1>3, FS_Injection
<1> QED BY <1>1, <1>2, <1>4

(* The nodes before the end of a list. *)
LEMMA UntilIs ==
  ASSUME NEW f, NEW p, NEW n, NEW g, NEW end, Leads(f, p, n, g, end)
  PROVE  Until(f, p, end) = [i \in 1 .. n |-> g[i]]
<1>0. /\ f \in [Node -> Node] /\ p \in Node /\ n \in Nat /\ end \in Node
      /\ g[1] = p /\ g[n + 1] = end
      /\ \A i \in 1 .. n : g[i + 1] = f[g[i]]
      /\ \A i \in 1 .. n : g[i] \in Addr /\ g[i] # end
      /\ \A i, j \in 1 .. n : g[i] = g[j] => i = j
  BY DEF Leads
<1> DEFINE most == Cardinality(Addr) + 1
           path == Path(f, p, most)
           ends == {i \in DOMAIN path : path[i] = end}
           T == ends \cup {most}
           k == Min(T)
<1>1. n + 1 <= most /\ most \in Nat
  BY <1>0, FewNodes
<1>2. path \in Seq(Node) /\ Len(path) = most /\ DOMAIN path = 1 .. most /\ path[1] = p
      /\ \A i \in 1 .. most - 1 : path[i + 1] = f[path[i]]
  <2>1. most # 0
    BY <1>0, <1>1
  <2>2. most \in Nat
    BY <1>0, <1>1
  <2>3. f \in [Node -> Node] /\ p \in Node
    BY <1>0
  <2> HIDE DEF most
  <2> QED BY ONLY <2>1, <2>2, <2>3, PathIs
<1> HIDE DEF path
<1>3. \A i \in 1 .. n + 1 : path[i] = g[i]
  <2> DEFINE S == {i \in Nat : i <= n => path[i + 1] = g[i + 1]}
  <2>1. 0 \in S
    BY <1>0, <1>2
  <2>2. ASSUME NEW i \in Nat, i \in S PROVE i + 1 \in S
    <3> SUFFICES ASSUME i + 1 <= n PROVE path[(i + 1) + 1] = g[(i + 1) + 1]
      BY <1>0
    <3>1. i + 1 \in 1 .. n /\ path[i + 1] = g[i + 1] /\ i + 1 \in 1 .. most - 1
      BY <1>0, <1>1, <2>2
    <3> QED BY <1>0, <1>2, <3>1
  <2>3. \A i \in Nat : i \in S
    <3> HIDE DEF S
    <3> QED BY <2>1, <2>2, EveryNatural
  <2> SUFFICES ASSUME NEW i \in 1 .. n + 1 PROVE path[i] = g[i]
    BY <1>0
  <2>4. i - 1 \in S /\ i - 1 <= n /\ (i - 1) + 1 = i
    BY <1>0, <2>3
  <2> QED BY <2>4
<1> HIDE DEF most
<1>4. n + 1 \in T /\ \A i \in T : n + 1 <= i
  <2>1. n + 1 \in 1 .. most /\ path[n + 1] = end
    BY <1>0, <1>1, <1>3
  <2>2. ASSUME NEW i \in ends, i < n + 1 PROVE FALSE
    <3>1. i \in 1 .. n /\ i \in 1 .. n + 1
      BY <1>0, <1>2, <2>2
    <3> QED BY <1>0, <1>3, <3>1
  <2>3. \A i \in ends : i \in Nat
    BY <1>0, <1>2
  <2> QED BY <1>0, <1>1, <1>2, <2>1, <2>2, <2>3
<1>5. k = n + 1
  <2>1. k = CHOOSE x \in T : \A y \in T : x <= y
    BY DEF Min
  <2>2. T \subseteq Nat
    BY <1>0, <1>1, <1>2
  <2> HIDE DEF T
  <2>3. k \in T /\ \A y \in T : k <= y
    BY <1>0, <1>4, <2>1
  <2>4. k <= n + 1 /\ n + 1 <= k /\ k \in Nat
    BY <1>0, <1>4, <2>2, <2>3
  <2> QED BY <1>0, <2>4
<1>6. Until(f, p, end) = SubSeq(path, 1, k - 1)
  BY DEF Until, most, path
<1>7. Until(f, p, end) = SubSeq(path, 1, n)
  <2> HIDE DEF k, T
  <2> QED BY <1>0, <1>5, <1>6
<1>8. SubSeq(path, 1, n) = [i \in 1 .. n |-> path[i]]
  <2>1. \A i \in 1 .. n : path[i] \in Node
    BY <1>0, <1>1, <1>2
  <2> HIDE DEF T
  <2>2. SubSeq(path, 1, n) \in Seq(Node) /\ Len(SubSeq(path, 1, n)) = n
        /\ \A i \in 1 .. n : SubSeq(path, 1, n)[i] = path[i]
    BY <1>0, <1>1, <1>2, <2>1, SubSeqProperties
  <2>3. SubSeq(path, 1, n) = [i \in 1 .. n |-> SubSeq(path, 1, n)[i]]
    BY <1>0, <2>2
  <2> QED BY <2>2, <2>3
<1> QED BY <1>0, <1>3, <1>7, <1>8

-----------------------------------------------------------------------------
(* The index holds nodes, or Null. *)
LEMMA GetIs ==
  ASSUME NEW ix \in IndexMap, NEW k \in Int
  PROVE  Index!get(ix, k) \in Node
<1>1. ix.v \in Seq(Node)
  BY DEF IndexMap
<1>2. \A i \in DOMAIN ix.v : ix.v[i] \in Node
  BY <1>1, LenProperties, ElementOfSeq
<1> QED BY <1>2 DEF Index!get, Node

(* A new index is empty. *)
LEMMA NewIndexIs ==
  /\ Index!new \in IndexMap /\ Index!new.n = 0
  /\ \A k \in Int : Index!get(Index!new, k) = Null
<1>1. <<>> \in Seq(Node) /\ DOMAIN <<>> = {}
  BY EmptySeq
<1> QED BY <1>1 DEF Index!new, Index!get, IndexMap

(* VecMap::insert changes one place and counts it when it was vacant. *)
LEMMA IndexInsertIs ==
  ASSUME NEW ix \in IndexMap, NEW k \in Nat, NEW x \in Addr, NEW jx, jx = Index!insert(ix, k, x)
  PROVE  /\ jx \in IndexMap
         /\ jx.n = IF Index!get(ix, k) = Null THEN ix.n + 1 ELSE ix.n
         /\ \A j \in Nat : Index!get(jx, j) = IF j = k THEN x ELSE Index!get(ix, j)
<1> DEFINE w == Index!Extended(ix.v, k)
           none == [i \in 1 .. k - Len(ix.v) + 1 |-> Null]
<1>1. ix.v \in Seq(Node) /\ ix.n \in Nat /\ Len(ix.v) \in Nat /\ DOMAIN ix.v = 1 .. Len(ix.v)
  BY LenProperties DEF IndexMap
<1>2. x \in Node
  BY DEF Node
<1>3. /\ w \in Seq(Node) /\ k + 1 \in 1 .. Len(w) /\ Len(w) \in Nat
      /\ \A i \in 1 .. Len(w) : w[i] = IF i \in 1 .. Len(ix.v) THEN ix.v[i] ELSE Null
      /\ Len(ix.v) <= Len(w)
  <2>1. CASE Len(ix.v) <= k
    <3>1. w = ix.v \o none
      BY <2>1 DEF Index!Extended
    <3> DEFINE r == k - Len(ix.v) + 1
    <3>2. r \in Nat
      BY <1>1, <2>1
    <3>3. none \in Seq(Node) /\ Len(none) = r /\ \A i \in 1 .. r : none[i] = Null
      <4>1. none = [i \in 1 .. r |-> Null]
        OBVIOUS
      <4> HIDE DEF r, none
      <4>2. none \in [1 .. r -> Node]
        BY <4>1 DEF Node
      <4> QED BY <3>2, <4>1, <4>2
    <3> HIDE DEF r, none
    <3>4. ix.v \in Seq(Node)
      BY <1>1
    <3>5. none \in Seq(Node)
      BY <3>3
    <3>6. /\ ix.v \o none \in Seq(Node) /\ Len(ix.v \o none) = Len(ix.v) + Len(none)
          /\ \A i \in 1 .. Len(ix.v) + Len(none) :
                (ix.v \o none)[i] = IF i <= Len(ix.v) THEN ix.v[i] ELSE none[i - Len(ix.v)]
      BY ONLY <3>4, <3>5, ConcatProperties
    <3>7. Len(w) = k + 1 /\ Len(ix.v) + Len(none) = k + 1
      BY <1>1, <3>1, <3>3, <3>6 DEF r
    <3>8. ASSUME NEW i \in 1 .. Len(w)
          PROVE  w[i] = IF i \in 1 .. Len(ix.v) THEN ix.v[i] ELSE Null
      <4>1. w[i] = IF i <= Len(ix.v) THEN ix.v[i] ELSE none[i - Len(ix.v)]
        BY <3>1, <3>6, <3>7
      <4>2. ~(i <= Len(ix.v)) => i - Len(ix.v) \in 1 .. r
        BY <1>1, <3>7 DEF r
      <4> QED BY <1>1, <3>3, <4>1, <4>2
    <3> QED BY <1>1, <2>1, <3>1, <3>6, <3>7, <3>8
  <2>2. CASE ~(Len(ix.v) <= k)
    BY <1>1, <2>2 DEF Index!Extended
  <2> QED BY <2>1, <2>2
<1> HIDE DEF w
<1> DEFINE u == [w EXCEPT ![k + 1] = x]
<1>4. u \in Seq(Node) /\ Len(u) = Len(w) /\ DOMAIN u = 1 .. Len(w)
      /\ \A i \in 1 .. Len(w) : u[i] = IF i = k + 1 THEN x ELSE w[i]
  <2>1. w \in [1 .. Len(w) -> Node]
    BY <1>3, LenProperties
  <2>2. u \in [1 .. Len(w) -> Node]
    BY <1>2, <2>1
  <2> QED BY <1>3, <2>1, <2>2
<1> HIDE DEF u
<1>5. jx = [n |-> IF Index!contains_key(ix, k) THEN ix.n ELSE ix.n + 1, v |-> u]
  BY DEF Index!insert, w, u
<1>6. Index!contains_key(ix, k) <=> Index!get(ix, k) # Null
  BY DEF Index!contains_key
<1>7. jx.v = u /\ jx.n = IF Index!get(ix, k) = Null THEN ix.n + 1 ELSE ix.n
  BY <1>5, <1>6
<1>8. jx \in IndexMap
  BY <1>1, <1>4, <1>5, <1>6 DEF IndexMap
<1>9. ASSUME NEW j \in Nat PROVE Index!get(jx, j) = IF j = k THEN x ELSE Index!get(ix, j)
  <2>1. Index!get(jx, j) = IF j + 1 \in 1 .. Len(w) THEN u[j + 1] ELSE Null
    BY <1>4, <1>7 DEF Index!get
  <2>2. Index!get(ix, j) = IF j + 1 \in 1 .. Len(ix.v) THEN ix.v[j + 1] ELSE Null
    BY <1>1 DEF Index!get
  <2>3. j + 1 = k + 1 <=> j = k
    OBVIOUS
  <2> QED BY <1>1, <1>3, <1>4, <2>1, <2>2, <2>3
<1> QED BY <1>7, <1>8, <1>9

(* VecMap::remove vacates one place. A map of no entries counts below 0 here, so n # 0. *)
LEMMA IndexRemoveIs ==
  ASSUME NEW ix \in IndexMap, NEW k \in Nat, NEW jx, jx = Index!remove(ix, k), ix.n # 0
  PROVE  /\ jx \in IndexMap
         /\ jx.n = IF Index!get(ix, k) = Null THEN ix.n ELSE ix.n - 1
         /\ \A j \in Nat : Index!get(jx, j) = IF j = k THEN Null ELSE Index!get(ix, j)
<1> DEFINE u == [ix.v EXCEPT ![k + 1] = Null]
<1>1. ix.v \in Seq(Node) /\ ix.n \in Nat /\ Len(ix.v) \in Nat /\ DOMAIN ix.v = 1 .. Len(ix.v)
  BY LenProperties DEF IndexMap
<1>2. CASE Index!get(ix, k) = Null
  <2>1. jx = ix
    BY <1>2 DEF Index!remove, Index!contains_key
  <2> QED BY <1>2, <2>1
<1>3. CASE Index!get(ix, k) # Null
  <2>1. jx = [n |-> ix.n - 1, v |-> u]
    BY <1>3 DEF Index!remove, Index!contains_key
  <2>2. k + 1 \in 1 .. Len(ix.v)
    BY <1>1, <1>3 DEF Index!get
  <2>3. u \in Seq(Node) /\ DOMAIN u = 1 .. Len(ix.v)
        /\ \A i \in 1 .. Len(ix.v) : u[i] = IF i = k + 1 THEN Null ELSE ix.v[i]
    <3>1. ix.v \in [1 .. Len(ix.v) -> Node]
      BY <1>1, LenProperties
    <3>2. u \in [1 .. Len(ix.v) -> Node]
      BY <3>1 DEF Node
    <3> QED BY <1>1, <3>1, <3>2
  <2> HIDE DEF u
  <2>4. jx \in IndexMap /\ jx.v = u /\ jx.n = ix.n - 1
    BY <1>1, <2>1, <2>3 DEF IndexMap
  <2>5. ASSUME NEW j \in Nat PROVE Index!get(jx, j) = IF j = k THEN Null ELSE Index!get(ix, j)
    <3>1. Index!get(jx, j) = IF j + 1 \in 1 .. Len(ix.v) THEN u[j + 1] ELSE Null
      BY <2>3, <2>4 DEF Index!get
    <3>2. Index!get(ix, j) = IF j + 1 \in 1 .. Len(ix.v) THEN ix.v[j + 1] ELSE Null
      BY <1>1 DEF Index!get
    <3>3. j + 1 = k + 1 <=> j = k
      OBVIOUS
    <3> QED BY <1>1, <2>3, <3>1, <3>2, <3>3
  <2> QED BY <1>3, <2>4, <2>5
<1> QED BY <1>2, <1>3

(* shrink_to_fit of the index loses no entry. *)
LEMMA IndexShrinkIs ==
  ASSUME NEW ix \in IndexMap, NEW jx, jx = Index!shrink_to_fit(ix)
  PROVE  /\ jx \in IndexMap /\ jx.n = ix.n
         /\ \A j \in Nat : Index!get(jx, j) = Index!get(ix, j)
<1> DEFINE some == {i \in DOMAIN ix.v : ix.v[i] # Null}
           m == Index!Max(some)
           u == IF some = {} THEN <<>> ELSE SubSeq(ix.v, 1, m)
<1>1. ix.v \in Seq(Node) /\ ix.n \in Nat /\ Len(ix.v) \in Nat /\ DOMAIN ix.v = 1 .. Len(ix.v)
  BY LenProperties DEF IndexMap
<1>2. jx = [ix EXCEPT !.v = u]
  BY DEF Index!shrink_to_fit
<1>3. /\ u \in Seq(Node)
      /\ \A i \in Nat : i \in DOMAIN u => i \in DOMAIN ix.v /\ u[i] = ix.v[i]
      /\ \A i \in some : i \in DOMAIN u
  <2>1. CASE some = {}
    <3>1. <<>> \in Seq(Node) /\ DOMAIN <<>> = {}
      BY EmptySeq
    <3> QED BY <2>1, <3>1
  <2>2. CASE some # {}
    <3>1. m = CHOOSE x \in some : \A y \in some : x >= y
      BY DEF Index!Max
    <3>2. some \subseteq 1 .. Len(ix.v)
      BY <1>1
    <3>3. \E x \in some : \A y \in some : x >= y
      <4> HIDE DEF some
      <4> DEFINE T == {Len(ix.v) - x : x \in some}
      <4>1. T \subseteq Nat /\ T # {}
        <5>1. \A x \in some : Len(ix.v) - x \in Nat
          BY <1>1, <3>2
        <5> QED BY <2>2, <5>1
      <4>2. PICK t \in T : \A y \in T : t <= y
        <5> HIDE DEF T
        <5> QED BY <4>1, LeastNatural
      <4>3. PICK x \in some : t = Len(ix.v) - x
        BY <4>2
      <4>4. \A y \in some : Len(ix.v) - x <= Len(ix.v) - y
        BY <4>2, <4>3
      <4>5. \A y \in some : x >= y
        BY <1>1, <3>2, <4>4
      <4> QED BY <4>5
    <3> HIDE DEF some
    <3>4. m \in some /\ \A y \in some : m >= y
      BY <3>1, <3>3
    <3>5. m \in 1 .. Len(ix.v)
      BY <3>2, <3>4
    <3> HIDE DEF m
    <3>6. \A i \in 1 .. m : ix.v[i] \in Node
      BY <1>1, <3>5, ElementOfSeq
    <3>7. SubSeq(ix.v, 1, m) \in Seq(Node) /\ Len(SubSeq(ix.v, 1, m)) = m
          /\ \A i \in 1 .. m : SubSeq(ix.v, 1, m)[i] = ix.v[i]
      BY <1>1, <3>5, <3>6, SubSeqProperties
    <3>8. DOMAIN SubSeq(ix.v, 1, m) = 1 .. m
      BY <3>7, LenProperties
    <3>9. \A i \in some : i \in 1 .. m
      BY <1>1, <3>2, <3>4, <3>5
    <3>10. u = SubSeq(ix.v, 1, m)
      BY <2>2
    <3> HIDE DEF u
    <3> QED BY <1>1, <3>5, <3>7, <3>8, <3>9, <3>10
  <2> QED BY <2>1, <2>2
<1> HIDE DEF u, some
<1>4. ASSUME NEW i \in DOMAIN ix.v, i \notin DOMAIN u PROVE ix.v[i] = Null
  <2>1. i \notin some
    BY <1>3, <1>4
  <2> QED BY <2>1 DEF some
<1>5. jx \in IndexMap /\ jx.n = ix.n /\ jx.v = u
  BY <1>1, <1>2, <1>3 DEF IndexMap
<1>6. ASSUME NEW j \in Nat PROVE Index!get(jx, j) = Index!get(ix, j)
  <2>1. j + 1 \in Nat
    OBVIOUS
  <2>2. Index!get(jx, j) = IF j + 1 \in DOMAIN u THEN u[j + 1] ELSE Null
    BY <1>5 DEF Index!get
  <2>3. Index!get(ix, j) = IF j + 1 \in DOMAIN ix.v THEN ix.v[j + 1] ELSE Null
    BY DEF Index!get
  <2>4. j + 1 \in DOMAIN ix.v /\ j + 1 \notin DOMAIN u => ix.v[j + 1] = Null
    BY <1>4
  <2> QED BY <1>3, <2>1, <2>2, <2>3, <2>4
<1> QED BY <1>5, <1>6

-----------------------------------------------------------------------------
(* What a ring is, with the nodes of its entries pairwise different. *)
LEMMA RingFacts ==
  ASSUME NEW m, NEW c, NEW n, Ring(m, c, n), m \in Map
  PROVE  /\ n \in Nat /\ c \in [0 .. n + 1 -> Node]
         /\ c[0] = m.head /\ c[n + 1] = m.head
         /\ \A i \in 0 .. n : m.prev[c[i]] = c[i + 1] /\ m.next[c[i + 1]] = c[i]
         /\ \A i \in 1 .. n : c[i] \in Addr /\ c[i] # Null /\ c[i] # m.head
         /\ \A i, j \in 1 .. n : c[i] = c[j] => i = j
         /\ \A i, j \in 0 .. n : c[i] = c[j] => i = j
         /\ \A i, j \in 1 .. n + 1 : c[i] = c[j] => i = j
         /\ \A i \in 0 .. n + 1 : c[i] \in Node
<1>1. /\ n \in Nat /\ c \in [0 .. n + 1 -> Node]
      /\ c[0] = m.head /\ c[n + 1] = m.head
      /\ \A i \in 0 .. n : m.prev[c[i]] = c[i + 1] /\ m.next[c[i + 1]] = c[i]
      /\ \A i \in 1 .. n : c[i] # Null /\ c[i] # m.head
      /\ \A i, j \in 1 .. n : c[i] = c[j] => i = j
  BY DEF Ring
<1>2. ASSUME NEW i \in 1 .. n PROVE c[i] \in Addr
  <2>1. i \in 0 .. n + 1
    BY <1>1
  <2> QED BY <1>1, <2>1 DEF Node
<1>3. ASSUME NEW i \in 0 .. n, NEW j \in 0 .. n, c[i] = c[j] PROVE i = j
  <2>1. (i = 0 \/ i \in 1 .. n) /\ (j = 0 \/ j \in 1 .. n)
    BY <1>1
  <2> QED BY <1>1, <1>3, <2>1
<1>4. ASSUME NEW i \in 1 .. n + 1, NEW j \in 1 .. n + 1, c[i] = c[j] PROVE i = j
  <2>1. (i = n + 1 \/ i \in 1 .. n) /\ (j = n + 1 \/ j \in 1 .. n)
    BY <1>1
  <2> QED BY <1>1, <1>4, <2>1
<1>5. \A i \in 0 .. n + 1 : c[i] \in Node
  BY <1>1
<1> QED BY <1>1, <1>2, <1>3, <1>4, <1>5

(* What a free list is. *)
LEMMA ChainFacts ==
  ASSUME NEW m, NEW f, NEW k, Chain(m, f, k)
  PROVE  /\ k \in Nat /\ f \in [0 .. k -> Node]
         /\ f[0] = m.free /\ f[k] = Null
         /\ \A i \in 0 .. k - 1 : f[i] \in Addr /\ f[i] # Null /\ m.next[f[i]] = f[i + 1]
         /\ \A i, j \in 0 .. k - 1 : f[i] = f[j] => i = j
<1>1. /\ k \in Nat /\ f \in [0 .. k -> Node]
      /\ f[0] = m.free /\ f[k] = Null
      /\ \A i \in 0 .. k - 1 : f[i] # Null /\ m.next[f[i]] = f[i + 1]
      /\ \A i, j \in 0 .. k - 1 : f[i] = f[j] => i = j
  BY DEF Chain
<1>2. ASSUME NEW i \in 0 .. k - 1 PROVE f[i] \in Addr
  <2>1. i \in 0 .. k
    BY <1>1
  <2> QED BY <1>1, <2>1 DEF Node
<1> QED BY <1>1, <1>2

(* The types of the fields of a map. *)
LEMMA MapFacts ==
  ASSUME NEW m \in Map
  PROVE  /\ m.index \in IndexMap /\ m.head \in Node /\ m.free \in Node
         /\ m.next \in [Node -> Node] /\ m.prev \in [Node -> Node]
         /\ m.key \in [Node -> Keys \cup {NoKey}] /\ m.value \in [Node -> Values \cup {Null}]
         /\ m.live \in SUBSET Addr /\ m.present \in BOOLEAN
         /\ Null \in Node /\ Null \notin Addr
BY LinkedVecMapAssumption DEF Map, IndexMap, Node, Null

(* A change of next and prev alone. *)
LEMMA RelinkIs ==
  ASSUME NEW m \in Map, NEW a \in [Node -> Node], NEW b \in [Node -> Node], NEW d,
         d = [m EXCEPT !.next = a, !.prev = b]
  PROVE  d \in Map /\ d.next = a /\ d.prev = b /\ Beside(d, m)
BY DEF Map, Beside

(* Nothing but nodes outside changes. *)
LEMMA FrameIs ==
  ASSUME NEW m, NEW c, NEW n, NEW f, NEW k, NEW X, Linked(m, c, n, f, k, X),
         NEW d \in Map, d.head = m.head, d.free = m.free,
         \A p \in (m.live \ X) \cup {Null} : d.next[p] = m.next[p],
         \A p \in Guard(m) \cup Members(c, n) \cup {Null} : d.prev[p] = m.prev[p],
         NEW Y \in SUBSET Addr, Y \cap (m.live \ X) = {}, d.live = (m.live \ X) \cup Y
  PROVE  Linked(d, c, n, f, k, Y)
<1>1. m \in Map /\ Ring(m, c, n) /\ Chain(m, f, k)
  BY DEF Linked
<1>2. /\ n \in Nat /\ c \in [0 .. n + 1 -> Node]
      /\ c[0] = m.head /\ c[n + 1] = m.head
      /\ \A i \in 0 .. n : m.prev[c[i]] = c[i + 1] /\ m.next[c[i + 1]] = c[i]
      /\ \A i \in 1 .. n : c[i] \in Addr /\ c[i] # Null /\ c[i] # m.head
      /\ \A i, j \in 1 .. n : c[i] = c[j] => i = j
  BY <1>1, RingFacts
<1>3. /\ k \in Nat /\ f \in [0 .. k -> Node]
      /\ f[0] = m.free /\ f[k] = Null
      /\ \A i \in 0 .. k - 1 : f[i] \in Addr /\ f[i] # Null /\ m.next[f[i]] = f[i + 1]
      /\ \A i, j \in 0 .. k - 1 : f[i] = f[j] => i = j
  BY <1>1, ChainFacts
<1>4. /\ m.next[Null] = Null /\ m.prev[Null] = Null
      /\ Guard(m) \cap Spares(f, k) = {} /\ Guard(m) \cap X = {}
      /\ Members(c, n) \cap Spares(f, k) = {} /\ Members(c, n) \cap X = {}
      /\ Spares(f, k) \cap X = {}
      /\ m.live = Guard(m) \cup Members(c, n) \cup Spares(f, k) \cup X
  BY DEF Linked
<1>5. m.live \ X = Guard(m) \cup Members(c, n) \cup Spares(f, k)
  BY <1>4
<1>6. ASSUME NEW i \in 0 .. n PROVE d.prev[c[i]] = c[i + 1] /\ d.next[c[i + 1]] = c[i]
  <2>1. c[i] \in Guard(m) \cup Members(c, n) \cup {Null}
    <3>1. i = 0 \/ i \in 1 .. n
      BY <1>2
    <3> QED BY <1>2, <3>1 DEF Guard, Members
  <2>2. c[i + 1] \in Guard(m) \cup Members(c, n) \cup {Null}
    <3>1. i + 1 = n + 1 \/ i + 1 \in 1 .. n
      BY <1>2
    <3> QED BY <1>2, <3>1 DEF Guard, Members
  <2> QED BY <1>2, <1>5, <2>1, <2>2
<1>7. ASSUME NEW i \in 0 .. k - 1 PROVE d.next[f[i]] = f[i + 1]
  <2>1. f[i] \in Spares(f, k)
    BY DEF Spares
  <2> QED BY <1>3, <1>5, <2>1
<1>8. Ring(d, c, n)
  <2>1. d.head = Null => n = 0
    BY <1>1 DEF Ring
  <2> QED BY <1>2, <1>6, <2>1 DEF Ring
<1>9. Chain(d, f, k)
  BY <1>3, <1>7 DEF Chain
<1>10. Guard(d) = Guard(m)
  BY DEF Guard
<1>11. d.next[Null] = Null /\ d.prev[Null] = Null
  BY <1>4
<1> HIDE DEF Map
<1> QED BY <1>4, <1>5, <1>8, <1>9, <1>10, <1>11 DEF Linked

(* A ring without its i-th entry. *)
LEMMA CutIs ==
  ASSUME NEW n \in Nat, NEW c \in [0 .. n + 1 -> Node], NEW i \in 1 .. n
  PROVE  /\ Cut(c, n, i) \in [0 .. n -> Node]
         /\ \A j \in 0 .. n : Cut(c, n, i)[j] = IF j < i THEN c[j] ELSE c[j + 1]
<1>1. \A j \in 0 .. n : j \in 0 .. n + 1 /\ j + 1 \in 0 .. n + 1
  OBVIOUS
<1> QED BY <1>1 DEF Cut

(* Cutting the i-th entry takes just its node away. *)
LEMMA CutMembers ==
  ASSUME NEW n \in Nat, NEW c, NEW i \in 1 .. n,
         \A a, b \in 1 .. n : c[a] = c[b] => a = b
  PROVE  Members(Cut(c, n, i), n - 1) = Members(c, n) \ {c[i]}
<1> DEFINE e == Cut(c, n, i)
<1>1. \A j \in 1 .. n - 1 : e[j] = IF j < i THEN c[j] ELSE c[j + 1]
  BY DEF Cut
<1>2. ASSUME NEW j \in 1 .. n - 1 PROVE e[j] \in Members(c, n) \ {c[i]}
  <2>1. CASE j < i
    <3>1. j \in 1 .. n /\ j # i
      BY <2>1
    <3> QED BY <1>1, <2>1, <3>1 DEF Members
  <2>2. CASE ~(j < i)
    <3>1. j + 1 \in 1 .. n /\ j + 1 # i
      BY <2>2
    <3> QED BY <1>1, <2>2, <3>1 DEF Members
  <2> QED BY <2>1, <2>2
<1>3. ASSUME NEW j \in 1 .. n, j # i PROVE \E l \in 1 .. n - 1 : e[l] = c[j]
  <2>1. CASE j < i
    <3>1. j \in 1 .. n - 1
      BY <2>1
    <3> QED BY <1>1, <2>1, <3>1
  <2>2. CASE j > i
    <3>1. j - 1 \in 1 .. n - 1 /\ ~(j - 1 < i) /\ (j - 1) + 1 = j
      BY <2>2
    <3> QED BY <1>1, <3>1
  <2> QED BY <1>3, <2>1, <2>2
<1> HIDE DEF e
<1> SUFFICES ASSUME NEW x PROVE x \in Members(e, n - 1) <=> x \in Members(c, n) \ {c[i]}
  BY DEF e
<1> QED BY <1>2, <1>3 DEF Members

(* detach cuts a node out of the ring; it is then owned by nobody. *)
LEMMA DetachIs ==
  ASSUME NEW m, NEW c, NEW n, NEW f, NEW k, NEW X, Linked(m, c, n, f, k, X),
         NEW i \in 1 .. n, NEW d, d = detach(m, c[i])
  PROVE  /\ Linked(d, Cut(c, n, i), n - 1, f, k, Plus(X, c[i]))
         /\ Beside(d, m)
<1> DEFINE e == Cut(c, n, i)
           a == [m.next EXCEPT ![c[i + 1]] = c[i - 1]]
           b == [m.prev EXCEPT ![c[i - 1]] = c[i + 1]]
<1>1. m \in Map /\ Ring(m, c, n) /\ Chain(m, f, k)
  BY DEF Linked
<1>2. /\ n \in Nat /\ c \in [0 .. n + 1 -> Node]
      /\ c[0] = m.head /\ c[n + 1] = m.head
      /\ \A j \in 0 .. n : m.prev[c[j]] = c[j + 1] /\ m.next[c[j + 1]] = c[j]
      /\ \A j \in 1 .. n : c[j] \in Addr /\ c[j] # Null /\ c[j] # m.head
      /\ \A j, l \in 1 .. n : c[j] = c[l] => j = l
      /\ \A j, l \in 0 .. n : c[j] = c[l] => j = l
      /\ \A j, l \in 1 .. n + 1 : c[j] = c[l] => j = l
      /\ \A j \in 0 .. n + 1 : c[j] \in Node
  BY <1>1, RingFacts
<1>3. /\ k \in Nat /\ f \in [0 .. k -> Node]
      /\ f[0] = m.free /\ f[k] = Null
      /\ \A j \in 0 .. k - 1 : f[j] \in Addr /\ f[j] # Null /\ m.next[f[j]] = f[j + 1]
      /\ \A j, l \in 0 .. k - 1 : f[j] = f[l] => j = l
  BY <1>1, ChainFacts
<1>4. /\ m.next[Null] = Null /\ m.prev[Null] = Null /\ X \subseteq Addr
      /\ Guard(m) \cap Spares(f, k) = {} /\ Guard(m) \cap X = {}
      /\ Members(c, n) \cap Spares(f, k) = {} /\ Members(c, n) \cap X = {}
      /\ Spares(f, k) \cap X = {}
      /\ m.live = Guard(m) \cup Members(c, n) \cup Spares(f, k) \cup X
  BY DEF Linked
<1>5. /\ m.next \in [Node -> Node] /\ m.prev \in [Node -> Node] /\ Null \in Node /\ Null \notin Addr
  BY <1>1, MapFacts
<1>6. /\ i \in 0 .. n /\ i + 1 \in 0 .. n + 1 /\ i - 1 \in 0 .. n /\ i - 1 \in 0 .. n + 1 /\ (i - 1) + 1 = i
      /\ m.prev[c[i]] = c[i + 1] /\ m.next[c[i]] = c[i - 1]
  <2>1. i \in 0 .. n /\ i + 1 \in 0 .. n + 1 /\ i - 1 \in 0 .. n /\ i - 1 \in 0 .. n + 1 /\ (i - 1) + 1 = i
    BY <1>2
  <2>2. m.next[c[(i - 1) + 1]] = c[i - 1]
    BY <1>2, <2>1
  <2> QED BY <1>2, <2>1, <2>2
<1>7. a \in [Node -> Node] /\ b \in [Node -> Node]
  BY <1>2, <1>5, <1>6
<1>8. d = [m EXCEPT !.next = a, !.prev = b]
  BY <1>6 DEF detach
<1>9. d \in Map /\ d.next = a /\ d.prev = b /\ Beside(d, m)
  <2> HIDE DEF a, b
  <2> QED BY <1>1, <1>7, <1>8, RelinkIs
<1>10. /\ \A p \in Node : d.next[p] = IF p = c[i + 1] THEN c[i - 1] ELSE m.next[p]
       /\ \A p \in Node : d.prev[p] = IF p = c[i - 1] THEN c[i + 1] ELSE m.prev[p]
  BY <1>5, <1>9
<1> HIDE DEF a, b, e
<1>11. /\ e \in [0 .. n -> Node]
       /\ \A j \in 0 .. n : e[j] = IF j < i THEN c[j] ELSE c[j + 1]
  BY <1>2, CutIs DEF e
<1>12. ASSUME NEW j \in 0 .. n - 1 PROVE d.prev[e[j]] = e[j + 1] /\ d.next[e[j + 1]] = e[j]
  <2>1. j \in 0 .. n /\ j + 1 \in 0 .. n /\ (j + 1) + 1 \in 0 .. n + 1
    BY <1>2
  <2>2. CASE j < i - 1
    <3>1. e[j] = c[j] /\ e[j + 1] = c[j + 1]
      BY SMTT(60), <1>2, <1>11, <2>1, <2>2
    <3>2. c[j] # c[i - 1] /\ c[j + 1] # c[i + 1]
      BY <1>2, <1>6, <2>1, <2>2
    <3>3. c[j] \in Node /\ c[j + 1] \in Node
      BY SMTT(60), <1>2, <2>1
    <3>4. m.prev[c[j]] = c[j + 1] /\ m.next[c[j + 1]] = c[j]
      BY <1>2, <2>1
    <3>5. d.prev[c[j]] = c[j + 1] /\ d.next[c[j + 1]] = c[j]
      BY <1>10, <3>2, <3>3, <3>4
    <3> QED BY <3>1, <3>5
  <2>3. CASE j = i - 1
    <3>1. e[j] = c[i - 1] /\ e[j + 1] = c[i + 1]
      BY <1>2, <1>11, <2>1, <2>3
    <3>2. c[i - 1] \in Node /\ c[i + 1] \in Node
      BY <1>2, <1>6
    <3>3. d.prev[c[i - 1]] = c[i + 1] /\ d.next[c[i + 1]] = c[i - 1]
      BY <1>10, <3>2
    <3> QED BY <3>1, <3>3
  <2>4. CASE j > i - 1
    <3>1. e[j] = c[j + 1] /\ e[j + 1] = c[(j + 1) + 1]
      BY <1>2, <1>11, <2>1, <2>4
    <3>2. c[j + 1] # c[i - 1] /\ c[(j + 1) + 1] # c[i + 1]
      BY <1>2, <1>6, <2>1, <2>4
    <3>3. c[j + 1] \in Node /\ c[(j + 1) + 1] \in Node
      BY <1>2, <2>1
    <3>4. m.prev[c[j + 1]] = c[(j + 1) + 1] /\ m.next[c[(j + 1) + 1]] = c[j + 1]
      BY <1>2, <2>1
    <3>5. d.prev[c[j + 1]] = c[(j + 1) + 1] /\ d.next[c[(j + 1) + 1]] = c[j + 1]
      BY <1>10, <3>2, <3>3, <3>4
    <3> QED BY <3>1, <3>5
  <2> QED BY <1>2, <1>6, <2>2, <2>3, <2>4
<1>13. e[0] = m.head /\ e[n] = m.head /\ \A j \in 1 .. n - 1 : e[j] # Null /\ e[j] # m.head
  <2>1. e[0] = m.head /\ e[n] = m.head
    BY <1>2, <1>11
  <2>2. ASSUME NEW j \in 1 .. n - 1 PROVE e[j] # Null /\ e[j] # m.head
    <3>1. j \in 0 .. n /\ j \in 1 .. n /\ j + 1 \in 1 .. n
      BY <1>2
    <3> QED BY <1>2, <1>11, <3>1
  <2> QED BY <2>1, <2>2
<1>14. ASSUME NEW j \in 1 .. n - 1, NEW l \in 1 .. n - 1, e[j] = e[l] PROVE j = l
  <2>1. j \in 0 .. n /\ j \in 1 .. n /\ j + 1 \in 1 .. n /\ l \in 0 .. n /\ l \in 1 .. n /\ l + 1 \in 1 .. n
    BY <1>2
  <2>2. CASE j < i
    <3>1. e[j] = c[j]
      BY <1>11, <2>1, <2>2
    <3>2. CASE l < i
      BY <1>2, <1>11, <1>14, <2>1, <3>1, <3>2
    <3>3. CASE ~(l < i)
      <4>1. e[l] = c[l + 1]
        BY <1>11, <2>1, <3>3
      <4>2. j = l + 1
        BY ZenonT(60), <1>2, <1>14, <2>1, <3>1, <4>1
      <4> QED BY <2>2, <3>3, <4>2
    <3> QED BY <3>2, <3>3
  <2>3. CASE ~(j < i)
    <3>1. e[j] = c[j + 1]
      BY <1>11, <2>1, <2>3
    <3>2. CASE l < i
      <4>1. e[l] = c[l]
        BY <1>11, <2>1, <3>2
      <4>2. c[l] = c[j + 1]
        BY <1>14, <3>1, <4>1
      <4>3. l = j + 1
        BY <1>2, <2>1, <4>2
      <4> QED BY <2>3, <3>2, <4>3
    <3>3. CASE ~(l < i)
      <4>1. e[l] = c[l + 1]
        BY <1>11, <2>1, <3>3
      <4>2. j + 1 = l + 1
        BY ZenonT(60), <1>2, <1>14, <2>1, <3>1, <4>1
      <4> QED BY <4>2
    <3> QED BY <3>2, <3>3
  <2> QED BY <2>2, <2>3
<1>15. d.head = m.head /\ d.free = m.free /\ d.live = m.live
  BY <1>9 DEF Beside
<1>16. Ring(d, e, n - 1)
  <2>1. n - 1 \in Nat /\ (n - 1) + 1 = n
    BY <1>2
  <2>2. d.head # Null
    <3>1. m.head = Null => n = 0
      BY <1>1 DEF Ring
    <3> QED BY <1>2, <1>15, <3>1
  <2> QED BY <1>11, <1>12, <1>13, <1>14, <1>15, <2>1, <2>2 DEF Ring
<1>17. \A j \in 0 .. n + 1 : c[j] \in Guard(m) \cup Members(c, n) \cup {Null}
  <2> SUFFICES ASSUME NEW j \in 0 .. n + 1 PROVE c[j] \in Guard(m) \cup Members(c, n) \cup {Null}
    OBVIOUS
  <2>1. j = 0 \/ j = n + 1 \/ j \in 1 .. n
    BY <1>2
  <2> QED BY <1>2, <2>1 DEF Guard, Members
<1>18. Chain(d, f, k)
  <2>1. ASSUME NEW j \in 0 .. k - 1 PROVE d.next[f[j]] = f[j + 1]
    <3>1. f[j] \in Spares(f, k) /\ f[j] \in Node /\ f[j] # Null
      BY <1>3 DEF Spares, Node
    <3>2. f[j] # c[i + 1]
      BY <1>4, <1>6, <1>17, <3>1
    <3> QED BY <1>3, <1>10, <3>1, <3>2
  <2> QED BY <1>3, <1>15, <2>1 DEF Chain
<1>19. d.next[Null] = Null /\ d.prev[Null] = Null
  <2>1. m.head # Null
    <3>1. m.head = Null => n = 0
      BY <1>1 DEF Ring
    <3> QED BY <1>2, <3>1
  <2>2. c[i + 1] # Null /\ c[i - 1] # Null
    <3>1. (i + 1 = n + 1 \/ i + 1 \in 1 .. n) /\ (i - 1 = 0 \/ i - 1 \in 1 .. n)
      BY <1>2
    <3> QED BY <1>2, <2>1, <3>1
  <2> QED BY <1>4, <1>5, <1>10, <2>2
<1>20. Members(e, n - 1) = Members(c, n) \ {c[i]} /\ c[i] \in Members(c, n)
  <2>1. c[i] \in Members(c, n)
    BY DEF Members
  <2> QED BY <1>2, <2>1, CutMembers DEF e
<1>21. Guard(d) = Guard(m) /\ c[i] \notin Guard(m) /\ c[i] \in Addr
  BY <1>2, <1>15 DEF Guard
<1>22. /\ Guard(d) \cap Spares(f, k) = {} /\ Guard(d) \cap (X \cup {c[i]}) = {}
       /\ Members(e, n - 1) \cap Spares(f, k) = {} /\ Members(e, n - 1) \cap (X \cup {c[i]}) = {}
       /\ Spares(f, k) \cap (X \cup {c[i]}) = {}
       /\ X \cup {c[i]} \subseteq Addr
       /\ d.live = Guard(d) \cup Members(e, n - 1) \cup Spares(f, k) \cup (X \cup {c[i]})
  BY <1>4, <1>15, <1>20, <1>21
<1> HIDE DEF Map
<1> QED BY <1>9, <1>16, <1>18, <1>19, <1>22 DEF Linked, Plus, e

-----------------------------------------------------------------------------
(* A ring that has grown has one more node. *)
LEMMA GrownMembers ==
  ASSUME NEW n \in Nat, NEW c, NEW p
  PROVE  Members(Grown(c, n, p), n + 1) = Members(c, n) \cup {p}
<1> DEFINE e == Grown(c, n, p)
<1>1. (\A j \in 1 .. n : e[j] = c[j]) /\ e[n + 1] = p
  BY DEF Grown
<1> HIDE DEF e
<1>2. \A j \in 1 .. n + 1 : j \in 1 .. n \/ j = n + 1
  OBVIOUS
<1>3. (\A j \in 1 .. n : j \in 1 .. n + 1) /\ n + 1 \in 1 .. n + 1
  OBVIOUS
<1> SUFFICES ASSUME NEW x PROVE x \in Members(e, n + 1) <=> x \in Members(c, n) \cup {p}
  BY DEF e
<1> QED BY <1>1, <1>2, <1>3 DEF Members

(* attach puts a node at the back of the ring. *)
LEMMA AttachIs ==
  ASSUME NEW m, NEW c, NEW n, NEW f, NEW k, NEW X, Linked(m, c, n, f, k, X),
         NEW p \in X, m.head # Null, NEW d, d = attach(m, p)
  PROVE  /\ Linked(d, Grown(c, n, p), n + 1, f, k, Minus(X, p))
         /\ Beside(d, m)
<1> DEFINE e == Grown(c, n, p)
           h == m.head
           a == [[m.next EXCEPT ![p] = c[n]] EXCEPT ![h] = p]
           b == [[m.prev EXCEPT ![p] = h] EXCEPT ![c[n]] = p]
<1>1. m \in Map /\ Ring(m, c, n) /\ Chain(m, f, k)
  BY DEF Linked
<1>2. /\ n \in Nat /\ c \in [0 .. n + 1 -> Node]
      /\ c[0] = m.head /\ c[n + 1] = m.head
      /\ \A j \in 0 .. n : m.prev[c[j]] = c[j + 1] /\ m.next[c[j + 1]] = c[j]
      /\ \A j \in 1 .. n : c[j] \in Addr /\ c[j] # Null /\ c[j] # m.head
      /\ \A j, l \in 1 .. n : c[j] = c[l] => j = l
      /\ \A j, l \in 0 .. n : c[j] = c[l] => j = l
      /\ \A j, l \in 1 .. n + 1 : c[j] = c[l] => j = l
      /\ \A j \in 0 .. n + 1 : c[j] \in Node
  BY <1>1, RingFacts
<1>3. /\ k \in Nat /\ f \in [0 .. k -> Node]
      /\ f[0] = m.free /\ f[k] = Null
      /\ \A j \in 0 .. k - 1 : f[j] \in Addr /\ f[j] # Null /\ m.next[f[j]] = f[j + 1]
      /\ \A j, l \in 0 .. k - 1 : f[j] = f[l] => j = l
  BY <1>1, ChainFacts
<1>4. /\ m.next[Null] = Null /\ m.prev[Null] = Null /\ X \subseteq Addr
      /\ Guard(m) \cap Spares(f, k) = {} /\ Guard(m) \cap X = {}
      /\ Members(c, n) \cap Spares(f, k) = {} /\ Members(c, n) \cap X = {}
      /\ Spares(f, k) \cap X = {}
      /\ m.live = Guard(m) \cup Members(c, n) \cup Spares(f, k) \cup X
  BY DEF Linked
<1>5. /\ m.next \in [Node -> Node] /\ m.prev \in [Node -> Node] /\ Null \in Node /\ Null \notin Addr
      /\ h \in Node /\ h # Null
  BY <1>1, MapFacts
<1>6. p \in Node /\ p \in Addr /\ p # Null /\ p # h /\ \A j \in 0 .. n + 1 : p # c[j]
  <2>1. p \in Addr /\ p \in Node /\ p # Null
    BY <1>4, <1>5 DEF Node
  <2>2. p # h
    BY <1>4, <1>5 DEF Guard
  <2>3. ASSUME NEW j \in 0 .. n + 1, p = c[j] PROVE FALSE
    <3>1. j = 0 \/ j = n + 1 \/ j \in 1 .. n
      BY <1>2
    <3>2. j \in 1 .. n => c[j] \in Members(c, n)
      BY DEF Members
    <3> QED BY <1>2, <1>4, <2>2, <2>3, <3>1, <3>2
  <2> QED BY <2>1, <2>2, <2>3
<1>7. n \in 0 .. n /\ n \in 0 .. n + 1 /\ c[n] \in Node /\ m.next[h] = c[n] /\ m.prev[c[n]] = h
  <2>1. n \in 0 .. n /\ n \in 0 .. n + 1
    BY <1>2
  <2> QED BY <1>2, <2>1
<1>8. a \in [Node -> Node] /\ b \in [Node -> Node]
  BY <1>5, <1>6, <1>7
<1>9. d = [m EXCEPT !.next = a, !.prev = b]
  BY <1>7 DEF attach
<1>10. d \in Map /\ d.next = a /\ d.prev = b /\ Beside(d, m)
  <2> HIDE DEF a, b
  <2> QED BY <1>1, <1>8, <1>9, RelinkIs
<1>11. /\ \A q \in Node : d.next[q] = IF q = h THEN p ELSE IF q = p THEN c[n] ELSE m.next[q]
       /\ \A q \in Node : d.prev[q] = IF q = c[n] THEN p ELSE IF q = p THEN h ELSE m.prev[q]
  BY <1>5, <1>6, <1>7, <1>10
<1> HIDE DEF a, b, e, h
<1>12. /\ e \in [0 .. n + 2 -> Node]
       /\ (\A j \in 0 .. n : e[j] = c[j]) /\ e[n + 1] = p /\ e[n + 2] = h
  <2>1. e \in [0 .. n + 2 -> Node]
    <3>1. \A j \in 0 .. n + 2 : j <= n => c[j] \in Node
      BY <1>2
    <3>2. c[0] \in Node
      BY <1>2
    <3> QED BY <1>2, <1>6, <3>1, <3>2 DEF e, Grown
  <2>2. (\A j \in 0 .. n : e[j] = c[j]) /\ e[n + 1] = p /\ e[n + 2] = h
    BY <1>2 DEF e, Grown, h
  <2> QED BY <2>1, <2>2
<1>13. ASSUME NEW j \in 0 .. n + 1 PROVE d.prev[e[j]] = e[j + 1] /\ d.next[e[j + 1]] = e[j]
  <2>1. CASE j < n
    <3>1. j \in 0 .. n /\ j + 1 \in 0 .. n /\ j + 1 \in 1 .. n /\ j \in 0 .. n + 1 /\ j + 1 \in 0 .. n + 1
      BY <1>2, <2>1
    <3>2. e[j] = c[j] /\ e[j + 1] = c[j + 1]
      BY <1>12, <3>1
    <3>3. c[j] \in Node /\ c[j] # p /\ c[j] # c[n]
      BY <1>2, <1>6, <1>7, <2>1, <3>1
    <3>4. c[j + 1] \in Node /\ c[j + 1] # p /\ c[j + 1] # h
      BY <1>2, <1>6, <3>1 DEF h
    <3>5. d.prev[c[j]] = c[j + 1] /\ d.next[c[j + 1]] = c[j]
      BY <1>2, <1>11, <3>1, <3>3, <3>4
    <3> QED BY <3>2, <3>5
  <2>2. CASE j = n
    <3>1. e[j] = c[n] /\ e[j + 1] = p
      BY <1>7, <1>12, <2>2
    <3>2. d.prev[c[n]] = p /\ d.next[p] = c[n]
      BY <1>6, <1>7, <1>11
    <3> QED BY <3>1, <3>2
  <2>3. CASE j = n + 1
    <3>1. e[j] = p /\ e[j + 1] = h
      BY <1>2, <1>12, <2>3
    <3>2. d.prev[p] = h /\ d.next[h] = p
      BY <1>5, <1>6, <1>7, <1>11
    <3> QED BY <3>1, <3>2
  <2> QED BY <1>2, <2>1, <2>2, <2>3
<1>14. e[0] = h /\ \A j \in 1 .. n + 1 : e[j] # Null /\ e[j] # h
  <2>1. e[0] = h
    BY <1>2, <1>12 DEF h
  <2>2. ASSUME NEW j \in 1 .. n + 1 PROVE e[j] # Null /\ e[j] # h
    <3>1. j = n + 1 \/ (j \in 1 .. n /\ j \in 0 .. n)
      BY <1>2
    <3> QED BY <1>2, <1>6, <1>12, <3>1 DEF h
  <2> QED BY <2>1, <2>2
<1>15. ASSUME NEW j \in 1 .. n + 1, NEW l \in 1 .. n + 1, e[j] = e[l] PROVE j = l
  <2>1. (j = n + 1 \/ (j \in 1 .. n /\ j \in 0 .. n)) /\ (l = n + 1 \/ (l \in 1 .. n /\ l \in 0 .. n))
    BY <1>2
  <2>2. \A i \in 1 .. n : p # c[i]
    <3>1. \A i \in 1 .. n : i \in 0 .. n + 1
      BY <1>2
    <3> QED BY <1>6, <3>1
  <2> QED BY <1>2, <1>12, <1>15, <2>1, <2>2
<1>16. d.head = h /\ d.free = m.free /\ d.live = m.live
  BY <1>10 DEF Beside, h
<1>17. Ring(d, e, n + 1)
  <2>1. n + 1 \in Nat /\ (n + 1) + 1 = n + 2
    BY <1>2
  <2> QED BY <1>5, <1>12, <1>13, <1>14, <1>15, <1>16, <2>1 DEF Ring
<1>18. Chain(d, f, k)
  <2>1. ASSUME NEW j \in 0 .. k - 1 PROVE d.next[f[j]] = f[j + 1]
    <3>1. f[j] \in Spares(f, k) /\ f[j] \in Node
      BY <1>3 DEF Spares, Node
    <3>2. f[j] # h /\ f[j] # p
      BY <1>4, <1>5, <3>1 DEF Guard, h
    <3> QED BY <1>3, <1>11, <3>1, <3>2
  <2> QED BY <1>3, <1>16, <2>1 DEF Chain
<1>19. d.next[Null] = Null /\ d.prev[Null] = Null
  <2>1. c[n] # Null
    <3>1. n = 0 \/ n \in 1 .. n
      BY <1>2
    <3> QED BY <1>2, <1>5, <3>1 DEF h
  <2> QED BY <1>4, <1>5, <1>6, <1>11, <2>1
<1>20. Members(e, n + 1) = Members(c, n) \cup {p}
  BY <1>2, GrownMembers DEF e
<1>21. Guard(d) = Guard(m)
  BY <1>16 DEF Guard, h
<1>22. /\ Guard(d) \cap Spares(f, k) = {} /\ Guard(d) \cap (X \ {p}) = {}
       /\ Members(e, n + 1) \cap Spares(f, k) = {} /\ Members(e, n + 1) \cap (X \ {p}) = {}
       /\ Spares(f, k) \cap (X \ {p}) = {}
       /\ X \ {p} \subseteq Addr
       /\ d.live = Guard(d) \cup Members(e, n + 1) \cup Spares(f, k) \cup (X \ {p})
  BY <1>4, <1>16, <1>20, <1>21
<1> HIDE DEF Map
<1> QED BY <1>10, <1>17, <1>18, <1>19, <1>22 DEF Linked, Minus, e

(* Node::new writes every field of one node. *)
LEMMA WrittenIs ==
  ASSUME NEW m \in Map, NEW p \in Addr, NEW x \in Keys \cup {NoKey}, NEW v \in Values \cup {Null},
         NEW d, d = Written(m, p, x, v)
  PROVE  /\ d \in Map /\ WrittenOver(d, m, p, x, v) /\ d.free = m.free
         /\ d.live = m.live \cup {p}
         /\ d.next = [m.next EXCEPT ![p] = Null] /\ d.prev = [m.prev EXCEPT ![p] = Null]
<1>1. /\ m.next \in [Node -> Node] /\ m.prev \in [Node -> Node]
      /\ m.key \in [Node -> Keys \cup {NoKey}] /\ m.value \in [Node -> Values \cup {Null}]
      /\ m.live \in SUBSET Addr /\ Null \in Node
  BY MapFacts
<1>2. p \in Node
  BY DEF Node
<1> DEFINE a == [m.next EXCEPT ![p] = Null]
           b == [m.prev EXCEPT ![p] = Null]
           s == [m.key EXCEPT ![p] = x]
           t == [m.value EXCEPT ![p] = v]
           l == m.live \cup {p}
<1>3. /\ a \in [Node -> Node] /\ b \in [Node -> Node]
      /\ s \in [Node -> Keys \cup {NoKey}] /\ t \in [Node -> Values \cup {Null}]
      /\ l \in SUBSET Addr
  BY <1>1, <1>2
<1>4. d = [m EXCEPT !.live = l, !.next = a, !.prev = b, !.key = s, !.value = t]
  BY DEF Written
<1>5. /\ s[p] = x /\ t[p] = v
      /\ \A q \in Node : q # p => s[q] = m.key[q] /\ t[q] = m.value[q]
  BY <1>1, <1>2
<1> HIDE DEF a, b, s, t, l
<1>6. d \in Map /\ d.next = a /\ d.prev = b /\ d.key = s /\ d.value = t /\ d.live = l
      /\ d.index = m.index /\ d.present = m.present /\ d.head = m.head /\ d.free = m.free
  BY <1>3, <1>4 DEF Map
<1> QED BY <1>5, <1>6 DEF a, b, l, WrittenOver

(* Writing a node that nobody links to leaves the lists as they are. *)
LEMMA WrittenLinked ==
  ASSUME NEW m, NEW c, NEW n, NEW f, NEW k, NEW X, NEW p, NEW x, NEW v, NEW d,
         WrittenAt(m, c, n, f, k, X, p, x, v, d)
  PROVE  /\ Linked(d, c, n, f, k, Plus(X, p)) /\ WrittenOver(d, m, p, x, v) /\ d.free = m.free
         /\ d.live = m.live \cup {p}
<1>0. /\ Linked(m, c, n, f, k, X)
      /\ p \in Addr /\ p \notin m.live \ X /\ x \in Keys \cup {NoKey} /\ v \in Values \cup {Null}
      /\ d = Written(m, p, x, v)
  BY DEF WrittenAt
<1>1. m \in Map /\ X \subseteq Addr /\ X \subseteq m.live
      /\ Guard(m) \subseteq m.live \ X /\ Members(c, n) \subseteq m.live \ X
  BY <1>0 DEF Linked
<1>2. /\ d \in Map /\ WrittenOver(d, m, p, x, v) /\ d.free = m.free
      /\ d.live = m.live \cup {p}
      /\ d.next = [m.next EXCEPT ![p] = Null] /\ d.prev = [m.prev EXCEPT ![p] = Null]
  BY <1>0, <1>1, WrittenIs
<1>3. /\ m.next \in [Node -> Node] /\ m.prev \in [Node -> Node] /\ m.live \subseteq Node
      /\ Null \in Node /\ Null \notin Addr
  BY <1>1, MapFacts DEF Node
<1>4. \A q \in (m.live \ X) \cup {Null} : d.next[q] = m.next[q] /\ d.prev[q] = m.prev[q]
  BY <1>0, <1>2, <1>3
<1>5. d.head = m.head
  BY <1>2 DEF WrittenOver
<1>6. X \cup {p} \in SUBSET Addr /\ (X \cup {p}) \cap (m.live \ X) = {} /\ d.live = (m.live \ X) \cup (X \cup {p})
  BY <1>0, <1>1, <1>2
<1> DEFINE Y == X \cup {p}
<1>7. /\ d \in Map /\ d.head = m.head /\ d.free = m.free
      /\ Y \in SUBSET Addr /\ Y \cap (m.live \ X) = {} /\ d.live = (m.live \ X) \cup Y
  BY <1>2, <1>5, <1>6
<1>8. /\ \A q \in (m.live \ X) \cup {Null} : d.next[q] = m.next[q]
      /\ \A q \in Guard(m) \cup Members(c, n) \cup {Null} : d.prev[q] = m.prev[q]
  BY <1>1, <1>4
<1>9. Linked(m, c, n, f, k, X)
  BY <1>0
<1> HIDE DEF Y
<1>10. Linked(d, c, n, f, k, Y)
  BY ONLY <1>7, <1>8, <1>9, FrameIs
<1> QED BY <1>2, <1>10 DEF Y, Plus

-----------------------------------------------------------------------------
(* What is left of nodes whose entries were moved out. *)
LEMMA ForgottenIs ==
  ASSUME NEW m \in Map, NEW S, NEW d, d = Forgotten(m, S)
  PROVE  /\ d \in Map /\ Outside(d, m, S)
         /\ d.head = m.head /\ d.free = m.free /\ d.live = m.live /\ d.next = m.next
         /\ \A q \in Node : d.prev[q] = IF q \in S THEN Null ELSE m.prev[q]
         /\ \A q \in Node \cap S : d.key[q] = NoKey /\ d.value[q] = Null
<1> DEFINE b == Blank(m.prev, S, Null)
           s == Blank(m.key, S, NoKey)
           t == Blank(m.value, S, Null)
<1>1. /\ m.prev \in [Node -> Node] /\ m.key \in [Node -> Keys \cup {NoKey}]
      /\ m.value \in [Node -> Values \cup {Null}] /\ Null \in Node
  BY MapFacts
<1>2. /\ b \in [Node -> Node] /\ s \in [Node -> Keys \cup {NoKey}] /\ t \in [Node -> Values \cup {Null}]
  BY <1>1 DEF Blank
<1>3. /\ \A q \in Node : b[q] = IF q \in S THEN Null ELSE m.prev[q]
      /\ \A q \in Node : s[q] = IF q \in S THEN NoKey ELSE m.key[q]
      /\ \A q \in Node : t[q] = IF q \in S THEN Null ELSE m.value[q]
  BY DEF Blank
<1>4. d = [m EXCEPT !.prev = b, !.key = s, !.value = t]
  BY DEF Forgotten
<1> HIDE DEF b, s, t
<1>5. /\ d \in Map /\ d.prev = b /\ d.key = s /\ d.value = t /\ d.next = m.next /\ d.live = m.live
      /\ d.index = m.index /\ d.present = m.present /\ d.head = m.head /\ d.free = m.free
  BY <1>2, <1>4 DEF Map
<1> QED BY <1>3, <1>5 DEF Outside

(* What is left of nodes given back to the allocator. *)
LEMMA FreedIs ==
  ASSUME NEW m \in Map, NEW S, NEW d, d = Freed(m, S)
  PROVE  /\ d \in Map /\ Outside(d, m, S)
         /\ d.head = m.head /\ d.free = m.free /\ d.live = m.live \ S
         /\ \A q \in Node : d.prev[q] = IF q \in S THEN Null ELSE m.prev[q]
         /\ \A q \in Node : d.next[q] = IF q \in S THEN Null ELSE m.next[q]
<1> DEFINE g == Forgotten(m, S)
           a == Blank(g.next, S, Null)
           l == g.live \ S
<1>1. /\ g \in Map /\ Outside(g, m, S)
      /\ g.head = m.head /\ g.free = m.free /\ g.live = m.live /\ g.next = m.next
      /\ \A q \in Node : g.prev[q] = IF q \in S THEN Null ELSE m.prev[q]
  <2> HIDE DEF g
  <2>1. g = Forgotten(m, S)
    BY DEF g
  <2> QED BY <2>1, ForgottenIs
<1>2. d = [g EXCEPT !.live = l, !.next = a]
  BY DEF Freed
<1> HIDE DEF g
<1>3. g.next \in [Node -> Node] /\ g.live \in SUBSET Addr /\ Null \in Node
  BY <1>1, MapFacts
<1>4. a \in [Node -> Node] /\ l \in SUBSET Addr /\ \A q \in Node : a[q] = IF q \in S THEN Null ELSE g.next[q]
  BY <1>3 DEF Blank
<1> HIDE DEF a
<1>5. d \in Map /\ d.next = a /\ d.live = l /\ d.prev = g.prev /\ d.key = g.key /\ d.value = g.value
      /\ d.index = g.index /\ d.present = g.present /\ d.head = g.head /\ d.free = g.free
  BY <1>1, <1>2, <1>4 DEF Map
<1> QED BY <1>1, <1>4, <1>5 DEF Outside

(* What a list is made of. *)
LEMMA LinkedFacts ==
  ASSUME NEW m, NEW c, NEW n, NEW f, NEW k, NEW X, Linked(m, c, n, f, k, X)
  PROVE  /\ m \in Map /\ Ring(m, c, n) /\ Chain(m, f, k) /\ n \in Nat /\ k \in Nat
         /\ m.next[Null] = Null /\ m.prev[Null] = Null
         /\ X \subseteq Addr /\ Guard(m) \subseteq Addr /\ Members(c, n) \subseteq Addr
         /\ Spares(f, k) \subseteq Addr
         /\ Guard(m) \cap Members(c, n) = {}
         /\ Guard(m) \cap Spares(f, k) = {} /\ Guard(m) \cap X = {}
         /\ Members(c, n) \cap Spares(f, k) = {} /\ Members(c, n) \cap X = {}
         /\ Spares(f, k) \cap X = {}
         /\ m.live = Guard(m) \cup Members(c, n) \cup Spares(f, k) \cup X
         /\ m.live \ X = Guard(m) \cup Members(c, n) \cup Spares(f, k)
<1>1. /\ m \in Map /\ Ring(m, c, n) /\ Chain(m, f, k)
      /\ m.next[Null] = Null /\ m.prev[Null] = Null /\ X \subseteq Addr
      /\ Guard(m) \cap Spares(f, k) = {} /\ Guard(m) \cap X = {}
      /\ Members(c, n) \cap Spares(f, k) = {} /\ Members(c, n) \cap X = {}
      /\ Spares(f, k) \cap X = {}
      /\ m.live = Guard(m) \cup Members(c, n) \cup Spares(f, k) \cup X
  BY DEF Linked
<1>2. m.live \subseteq Addr
  BY <1>1, MapFacts
<1>3. n \in Nat /\ \A i \in 1 .. n : c[i] # m.head
  BY <1>1, RingFacts
<1>4. k \in Nat
  BY <1>1, ChainFacts
<1>5. Guard(m) \cap Members(c, n) = {}
  BY <1>3 DEF Guard, Members
<1> QED BY <1>1, <1>2, <1>3, <1>4, <1>5

(* Moving entries out of nodes outside the ring keeps ring and free list. *)
LEMMA ForgetLinked ==
  ASSUME NEW m, NEW c, NEW n, NEW f, NEW k, NEW X, Linked(m, c, n, f, k, X),
         NEW S, S \cap (Guard(m) \cup Members(c, n)) = {},
         NEW d, d = Forgotten(m, S)
  PROVE  /\ Linked(d, c, n, f, k, X) /\ Outside(d, m, S)
         /\ d.head = m.head /\ d.free = m.free /\ d.live = m.live /\ d.next = m.next
<1>1. /\ m \in Map /\ X \subseteq Addr /\ Members(c, n) \subseteq Addr /\ Guard(m) \subseteq Addr
      /\ m.prev[Null] = Null /\ m.live \ X = Guard(m) \cup Members(c, n) \cup Spares(f, k)
      /\ m.live = Guard(m) \cup Members(c, n) \cup Spares(f, k) \cup X
  BY LinkedFacts
<1>2. /\ d \in Map /\ Outside(d, m, S)
      /\ d.head = m.head /\ d.free = m.free /\ d.live = m.live /\ d.next = m.next
      /\ \A q \in Node : d.prev[q] = IF q \in S THEN Null ELSE m.prev[q]
  BY <1>1, ForgottenIs
<1>3. \A q \in Guard(m) \cup Members(c, n) \cup {Null} : d.prev[q] = m.prev[q]
  <2>1. Null \in Node /\ Addr \subseteq Node
    BY DEF Node
  <2> QED BY <1>1, <1>2, <2>1
<1>4. X \in SUBSET Addr /\ X \cap (m.live \ X) = {} /\ d.live = (m.live \ X) \cup X
  BY <1>1, <1>2
<1>5. Linked(d, c, n, f, k, X)
  BY <1>2, <1>3, <1>4, FrameIs
<1> QED BY <1>2, <1>5

(* Freeing nodes in neither list keeps both. *)
LEMMA FreeLinked ==
  ASSUME NEW m, NEW c, NEW n, NEW f, NEW k, NEW X, Linked(m, c, n, f, k, X),
         NEW S, S \subseteq X, NEW Y, Y = X \ S, NEW d, d = Freed(m, S)
  PROVE  /\ Linked(d, c, n, f, k, Y) /\ Outside(d, m, S)
         /\ d.head = m.head /\ d.free = m.free /\ d.live = m.live \ S
<1>1. /\ m \in Map /\ X \subseteq Addr /\ Members(c, n) \subseteq Addr /\ Guard(m) \subseteq Addr
      /\ Spares(f, k) \subseteq Addr
      /\ m.prev[Null] = Null /\ m.live \ X = Guard(m) \cup Members(c, n) \cup Spares(f, k)
      /\ m.live = Guard(m) \cup Members(c, n) \cup Spares(f, k) \cup X
      /\ Guard(m) \cap X = {} /\ Members(c, n) \cap X = {} /\ Spares(f, k) \cap X = {}
  BY LinkedFacts
<1>2. /\ d \in Map /\ Outside(d, m, S)
      /\ d.head = m.head /\ d.free = m.free /\ d.live = m.live \ S
      /\ \A q \in Node : d.prev[q] = IF q \in S THEN Null ELSE m.prev[q]
      /\ \A q \in Node : d.next[q] = IF q \in S THEN Null ELSE m.next[q]
  BY <1>1, FreedIs
<1>3. Null \in Node /\ Addr \subseteq Node /\ Null \notin S
  BY <1>1, MapFacts DEF Node
<1>4. /\ \A q \in Guard(m) \cup Members(c, n) \cup {Null} : d.prev[q] = m.prev[q]
      /\ \A q \in (m.live \ X) \cup {Null} : d.next[q] = m.next[q]
  BY <1>1, <1>2, <1>3
<1>5. Y \in SUBSET Addr /\ Y \cap (m.live \ X) = {} /\ d.live = (m.live \ X) \cup Y
  BY <1>1, <1>2
<1>6. Linked(m, c, n, f, k, X)
  OBVIOUS
<1>7. d \in Map /\ d.head = m.head /\ d.free = m.free
  BY <1>2
<1>8. Linked(d, c, n, f, k, Y)
  BY ONLY <1>4, <1>5, <1>6, <1>7, FrameIs
<1> QED BY <1>2, <1>8

-----------------------------------------------------------------------------
(* The ring of a guard alone has no entries. *)
LEMMA AloneIs ==
  ASSUME NEW p
  PROVE  Alone(p)[0] = p /\ Alone(p)[1] = p /\ Members(Alone(p), 0) = {}
<1>1. 1 .. 0 = {}
  OBVIOUS
<1> QED BY <1>1 DEF Alone, Members

(* A map whose guard points to itself has an empty ring. *)
LEMMA BareIs ==
  ASSUME NEW m, NEW f, NEW k, Chain(m, f, k),
         NEW d \in Map, d.free = m.free,
         \A q \in Spares(f, k) : d.next[q] = m.next[q],
         d.next[Null] = Null, d.prev[Null] = Null,
         d.head # Null => d.next[d.head] = d.head /\ d.prev[d.head] = d.head,
         NEW Y \in SUBSET Addr, Guard(d) \cap Spares(f, k) = {}, Guard(d) \cap Y = {},
         Spares(f, k) \cap Y = {}, d.live = Guard(d) \cup Spares(f, k) \cup Y
  PROVE  Linked(d, Alone(d.head), 0, f, k, Y)
<1>1. /\ k \in Nat /\ f \in [0 .. k -> Node]
      /\ f[0] = m.free /\ f[k] = Null
      /\ \A j \in 0 .. k - 1 : f[j] \in Addr /\ f[j] # Null /\ m.next[f[j]] = f[j + 1]
      /\ \A j, l \in 0 .. k - 1 : f[j] = f[l] => j = l
  BY ChainFacts
<1>2. ASSUME NEW j \in 0 .. k - 1 PROVE d.next[f[j]] = f[j + 1]
  <2>1. f[j] \in Spares(f, k)
    BY DEF Spares
  <2> QED BY <1>1, <2>1
<1>3. Chain(d, f, k)
  BY <1>1, <1>2 DEF Chain
<1>4. d.head \in Node
  BY MapFacts
<1> DEFINE c == Alone(d.head)
<1>5. c \in [0 .. 1 -> Node] /\ c[0] = d.head /\ c[1] = d.head /\ Members(c, 0) = {}
  BY <1>4, AloneIs DEF Alone
<1>6. d.next[d.head] = d.head /\ d.prev[d.head] = d.head
  OBVIOUS
<1> HIDE DEF c
<1>7. \A j \in 0 .. 0 : d.prev[c[j]] = c[j + 1] /\ d.next[c[j + 1]] = c[j]
  BY <1>5, <1>6
<1>8. Ring(d, c, 0)
  BY <1>5, <1>7 DEF Ring
<1> HIDE DEF Map
<1> QED BY <1>3, <1>5, <1>8 DEF Linked, c

(* Without a guard there are no entries. *)
LEMMA NoHead ==
  ASSUME NEW m, NEW c, NEW n, NEW f, NEW k, NEW X, Linked(m, c, n, f, k, X), m.head = Null
  PROVE  n = 0 /\ Members(c, n) = {} /\ Guard(m) = {}
<1>1. n = 0
  BY DEF Linked, Ring
<1>2. 1 .. 0 = {}
  OBVIOUS
<1> QED BY <1>1, <1>2 DEF Members, Guard

(* A new guard is a ring of no entries. *)
LEMMA GuardLinked ==
  ASSUME NEW m, NEW c, NEW n, NEW f, NEW k, NEW X, NEW p, NEW d, GuardAt(m, c, n, f, k, X, p, d)
  PROVE  /\ n = 0 /\ Linked(d, Alone(p), 0, f, k, X) /\ Apart(d, m, p)
         /\ d.head = p /\ d.free = m.free /\ d.live = m.live \cup {p}
<1>0. /\ Linked(m, c, n, f, k, X) /\ m.head = Null /\ p \in Addr /\ p \notin m.live
      /\ d = [Written(m, p, NoKey, Null) EXCEPT !.head = p, !.next[p] = p, !.prev[p] = p]
  BY DEF GuardAt
<1> USE <1>0
<1>1. n = 0 /\ Members(c, n) = {} /\ Guard(m) = {}
  BY NoHead
<1>2. /\ m \in Map /\ Chain(m, f, k) /\ X \subseteq Addr /\ Spares(f, k) \subseteq Addr
      /\ m.next[Null] = Null /\ m.prev[Null] = Null /\ Spares(f, k) \cap X = {}
      /\ m.live = Guard(m) \cup Members(c, n) \cup Spares(f, k) \cup X
  BY LinkedFacts
<1> DEFINE w == Written(m, p, NoKey, Null)
           a == [w.next EXCEPT ![p] = p]
           b == [w.prev EXCEPT ![p] = p]
<1>3. NoKey \in Keys \cup {NoKey} /\ Null \in Values \cup {Null}
  OBVIOUS
<1>4. /\ w \in Map /\ WrittenOver(w, m, p, NoKey, Null) /\ w.free = m.free
      /\ w.live = m.live \cup {p}
      /\ w.next = [m.next EXCEPT ![p] = Null] /\ w.prev = [m.prev EXCEPT ![p] = Null]
  <2> HIDE DEF w
  <2>1. w = Written(m, p, NoKey, Null)
    BY DEF w
  <2> QED BY <1>2, <1>3, <2>1, WrittenIs
<1>5. d = [w EXCEPT !.head = p, !.next = a, !.prev = b]
  OBVIOUS
<1> HIDE DEF w
<1>6. /\ w.next \in [Node -> Node] /\ w.prev \in [Node -> Node] /\ Null \in Node /\ Null \notin Addr
      /\ m.next \in [Node -> Node] /\ m.prev \in [Node -> Node]
  BY <1>2, <1>4, MapFacts
<1>7. p \in Node /\ p # Null /\ Addr \subseteq Node
  BY <1>6 DEF Node
<1>8. /\ a \in [Node -> Node] /\ b \in [Node -> Node] /\ a[p] = p /\ b[p] = p
      /\ \A q \in Node : q # p => a[q] = m.next[q] /\ b[q] = m.prev[q]
  BY <1>4, <1>6, <1>7
<1> HIDE DEF a, b
<1>9. /\ d \in Map /\ d.head = p /\ d.next = a /\ d.prev = b /\ d.free = w.free /\ d.live = w.live
      /\ d.index = w.index /\ d.present = w.present /\ d.key = w.key /\ d.value = w.value
  BY ZenonT(60), <1>4, <1>5, <1>7, <1>8 DEF Map
<1>10. Guard(d) = {p}
  BY <1>7, <1>9 DEF Guard
<1>11. \A q \in Spares(f, k) \cup {Null} : d.next[q] = m.next[q] /\ d.prev[q] = m.prev[q]
  BY <1>2, <1>6, <1>7, <1>8, <1>9
<1>12. Linked(d, Alone(d.head), 0, f, k, X)
  <2>1. d.free = m.free /\ d.next[d.head] = d.head /\ d.prev[d.head] = d.head
    BY <1>4, <1>8, <1>9
  <2>2. X \in SUBSET Addr /\ Guard(d) \cap Spares(f, k) = {} /\ Guard(d) \cap X = {}
        /\ d.live = Guard(d) \cup Spares(f, k) \cup X
    BY <1>1, <1>2, <1>4, <1>9, <1>10
  <2>3. d.next[Null] = Null /\ d.prev[Null] = Null
    BY <1>2, <1>11
  <2>4. \A q \in Spares(f, k) : d.next[q] = m.next[q]
    BY <1>11
  <2> QED BY ONLY <1>2, <1>9, <2>1, <2>2, <2>3, <2>4, BareIs
<1> QED BY <1>1, <1>4, <1>9, <1>12 DEF Apart, Outside, WrittenOver

(* Taking the first node from the free list. *)
LEMMA TakeLinked ==
  ASSUME NEW m, NEW c, NEW n, NEW f, NEW k, NEW X, Linked(m, c, n, f, k, X), m.free # Null,
         NEW d, d = [m EXCEPT !.free = m.next[m.free]]
  PROVE  /\ Linked(d, c, n, Rest(f, k), k - 1, Plus(X, m.free))
         /\ m.free \in Addr /\ m.free \in Spares(f, k)
         /\ Alike(d, m) /\ d.head = m.head /\ d.live = m.live
         /\ d.next = m.next /\ d.prev = m.prev
<1>1. /\ m \in Map /\ Ring(m, c, n) /\ Chain(m, f, k)
      /\ m.next[Null] = Null /\ m.prev[Null] = Null /\ X \subseteq Addr
      /\ Guard(m) \cap Spares(f, k) = {} /\ Guard(m) \cap X = {}
      /\ Members(c, n) \cap Spares(f, k) = {} /\ Members(c, n) \cap X = {}
      /\ Spares(f, k) \cap X = {}
      /\ m.live = Guard(m) \cup Members(c, n) \cup Spares(f, k) \cup X
  BY LinkedFacts
<1>2. /\ k \in Nat /\ f \in [0 .. k -> Node]
      /\ f[0] = m.free /\ f[k] = Null
      /\ \A j \in 0 .. k - 1 : f[j] \in Addr /\ f[j] # Null /\ m.next[f[j]] = f[j + 1]
      /\ \A j, l \in 0 .. k - 1 : f[j] = f[l] => j = l
  BY <1>1, ChainFacts
<1>3. k # 0 /\ 0 \in 0 .. k - 1
  BY <1>2
<1>4. m.free \in Addr /\ m.next[m.free] = f[1] /\ m.free \in Spares(f, k)
  BY <1>2, <1>3 DEF Spares
<1>5. f[1] \in Node
  BY <1>2, <1>3
<1>6. /\ d \in Map /\ d.free = f[1] /\ d.head = m.head /\ d.live = m.live
      /\ d.next = m.next /\ d.prev = m.prev
      /\ d.index = m.index /\ d.present = m.present /\ d.key = m.key /\ d.value = m.value
  BY <1>1, <1>4, <1>5 DEF Map
<1> DEFINE e == Rest(f, k)
<1>7. e \in [0 .. k - 1 -> Node] /\ \A j \in 0 .. k - 1 : e[j] = f[j + 1]
  BY <1>2 DEF Rest
<1> HIDE DEF e
<1>8. ASSUME NEW j \in 0 .. (k - 1) - 1
      PROVE  e[j] \in Addr /\ e[j] # Null /\ d.next[e[j]] = e[j + 1]
  <2>1. j + 1 \in 0 .. k - 1 /\ j \in 0 .. k - 1
    BY <1>2
  <2> QED BY <1>2, <1>6, <1>7, <2>1
<1>9. ASSUME NEW j \in 0 .. (k - 1) - 1, NEW l \in 0 .. (k - 1) - 1, e[j] = e[l] PROVE j = l
  <2>1. j + 1 \in 0 .. k - 1 /\ j \in 0 .. k - 1 /\ l + 1 \in 0 .. k - 1 /\ l \in 0 .. k - 1
    BY <1>2
  <2>2. j + 1 = l + 1
    BY <1>2, <1>7, <1>9, <2>1
  <2> QED BY <2>2
<1>10. Chain(d, e, k - 1)
  <2>1. k - 1 \in Nat /\ e[0] = f[1] /\ e[k - 1] = Null
    BY <1>2, <1>3, <1>7
  <2> QED BY <1>6, <1>7, <1>8, <1>9, <2>1 DEF Chain
<1>11. Spares(e, k - 1) = Spares(f, k) \ {m.free}
  <2>1. ASSUME NEW j \in 0 .. (k - 1) - 1 PROVE e[j] \in Spares(f, k) \ {m.free}
    <3>1. j + 1 \in 0 .. k - 1 /\ j \in 0 .. k - 1 /\ j + 1 # 0
      BY <1>2
    <3>2. f[j + 1] # f[0]
      BY <1>2, <1>3, <3>1
    <3> QED BY <1>2, <1>7, <3>1, <3>2 DEF Spares
  <2>2. ASSUME NEW j \in 0 .. k - 1, f[j] # m.free PROVE \E l \in 0 .. (k - 1) - 1 : e[l] = f[j]
    <3>1. j # 0
      BY <1>2, <2>2
    <3>2. j - 1 \in 0 .. (k - 1) - 1 /\ j - 1 \in 0 .. k - 1 /\ (j - 1) + 1 = j
      BY <1>2, <3>1
    <3> QED BY <1>7, <3>2
  <2> SUFFICES ASSUME NEW x PROVE x \in Spares(e, k - 1) <=> x \in Spares(f, k) \ {m.free}
    OBVIOUS
  <2> QED BY <2>1, <2>2 DEF Spares
<1>12. Ring(d, c, n)
  BY <1>1, <1>6 DEF Ring
<1>13. Guard(d) = Guard(m)
  BY <1>6 DEF Guard
<1> HIDE DEF Map
<1>14. Linked(d, c, n, e, k - 1, X \cup {m.free})
  BY <1>1, <1>4, <1>6, <1>10, <1>11, <1>12, <1>13 DEF Linked
<1> QED BY <1>4, <1>6, <1>14 DEF Outside, Alike, Plus, e

-----------------------------------------------------------------------------
(* Putting a detached node on the free list, as remove does. *)
LEMMA PushLinked ==
  ASSUME NEW m, NEW c, NEW n, NEW f, NEW k, NEW X, NEW p, NEW d, PushedAt(m, c, n, f, k, X, p, d)
  PROVE  /\ Linked(d, c, n, Pushed(p, f, k), k + 1, Minus(X, p)) /\ Alike(d, m)
         /\ d.head = m.head /\ d.live = m.live /\ d.prev = m.prev
<1>0. Linked(m, c, n, f, k, X) /\ p \in X /\ d = [m EXCEPT !.next[p] = m.free, !.free = p]
  BY DEF PushedAt
<1> USE <1>0
<1>1. /\ m \in Map /\ Ring(m, c, n) /\ Chain(m, f, k)
      /\ m.next[Null] = Null /\ m.prev[Null] = Null /\ X \subseteq Addr
      /\ Guard(m) \cap Spares(f, k) = {} /\ Guard(m) \cap X = {}
      /\ Members(c, n) \cap Spares(f, k) = {} /\ Members(c, n) \cap X = {}
      /\ Spares(f, k) \cap X = {}
      /\ m.live = Guard(m) \cup Members(c, n) \cup Spares(f, k) \cup X
  BY LinkedFacts
<1>2. /\ k \in Nat /\ f \in [0 .. k -> Node]
      /\ f[0] = m.free /\ f[k] = Null
      /\ \A j \in 0 .. k - 1 : f[j] \in Addr /\ f[j] # Null /\ m.next[f[j]] = f[j + 1]
      /\ \A j, l \in 0 .. k - 1 : f[j] = f[l] => j = l
  BY <1>1, ChainFacts
<1>3. /\ m.next \in [Node -> Node] /\ m.free \in Node /\ Null \in Node /\ Null \notin Addr
  BY <1>1, MapFacts
<1>4. p \in Node /\ p \in Addr /\ p # Null
  BY <1>1, <1>3 DEF Node
<1> DEFINE a == [m.next EXCEPT ![p] = m.free]
<1>5. a \in [Node -> Node] /\ \A q \in Node : a[q] = IF q = p THEN m.free ELSE m.next[q]
  BY <1>3, <1>4
<1> HIDE DEF a
<1>6. /\ d \in Map /\ d.free = p /\ d.head = m.head /\ d.live = m.live
      /\ d.next = a /\ d.prev = m.prev
      /\ d.index = m.index /\ d.present = m.present /\ d.key = m.key /\ d.value = m.value
  BY <1>1, <1>4, <1>5 DEF Map, a
<1> DEFINE e == Pushed(p, f, k)
<1>7. /\ e \in [0 .. k + 1 -> Node] /\ e[0] = p
      /\ \A j \in 1 .. k + 1 : e[j] = f[j - 1]
  <2>1. \A j \in 0 .. k + 1 : j # 0 => f[j - 1] \in Node
    BY <1>2
  <2> QED BY <1>2, <1>4, <2>1 DEF Pushed
<1> HIDE DEF e
<1>8. ASSUME NEW j \in 0 .. k PROVE e[j] # Null /\ d.next[e[j]] = e[j + 1]
  <2>1. CASE j = 0
    <3>1. e[j + 1] = f[0]
      BY <1>2, <1>7, <2>1
    <3> QED BY <1>2, <1>4, <1>5, <1>6, <1>7, <2>1, <3>1
  <2>2. CASE j # 0
    <3>1. j - 1 \in 0 .. k - 1 /\ (j - 1) + 1 = j /\ (j + 1) - 1 = j /\ j \in 1 .. k + 1 /\ j + 1 \in 1 .. k + 1
      BY <1>2, <2>2
    <3>2. e[j] = f[j - 1] /\ e[j + 1] = f[j]
      BY <1>7, <3>1
    <3>3. f[j - 1] \in Addr /\ f[j - 1] # Null /\ m.next[f[j - 1]] = f[j]
      BY <1>2, <3>1
    <3>4. f[j - 1] # p
      BY <1>1, <3>1 DEF Spares
    <3>5. f[j - 1] \in Node
      BY <3>3 DEF Node
    <3> QED BY <1>5, <1>6, <3>2, <3>3, <3>4, <3>5
  <2> QED BY <2>1, <2>2
<1>9. ASSUME NEW j \in 0 .. k, NEW l \in 0 .. k, e[j] = e[l] PROVE j = l
  <2>1. \A i \in 1 .. k : i - 1 \in 0 .. k - 1 /\ i \in 1 .. k + 1 /\ e[i] = f[i - 1] /\ f[i - 1] # p
    <3> SUFFICES ASSUME NEW i \in 1 .. k
                 PROVE i - 1 \in 0 .. k - 1 /\ i \in 1 .. k + 1 /\ e[i] = f[i - 1] /\ f[i - 1] # p
      OBVIOUS
    <3>1. i - 1 \in 0 .. k - 1 /\ i \in 1 .. k + 1
      BY <1>2
    <3>2. f[i - 1] # p
      BY <1>1, <3>1 DEF Spares
    <3> QED BY <1>7, <3>1, <3>2
  <2>2. (j = 0 \/ j \in 1 .. k) /\ (l = 0 \/ l \in 1 .. k)
    BY <1>2
  <2>3. CASE j \in 1 .. k /\ l \in 1 .. k
    <3>1. j - 1 = l - 1
      BY <1>2, <1>9, <2>1, <2>3
    <3> QED BY <2>3, <3>1
  <2> QED BY <1>7, <1>9, <2>1, <2>2, <2>3
<1>10. Chain(d, e, k + 1)
  <2>1. k + 1 \in Nat /\ e[k + 1] = Null /\ (k + 1) - 1 = k
    BY <1>2, <1>7
  <2> QED BY <1>6, <1>7, <1>8, <1>9, <2>1 DEF Chain
<1>11. Spares(e, k + 1) = Spares(f, k) \cup {p}
  <2>1. ASSUME NEW j \in 0 .. (k + 1) - 1 PROVE e[j] \in Spares(f, k) \cup {p}
    <3>1. j # 0 => j - 1 \in 0 .. k - 1 /\ j \in 1 .. k + 1
      BY <1>2
    <3> QED BY <1>7, <3>1 DEF Spares
  <2>2. ASSUME NEW j \in 0 .. k - 1 PROVE \E l \in 0 .. (k + 1) - 1 : e[l] = f[j]
    <3>2. j + 1 \in 0 .. (k + 1) - 1 /\ j + 1 \in 1 .. k + 1 /\ (j + 1) - 1 = j
      BY <1>2
    <3> QED BY <1>7, <3>2
  <2>3. \E l \in 0 .. (k + 1) - 1 : e[l] = p
    <3>1. 0 \in 0 .. (k + 1) - 1
      BY <1>2
    <3> QED BY <1>7, <3>1
  <2> SUFFICES ASSUME NEW x PROVE x \in Spares(e, k + 1) <=> x \in Spares(f, k) \cup {p}
    OBVIOUS
  <2> QED BY <2>1, <2>2, <2>3 DEF Spares
<1>12. Ring(d, c, n)
  <2>1. /\ n \in Nat /\ c \in [0 .. n + 1 -> Node]
        /\ c[0] = m.head /\ c[n + 1] = m.head
        /\ \A j \in 0 .. n : m.prev[c[j]] = c[j + 1] /\ m.next[c[j + 1]] = c[j]
        /\ \A j \in 0 .. n + 1 : c[j] \in Node
    BY <1>1, RingFacts
  <2>2. ASSUME NEW j \in 0 .. n PROVE d.next[c[j + 1]] = c[j]
    <3>1. j + 1 \in 0 .. n + 1 /\ (j + 1 = n + 1 \/ j + 1 \in 1 .. n)
      BY <2>1
    <3>2. c[j + 1] # p
      <4>1. j + 1 \in 1 .. n => c[j + 1] \in Members(c, n)
        BY DEF Members
      <4> QED BY <1>1, <1>4, <2>1, <3>1, <4>1 DEF Guard
    <3> QED BY <1>5, <1>6, <2>1, <3>1, <3>2
  <2> QED BY <1>1, <1>6, <2>2 DEF Ring
<1>13. Guard(d) = Guard(m)
  BY <1>6 DEF Guard
<1>14. d.next[Null] = Null
  BY <1>1, <1>3, <1>4, <1>5, <1>6
<1> HIDE DEF Map
<1>15. Linked(d, c, n, e, k + 1, X \ {p})
  BY <1>1, <1>4, <1>6, <1>10, <1>11, <1>12, <1>13, <1>14 DEF Linked
<1> QED BY <1>6, <1>15 DEF Outside, Alike, Minus, e

(* The lists as sequences. *)
LEMMA ToSetIs ==
  ASSUME NEW n \in Nat, NEW g
  PROVE  ToSet(Onward(g, n)) = {g[i] : i \in 1 .. n}
BY DEF ToSet, Onward

(* The loop of clear_free_list visits exactly the free list. *)
LEMMA FreeListIs ==
  ASSUME NEW m, NEW f, NEW k, m \in Map, Chain(m, f, k)
  PROVE  /\ Until(m.next, m.free, Null) = [i \in 1 .. k |-> f[i - 1]]
         /\ ToSet(Until(m.next, m.free, Null)) = Spares(f, k)
<1>1. m \in Map /\ Chain(m, f, k)
  OBVIOUS
<1>2. /\ k \in Nat /\ f \in [0 .. k -> Node]
      /\ f[0] = m.free /\ f[k] = Null
      /\ \A j \in 0 .. k - 1 : f[j] \in Addr /\ f[j] # Null /\ m.next[f[j]] = f[j + 1]
      /\ \A j, l \in 0 .. k - 1 : f[j] = f[l] => j = l
  BY <1>1, ChainFacts
<1>3. m.next \in [Node -> Node] /\ m.free \in Node /\ Null \in Node
  BY <1>1, MapFacts
<1> DEFINE g == [i \in 1 .. k + 1 |-> f[i - 1]]
<1>4. /\ g[1] = m.free /\ g[k + 1] = Null
      /\ \A i \in 1 .. k : g[i] = f[i - 1] /\ g[i + 1] = f[i] /\ i - 1 \in 0 .. k - 1
  BY <1>2
<1> HIDE DEF g
<1>5. \A i \in 1 .. k : g[i + 1] = m.next[g[i]] /\ g[i] \in Addr /\ g[i] # Null
  <2> SUFFICES ASSUME NEW i \in 1 .. k PROVE g[i + 1] = m.next[g[i]] /\ g[i] \in Addr /\ g[i] # Null
    OBVIOUS
  <2> DEFINE j == i - 1
  <2>1. j \in 0 .. k - 1 /\ j + 1 = i /\ g[i] = f[j] /\ g[i + 1] = f[i]
    BY <1>4
  <2> HIDE DEF j
  <2>2. f[j] \in Addr /\ f[j] # Null /\ m.next[f[j]] = f[j + 1]
    BY <1>2, <2>1
  <2> QED BY <2>1, <2>2
<1>6. \A i, j \in 1 .. k : g[i] = g[j] => i = j
  <2> SUFFICES ASSUME NEW i \in 1 .. k, NEW j \in 1 .. k, g[i] = g[j] PROVE i = j
    OBVIOUS
  <2>1. i - 1 = j - 1
    BY <1>2, <1>4
  <2> QED BY <2>1
<1>20. g \in [1 .. k + 1 -> Node]
  <2>1. \A i \in 1 .. k + 1 : f[i - 1] \in Node
    BY <1>2
  <2> QED BY <2>1 DEF g
<1>7. Until(m.next, m.free, Null) = [i \in 1 .. k |-> g[i]]
  <2> DEFINE a == m.next
             p == m.free
  <2>1. a \in [Node -> Node] /\ p \in Node /\ Null \in Node /\ k \in Nat
    BY <1>2, <1>3
  <2>2. g[1] = p /\ g[k + 1] = Null
    BY <1>4
  <2>3. /\ \A i \in 1 .. k : g[i + 1] = a[g[i]]
        /\ \A i \in 1 .. k : g[i] \in Addr /\ g[i] # Null
    BY <1>5
  <2> HIDE DEF a, p
  <2>9. Leads(a, p, k, g, Null)
    BY <1>20, <2>1, <2>2, <2>3, <1>6 DEF Leads
  <2>4. Until(a, p, Null) = [i \in 1 .. k |-> g[i]]
    BY ONLY <2>9, UntilIs
  <2> QED BY <2>4 DEF a, p
<1>8. [i \in 1 .. k |-> g[i]] = [i \in 1 .. k |-> f[i - 1]]
  BY <1>4
<1>9. {g[i] : i \in 1 .. k} = Spares(f, k)
  <2>1. \A i \in 0 .. k - 1 : i + 1 \in 1 .. k /\ g[i + 1] = f[i]
    <3> SUFFICES ASSUME NEW i \in 0 .. k - 1 PROVE i + 1 \in 1 .. k /\ g[i + 1] = f[i]
      OBVIOUS
    <3>1. i + 1 \in 1 .. k /\ (i + 1) - 1 = i
      BY <1>2
    <3> QED BY <1>4, <3>1
  <2> SUFFICES ASSUME NEW x PROVE x \in {g[i] : i \in 1 .. k} <=> x \in Spares(f, k)
    OBVIOUS
  <2>2. x \in {g[i] : i \in 1 .. k} => x \in Spares(f, k)
    BY <1>4 DEF Spares
  <2>3. x \in Spares(f, k) => x \in {g[i] : i \in 1 .. k}
    BY <2>1 DEF Spares
  <2> QED BY <2>2, <2>3
<1>10. ToSet(Onward(g, k)) = {g[i] : i \in 1 .. k}
  BY <1>2, ToSetIs
<1> QED BY <1>7, <1>8, <1>9, <1>10 DEF Onward

(* The loop of drop_entries, and both walks round the ring, visit exactly its entries. *)
LEMMA RingIs ==
  ASSUME NEW m, NEW c, NEW n, NEW f, NEW k, NEW X, Linked(m, c, n, f, k, X)
  PROVE  /\ m.head # Null => Until(m.next, m.next[m.head], m.head) = Backward(c, n)
         /\ m.head # Null => Until(m.prev, m.prev[m.head], m.head) = Onward(c, n)
         /\ m.head # Null => ToSet(Until(m.next, m.next[m.head], m.head)) = Members(c, n)
         /\ Path(m.prev, m.prev[m.head], n) = Onward(c, n)
<1>1. m \in Map /\ Ring(m, c, n)
  BY LinkedFacts
<1>2. /\ n \in Nat /\ c \in [0 .. n + 1 -> Node]
      /\ c[0] = m.head /\ c[n + 1] = m.head
      /\ \A i \in 0 .. n : m.prev[c[i]] = c[i + 1] /\ m.next[c[i + 1]] = c[i]
      /\ \A i \in 1 .. n : c[i] \in Addr /\ c[i] # Null /\ c[i] # m.head
      /\ \A i, j \in 1 .. n : c[i] = c[j] => i = j
  BY <1>1, RingFacts
<1>3. m.next \in [Node -> Node] /\ m.prev \in [Node -> Node] /\ m.head \in Node
  BY <1>1, MapFacts
<1>4. 0 \in 0 .. n /\ n \in 0 .. n /\ m.prev[m.head] = c[1] /\ m.next[m.head] = c[n]
  <2>1. 0 \in 0 .. n /\ n \in 0 .. n
    BY <1>2
  <2>2. m.prev[c[0]] = c[0 + 1] /\ m.next[c[n + 1]] = c[n]
    BY <1>2, <2>1
  <2> QED BY <1>2, <2>1, <2>2
<1>5. c[1] \in Node /\ c[n] \in Node
  BY <1>2
<1> DEFINE g == [i \in 1 .. n + 1 |-> c[n + 1 - i]]
<1>6. /\ g[1] = c[n] /\ g[n + 1] = m.head
      /\ \A i \in 1 .. n : g[i] = c[n + 1 - i] /\ g[i + 1] = c[n - i] /\ n - i \in 0 .. n
                           /\ n + 1 - i \in 1 .. n /\ (n - i) + 1 = n + 1 - i
  <2>1. (n + 1) - 1 = n /\ (n + 1) - (n + 1) = 0 /\ 1 \in 1 .. n + 1 /\ n + 1 \in 1 .. n + 1
    BY <1>2
  <2>2. \A i \in 1 .. n : i \in 1 .. n + 1 /\ i + 1 \in 1 .. n + 1 /\ n + 1 - (i + 1) = n - i /\ n - i \in 0 .. n
                           /\ n + 1 - i \in 1 .. n /\ (n - i) + 1 = n + 1 - i
    BY <1>2
  <2> QED BY <1>2, <2>1, <2>2
<1> HIDE DEF g
<1>7. \A i \in 1 .. n : g[i + 1] = m.next[g[i]] /\ g[i] \in Addr /\ g[i] # m.head
  <2> SUFFICES ASSUME NEW i \in 1 .. n PROVE g[i + 1] = m.next[g[i]] /\ g[i] \in Addr /\ g[i] # m.head
    OBVIOUS
  <2>1. n - i \in 0 .. n /\ n + 1 - i \in 1 .. n /\ (n - i) + 1 = n + 1 - i
        /\ g[i] = c[n + 1 - i] /\ g[i + 1] = c[n - i]
    BY <1>6
  <2>2. m.next[c[(n - i) + 1]] = c[n - i]
    BY <1>2, <2>1
  <2> QED BY <1>2, <2>1, <2>2
<1>8. \A i, j \in 1 .. n : g[i] = g[j] => i = j
  <2> SUFFICES ASSUME NEW i \in 1 .. n, NEW j \in 1 .. n, g[i] = g[j] PROVE i = j
    OBVIOUS
  <2>1. n + 1 - i \in 1 .. n /\ n + 1 - j \in 1 .. n /\ c[n + 1 - i] = c[n + 1 - j]
    BY <1>6
  <2>2. n + 1 - i = n + 1 - j
    BY <1>2, <2>1
  <2> QED BY <1>2, <2>2
<1>21. g \in [1 .. n + 1 -> Node]
  <2>1. \A i \in 1 .. n + 1 : c[n + 1 - i] \in Node
    BY <1>2
  <2> QED BY <2>1 DEF g
<1>9. Until(m.next, c[n], m.head) = [i \in 1 .. n |-> g[i]]
  <2> DEFINE a == m.next
             p == c[n]
             h == m.head
  <2>1. a \in [Node -> Node] /\ p \in Node /\ h \in Node /\ n \in Nat
    BY <1>2, <1>3, <1>5
  <2>2. g[1] = p /\ g[n + 1] = h
    BY <1>2, <1>6
  <2>3. /\ \A i \in 1 .. n : g[i + 1] = a[g[i]]
        /\ \A i \in 1 .. n : g[i] \in Addr /\ g[i] # h
    BY <1>7
  <2>4. \A i, j \in 1 .. n : g[i] = g[j] => i = j
    BY <1>2, <1>8
  <2> HIDE DEF a, p, h
  <2>9. Leads(a, p, n, g, h)
    BY <1>21, <2>1, <2>2, <2>3, <2>4 DEF Leads
  <2>5. Until(a, p, h) = [i \in 1 .. n |-> g[i]]
    BY ONLY <2>9, UntilIs
  <2> QED BY <2>5 DEF a, p, h
<1>10. [i \in 1 .. n |-> g[i]] = [i \in 1 .. n |-> c[n + 1 - i]]
  BY <1>6
<1>11. {g[i] : i \in 1 .. n} = Members(c, n)
  <2>1. \A i \in 1 .. n : n + 1 - i \in 1 .. n /\ g[n + 1 - i] = c[i]
    <3> SUFFICES ASSUME NEW i \in 1 .. n PROVE n + 1 - i \in 1 .. n /\ g[n + 1 - i] = c[i]
      OBVIOUS
    <3>1. n + 1 - i \in 1 .. n /\ n + 1 - (n + 1 - i) = i
      BY <1>2
    <3> QED BY <1>6, <3>1
  <2> SUFFICES ASSUME NEW x PROVE x \in {g[i] : i \in 1 .. n} <=> x \in Members(c, n)
    OBVIOUS
  <2>2. x \in {g[i] : i \in 1 .. n} => x \in Members(c, n)
    BY <1>6 DEF Members
  <2>3. x \in Members(c, n) => x \in {g[i] : i \in 1 .. n}
    BY <2>1 DEF Members
  <2> QED BY <2>2, <2>3
<1>12. \A i \in 1 .. n : c[i + 1] = m.prev[c[i]] /\ c[i] \in Addr /\ c[i] # m.head
  BY <1>2
<1> DEFINE e == [i \in 1 .. n + 1 |-> c[i]]
<1>20. e \in [1 .. n + 1 -> Node] /\ e[n + 1] = m.head /\ e[1] = c[1]
       /\ \A i \in 1 .. n : e[i] = c[i] /\ e[i + 1] = c[i + 1]
  <2>1. \A i \in 1 .. n + 1 : c[i] \in Node
    BY <1>2
  <2>2. 1 \in 1 .. n + 1 /\ n + 1 \in 1 .. n + 1 /\ \A i \in 1 .. n : i \in 1 .. n + 1 /\ i + 1 \in 1 .. n + 1
    BY <1>2
  <2> QED BY <1>2, <2>1, <2>2
<1> HIDE DEF e
<1>13. Until(m.prev, c[1], m.head) = [i \in 1 .. n |-> c[i]]
  <2> DEFINE a == m.prev
             p == c[1]
             h == m.head
  <2>1. a \in [Node -> Node] /\ p \in Node /\ h \in Node /\ n \in Nat
    BY <1>2, <1>3, <1>5
  <2>2. e[1] = p /\ e[n + 1] = h
    BY <1>20
  <2>3. /\ \A i \in 1 .. n : e[i + 1] = a[e[i]]
        /\ \A i \in 1 .. n : e[i] \in Addr /\ e[i] # h
        /\ \A i, j \in 1 .. n : e[i] = e[j] => i = j
    BY <1>2, <1>12, <1>20
  <2>4. e \in [1 .. n + 1 -> Node]
    BY <1>20
  <2> HIDE DEF a, p, h
  <2>9. Leads(a, p, n, e, h)
    BY <2>1, <2>2, <2>3, <2>4 DEF Leads
  <2>5. Until(a, p, h) = [i \in 1 .. n |-> e[i]]
    BY ONLY <2>9, UntilIs
  <2>6. [i \in 1 .. n |-> e[i]] = [i \in 1 .. n |-> c[i]]
    BY <1>20
  <2> QED BY <2>5, <2>6 DEF a, p, h
<1>14. Path(m.prev, c[1], n) = [i \in 1 .. n |-> c[i]]
  <2> DEFINE s == [i \in 1 .. n |-> c[i]]
             a == m.prev
             p == c[1]
  <2>1. n \in Nat /\ a \in [Node -> Node] /\ p \in Node
    BY <1>2, <1>3, <1>5
  <2>2. s \in [1 .. n -> Node] /\ \A i \in 1 .. n : s[i] = c[i]
    BY <1>2
  <2> HIDE DEF s
  <2>3. n # 0 => s[1] = p
    BY <2>1, <2>2
  <2>4. \A i \in 1 .. n - 1 : s[i + 1] = a[s[i]]
    <3> SUFFICES ASSUME NEW i \in 1 .. n - 1 PROVE s[i + 1] = a[s[i]]
      OBVIOUS
    <3>1. i \in 1 .. n /\ i + 1 \in 1 .. n
      BY <1>2
    <3> QED BY <1>12, <2>2, <3>1
  <2> HIDE DEF a, p
  <2>5. Path(a, p, n) = s
    BY ONLY <2>1, <2>2, <2>3, <2>4, PathIsThat
  <2> QED BY <2>5 DEF s, a, p
<1>15. ToSet(Onward(g, n)) = {g[i] : i \in 1 .. n}
  BY <1>2, ToSetIs
<1> QED BY <1>4, <1>9, <1>10, <1>11, <1>13, <1>14, <1>15 DEF Onward, Backward

-----------------------------------------------------------------------------
(* A ring or a free list whose nodes are not touched. *)
LEMMA RingKept ==
  ASSUME NEW m, NEW c, NEW n, NEW d, Ring(m, c, n), m \in Map, d.head = m.head,
         \A q \in Guard(m) \cup Members(c, n) \cup {Null} : d.next[q] = m.next[q] /\ d.prev[q] = m.prev[q]
  PROVE  Ring(d, c, n)
<1>1. /\ n \in Nat /\ c \in [0 .. n + 1 -> Node]
      /\ c[0] = m.head /\ c[n + 1] = m.head
      /\ \A i \in 0 .. n : m.prev[c[i]] = c[i + 1] /\ m.next[c[i + 1]] = c[i]
  BY RingFacts
<1>2. \A i \in 0 .. n + 1 : c[i] \in Guard(m) \cup Members(c, n) \cup {Null}
  <2> SUFFICES ASSUME NEW i \in 0 .. n + 1 PROVE c[i] \in Guard(m) \cup Members(c, n) \cup {Null}
    OBVIOUS
  <2>1. i = 0 \/ i = n + 1 \/ i \in 1 .. n
    BY <1>1
  <2> QED BY <1>1, <2>1 DEF Guard, Members
<1>3. ASSUME NEW i \in 0 .. n PROVE d.prev[c[i]] = c[i + 1] /\ d.next[c[i + 1]] = c[i]
  <2>1. i \in 0 .. n + 1 /\ i + 1 \in 0 .. n + 1
    BY <1>1
  <2> QED BY <1>1, <1>2, <2>1
<1> QED BY <1>3 DEF Ring

(* A free list whose pointers are unchanged is the same free list. *)
LEMMA ChainKept ==
  ASSUME NEW m, NEW f, NEW k, NEW d, Chain(m, f, k), d.free = m.free,
         \A q \in Spares(f, k) : d.next[q] = m.next[q]
  PROVE  Chain(d, f, k)
<1>1. \A i \in 0 .. k - 1 : f[i] \in Spares(f, k)
  BY DEF Spares
<1> QED BY <1>1 DEF Chain

(* An empty free list. *)
LEMMA NoSparesIs ==
  ASSUME NEW m, m.free = Null
  PROVE  Chain(m, NoSpares, 0) /\ Spares(NoSpares, 0) = {}
<1>1. 0 .. 0 - 1 = {} /\ Null \in Node
  BY DEF Node
<1>2. NoSpares \in [0 .. 0 -> Node] /\ NoSpares[0] = Null
  BY <1>1 DEF NoSpares
<1> QED BY <1>1, <1>2 DEF Chain, Spares

(* Freeing the free list. *)
LEMMA ClearFreeIs ==
  ASSUME NEW m, NEW f, NEW k, m \in Map, Chain(m, f, k), NEW d, d = clear_free_list(m)
  PROVE  /\ d \in Map /\ Outside(d, m, Spares(f, k))
         /\ d.head = m.head /\ d.free = Null /\ d.live = m.live \ Spares(f, k)
         /\ \A q \in Node : d.prev[q] = IF q \in Spares(f, k) THEN Null ELSE m.prev[q]
         /\ \A q \in Node : d.next[q] = IF q \in Spares(f, k) THEN Null ELSE m.next[q]
<1> DEFINE S == Spares(f, k)
           g == Freed(m, S)
<1>1. ToSet(Until(m.next, m.free, Null)) = S
  BY FreeListIs
<1>2. d = [g EXCEPT !.free = Null]
  BY <1>1 DEF clear_free_list
<1> HIDE DEF S
<1>3. g = Freed(m, S)
  OBVIOUS
<1> HIDE DEF g
<1>4. /\ g \in Map /\ Outside(g, m, S)
      /\ g.head = m.head /\ g.free = m.free /\ g.live = m.live \ S
      /\ \A q \in Node : g.prev[q] = IF q \in S THEN Null ELSE m.prev[q]
      /\ \A q \in Node : g.next[q] = IF q \in S THEN Null ELSE m.next[q]
  BY <1>3, FreedIs
<1>5. Null \in Node
  BY DEF Node
<1>6. /\ d \in Map /\ d.next = g.next /\ d.live = g.live /\ d.prev = g.prev /\ d.key = g.key /\ d.value = g.value
      /\ d.index = g.index /\ d.present = g.present /\ d.head = g.head /\ d.free = Null
  BY <1>2, <1>4, <1>5 DEF Map
<1> HIDE DEF Map
<1> QED BY <1>4, <1>6 DEF Outside, S

(* clear_free_list frees the free list and nothing else. *)
LEMMA ClearFreeLinked ==
  ASSUME NEW m, NEW c, NEW n, NEW f, NEW k, NEW X, Linked(m, c, n, f, k, X),
         NEW d, d = clear_free_list(m)
  PROVE  /\ Linked(d, c, n, NoSpares, 0, X) /\ Outside(d, m, Spares(f, k))
         /\ d.head = m.head /\ d.live = m.live \ Spares(f, k)
<1>1. /\ m \in Map /\ Ring(m, c, n) /\ Chain(m, f, k) /\ n \in Nat /\ k \in Nat
      /\ m.next[Null] = Null /\ m.prev[Null] = Null
      /\ X \subseteq Addr /\ Guard(m) \subseteq Addr /\ Members(c, n) \subseteq Addr
      /\ Spares(f, k) \subseteq Addr
      /\ Guard(m) \cap Spares(f, k) = {} /\ Guard(m) \cap X = {}
      /\ Members(c, n) \cap Spares(f, k) = {} /\ Members(c, n) \cap X = {}
      /\ Spares(f, k) \cap X = {}
      /\ m.live = Guard(m) \cup Members(c, n) \cup Spares(f, k) \cup X
  BY LinkedFacts
<1>2. /\ d \in Map /\ Outside(d, m, Spares(f, k))
      /\ d.head = m.head /\ d.free = Null /\ d.live = m.live \ Spares(f, k)
      /\ \A q \in Node : d.prev[q] = IF q \in Spares(f, k) THEN Null ELSE m.prev[q]
      /\ \A q \in Node : d.next[q] = IF q \in Spares(f, k) THEN Null ELSE m.next[q]
  BY <1>1, ClearFreeIs
<1>3. Null \in Node /\ Null \notin Addr /\ Addr \subseteq Node
  BY <1>1, MapFacts DEF Node
<1>4. \A q \in Guard(m) \cup Members(c, n) \cup {Null} : d.next[q] = m.next[q] /\ d.prev[q] = m.prev[q]
  BY <1>1, <1>2, <1>3
<1>5. Ring(d, c, n)
  BY <1>1, <1>2, <1>4, RingKept
<1>6. Chain(d, NoSpares, 0) /\ Spares(NoSpares, 0) = {}
  BY <1>2, NoSparesIs
<1>7. Guard(d) = Guard(m)
  BY <1>2 DEF Guard
<1>8. d.next[Null] = Null /\ d.prev[Null] = Null
  BY <1>1, <1>4
<1> HIDE DEF Map
<1>9. Linked(d, c, n, NoSpares, 0, X)
  BY <1>1, <1>2, <1>5, <1>6, <1>7, <1>8 DEF Linked
<1> QED BY <1>2, <1>9

(* Freeing the entries, with the guard left alone. *)
LEMMA ClearLinked ==
  ASSUME NEW m, NEW c, NEW n, NEW f, NEW k, NEW X, Linked(m, c, n, f, k, X),
         NEW d, d = clear(m)
  PROVE  /\ Linked(d, Alone(m.head), 0, f, k, X) /\ d.index = Index!new /\ d.present = m.present
         /\ d.head = m.head /\ d.live = m.live \ Members(c, n)
<1>1. /\ m \in Map /\ Ring(m, c, n) /\ Chain(m, f, k) /\ n \in Nat /\ k \in Nat
      /\ m.next[Null] = Null /\ m.prev[Null] = Null
      /\ X \subseteq Addr /\ Guard(m) \subseteq Addr /\ Members(c, n) \subseteq Addr
      /\ Spares(f, k) \subseteq Addr
      /\ Guard(m) \cap Members(c, n) = {}
      /\ Guard(m) \cap Spares(f, k) = {} /\ Guard(m) \cap X = {}
      /\ Members(c, n) \cap Spares(f, k) = {} /\ Members(c, n) \cap X = {}
      /\ Spares(f, k) \cap X = {}
      /\ m.live = Guard(m) \cup Members(c, n) \cup Spares(f, k) \cup X
  BY LinkedFacts
<1>2. Index!new \in IndexMap /\ Index!clear(m.index) = Index!new
  BY NewIndexIs DEF Index!clear
<1>3. Null \in Node /\ Null \notin Addr /\ Addr \subseteq Node /\ m.head \in Node
  BY <1>1, MapFacts DEF Node
<1> DEFINE z == [m EXCEPT !.index = Index!new]
<1>4. /\ z \in Map /\ z.index = Index!new /\ z.head = m.head /\ z.free = m.free /\ z.next = m.next
      /\ z.prev = m.prev /\ z.live = m.live /\ z.present = m.present
  BY <1>1, <1>2 DEF Map, IndexMap
<1>5. CASE m.head = Null
  <2>1. d = z
    BY <1>2, <1>5 DEF clear
  <2>2. n = 0 /\ Members(c, n) = {} /\ Guard(m) = {}
    BY <1>5, NoHead
  <2> HIDE DEF z
  <2>3. Guard(d) = {}
    BY <1>4, <1>5, <2>1 DEF Guard
  <2>4. /\ d \in Map /\ d.free = m.free /\ (\A q \in Spares(f, k) : d.next[q] = m.next[q])
        /\ d.next[Null] = Null /\ d.prev[Null] = Null
        /\ (d.head # Null => d.next[d.head] = d.head /\ d.prev[d.head] = d.head)
        /\ X \in SUBSET Addr /\ Guard(d) \cap Spares(f, k) = {} /\ Guard(d) \cap X = {}
        /\ d.live = Guard(d) \cup Spares(f, k) \cup X
    BY <1>1, <1>4, <1>5, <2>1, <2>2, <2>3
  <2>5. Linked(d, Alone(d.head), 0, f, k, X)
    BY ONLY <1>1, <2>4, BareIs
  <2> QED BY <1>4, <2>1, <2>2, <2>5
<1>6. CASE m.head # Null
  <2> DEFINE S == Members(c, n)
             g == Freed(z, S)
             h == m.head
             a == [g.next EXCEPT ![h] = h]
             b == [g.prev EXCEPT ![h] = h]
  <2>1. ToSet(Until(m.next, m.next[m.head], m.head)) = S
    BY <1>6, RingIs
  <2>2. drop_entries(z) = g
    BY <1>4, <2>1 DEF drop_entries
  <2>3. d = [g EXCEPT !.prev = b, !.next = a]
    BY <1>2, <1>6, <2>2 DEF clear
  <2> HIDE DEF S, z
  <2>4. g = Freed(z, S)
    OBVIOUS
  <2> HIDE DEF g
  <2>5. /\ g \in Map /\ Outside(g, z, S)
        /\ g.head = m.head /\ g.free = m.free /\ g.live = m.live \ S
        /\ \A q \in Node : g.prev[q] = IF q \in S THEN Null ELSE m.prev[q]
        /\ \A q \in Node : g.next[q] = IF q \in S THEN Null ELSE m.next[q]
    BY <1>4, <2>4, FreedIs
  <2>6. g.next \in [Node -> Node] /\ g.prev \in [Node -> Node]
    BY <2>5, MapFacts
  <2>7. /\ a \in [Node -> Node] /\ b \in [Node -> Node]
        /\ \A q \in Node : a[q] = IF q = h THEN h ELSE g.next[q]
        /\ \A q \in Node : b[q] = IF q = h THEN h ELSE g.prev[q]
    BY <1>3, <2>6
  <2> HIDE DEF a, b
  <2>8. /\ d \in Map /\ d.next = a /\ d.live = g.live /\ d.prev = b
        /\ d.index = g.index /\ d.present = g.present /\ d.head = g.head /\ d.free = g.free
    BY ZenonT(60), <2>3, <2>5, <2>7 DEF Map
  <2>9. d.index = Index!new /\ d.present = m.present /\ d.head = h /\ d.free = m.free /\ d.live = m.live \ S
    BY <1>4, <2>5, <2>8 DEF Outside
  <2>10. Guard(d) = {h} /\ Guard(m) = {h}
    BY <1>6, <2>9 DEF Guard
  <2>11. \A q \in Spares(f, k) \cup {Null} : q \in Node /\ q # h /\ q \notin S
    BY <1>1, <1>3, <1>6, <2>10 DEF S
  <2>12. d.next[h] = h /\ d.prev[h] = h
    BY <1>3, <2>7, <2>8
  <2>13. \A q \in Spares(f, k) \cup {Null} : d.next[q] = m.next[q] /\ d.prev[q] = m.prev[q]
    BY <2>5, <2>7, <2>8, <2>11
  <2>14. /\ d.free = m.free /\ (\A q \in Spares(f, k) : d.next[q] = m.next[q])
         /\ d.next[Null] = Null /\ d.prev[Null] = Null
         /\ (d.head # Null => d.next[d.head] = d.head /\ d.prev[d.head] = d.head)
    BY <1>1, <2>9, <2>12, <2>13
  <2>15. /\ X \in SUBSET Addr /\ Guard(d) \cap Spares(f, k) = {} /\ Guard(d) \cap X = {}
         /\ d.live = Guard(d) \cup Spares(f, k) \cup X
    BY <1>1, <2>9, <2>10 DEF S
  <2>16. Linked(d, Alone(d.head), 0, f, k, X)
    BY ONLY <1>1, <2>8, <2>14, <2>15, BareIs
  <2> QED BY <2>9, <2>16 DEF S
<1> QED BY <1>5, <1>6

-----------------------------------------------------------------------------
(* A map given up by into_iter or drop has no list left. *)
LEMMA ConsumedIs ==
  ASSUME NEW g \in Map, g.free = Null, g.next[Null] = Null, g.prev[Null] = Null,
         NEW d, d = [g EXCEPT !.index = Index!new, !.head = Null, !.present = FALSE]
  PROVE  /\ Consumed(d, g.live) /\ d.key = g.key /\ d.value = g.value /\ d.next = g.next /\ d.prev = g.prev
         /\ d.live = g.live
<1> DEFINE X == g.live
<1>0. X \in SUBSET Addr
  BY MapFacts
<1>1. Index!new \in IndexMap /\ Null \in Node
  BY NewIndexIs DEF Node
<1>2. /\ d \in Map /\ d.index = Index!new /\ d.head = Null /\ d.free = Null /\ d.present = FALSE
      /\ d.next = g.next /\ d.prev = g.prev /\ d.live = X /\ d.key = g.key /\ d.value = g.value
  BY <1>1 DEF Map, IndexMap
<1>3. Chain(d, NoSpares, 0) /\ Spares(NoSpares, 0) = {}
  BY <1>2, NoSparesIs
<1>4. Guard(d) = {}
  BY <1>2 DEF Guard
<1>5. /\ d \in Map /\ (\A q \in Spares(NoSpares, 0) : d.next[q] = d.next[q]) /\ d.free = d.free
      /\ d.next[Null] = Null /\ d.prev[Null] = Null
      /\ (d.head # Null => d.next[d.head] = d.head /\ d.prev[d.head] = d.head)
      /\ X \in SUBSET Addr /\ Guard(d) \cap Spares(NoSpares, 0) = {} /\ Guard(d) \cap X = {}
      /\ Spares(NoSpares, 0) \cap X = {} /\ d.live = Guard(d) \cup Spares(NoSpares, 0) \cup X
  BY <1>0, <1>2, <1>3, <1>4
<1>6. Linked(d, Alone(d.head), 0, NoSpares, 0, X)
  BY ONLY <1>3, <1>5, BareIs
<1> QED BY <1>2, <1>6 DEF Consumed

(* Drop::drop. *)
LEMMA DropLinked ==
  ASSUME NEW m, NEW c, NEW n, NEW f, NEW k, NEW X, Linked(m, c, n, f, k, X),
         NEW d, d = drop(m)
  PROVE  Consumed(d, X)
<1>1. /\ m \in Map /\ Ring(m, c, n) /\ Chain(m, f, k) /\ n \in Nat /\ k \in Nat
      /\ m.next[Null] = Null /\ m.prev[Null] = Null
      /\ X \subseteq Addr /\ Guard(m) \subseteq Addr /\ Members(c, n) \subseteq Addr
      /\ Spares(f, k) \subseteq Addr
      /\ Guard(m) \cap Members(c, n) = {}
      /\ Guard(m) \cap Spares(f, k) = {} /\ Guard(m) \cap X = {}
      /\ Members(c, n) \cap Spares(f, k) = {} /\ Members(c, n) \cap X = {}
      /\ Spares(f, k) \cap X = {}
      /\ m.live = Guard(m) \cup Members(c, n) \cup Spares(f, k) \cup X
  BY LinkedFacts
<1>2. Null \in Node /\ Null \notin Addr /\ Addr \subseteq Node
  BY <1>1, MapFacts DEF Node
<1> DEFINE g == IF m.head = Null THEN m ELSE drop_empty_node(drop_entries(m), m.head)
           S == Guard(m) \cup Members(c, n)
           w == clear_free_list(g)
<1>3. d = [w EXCEPT !.index = Index!new, !.head = Null, !.present = FALSE]
  BY DEF drop
<1>4. /\ g \in Map /\ g.free = m.free /\ g.live = m.live \ S
      /\ \A q \in Node : g.prev[q] = IF q \in S THEN Null ELSE m.prev[q]
      /\ \A q \in Node : g.next[q] = IF q \in S THEN Null ELSE m.next[q]
  <2>1. CASE m.head = Null
    <3>1. S = {} /\ g = m
      BY <2>1, NoHead
    <3> HIDE DEF S, g
    <3> QED BY <1>1, <3>1
  <2>2. CASE m.head # Null
    <3> DEFINE u == Freed(m, Members(c, n))
    <3>1. g = Freed(u, {m.head})
      <4>1. ToSet(Until(m.next, m.next[m.head], m.head)) = Members(c, n)
        BY <2>2, RingIs
      <4> QED BY <2>2, <4>1 DEF drop_entries, drop_empty_node
    <3>2. u = Freed(m, Members(c, n))
      OBVIOUS
    <3> HIDE DEF u, g
    <3>3. /\ u \in Map /\ u.free = m.free /\ u.live = m.live \ Members(c, n)
          /\ \A q \in Node : u.prev[q] = IF q \in Members(c, n) THEN Null ELSE m.prev[q]
          /\ \A q \in Node : u.next[q] = IF q \in Members(c, n) THEN Null ELSE m.next[q]
      BY <1>1, <3>2, FreedIs
    <3>4. /\ g \in Map /\ g.free = u.free /\ g.live = u.live \ {m.head}
          /\ \A q \in Node : g.prev[q] = IF q \in {m.head} THEN Null ELSE u.prev[q]
          /\ \A q \in Node : g.next[q] = IF q \in {m.head} THEN Null ELSE u.next[q]
      BY <3>1, <3>3, FreedIs
    <3>5. Guard(m) = {m.head}
      BY <2>2 DEF Guard
    <3> QED BY <3>3, <3>4, <3>5
  <2> QED BY <2>1, <2>2
<1> HIDE DEF g
<1>5. Chain(g, f, k)
  <2>1. \A q \in Spares(f, k) : g.next[q] = m.next[q]
    BY <1>1, <1>2, <1>4
  <2> QED BY <1>1, <1>4, <2>1, ChainKept
<1>6. w = clear_free_list(g)
  OBVIOUS
<1> HIDE DEF w, S
<1>7. /\ w \in Map /\ w.free = Null /\ w.live = g.live \ Spares(f, k)
      /\ \A q \in Node : w.prev[q] = IF q \in Spares(f, k) THEN Null ELSE g.prev[q]
      /\ \A q \in Node : w.next[q] = IF q \in Spares(f, k) THEN Null ELSE g.next[q]
  BY <1>4, <1>5, <1>6, ClearFreeIs
<1>8. w.next[Null] = Null /\ w.prev[Null] = Null /\ w.live = X
  BY <1>1, <1>2, <1>4, <1>7 DEF S
<1>9. Consumed(d, w.live)
  BY <1>3, <1>7, <1>8, ConsumedIs
<1> QED BY <1>8, <1>9

(* into_iter frees the guard and the free list and leaves the entries to the iterator. *)
LEMMA IntoIterLinked ==
  ASSUME NEW m, NEW c, NEW n, NEW f, NEW k, NEW X, Linked(m, c, n, f, k, X),
         NEW Y, Y = X \cup Members(c, n), NEW d, d = IntoIterOf(m)
  PROVE  /\ Consumed(d, Y)
         /\ \A q \in Members(c, n) : /\ d.next[q] = m.next[q] /\ d.prev[q] = m.prev[q]
                                     /\ d.key[q] = m.key[q] /\ d.value[q] = m.value[q]
<1>1. /\ m \in Map /\ Ring(m, c, n) /\ Chain(m, f, k) /\ n \in Nat /\ k \in Nat
      /\ m.next[Null] = Null /\ m.prev[Null] = Null
      /\ X \subseteq Addr /\ Guard(m) \subseteq Addr /\ Members(c, n) \subseteq Addr
      /\ Spares(f, k) \subseteq Addr
      /\ Guard(m) \cap Members(c, n) = {}
      /\ Guard(m) \cap Spares(f, k) = {} /\ Guard(m) \cap X = {}
      /\ Members(c, n) \cap Spares(f, k) = {} /\ Members(c, n) \cap X = {}
      /\ Spares(f, k) \cap X = {}
      /\ m.live = Guard(m) \cup Members(c, n) \cup Spares(f, k) \cup X
  BY LinkedFacts
<1>2. Null \in Node /\ Null \notin Addr /\ Addr \subseteq Node
  BY <1>1, MapFacts DEF Node
<1> DEFINE g == IF m.head = Null THEN m ELSE drop_empty_node(m, m.head)
           S == Guard(m)
           w == clear_free_list(g)
<1>3. d = [w EXCEPT !.index = Index!new, !.head = Null, !.present = FALSE]
  BY DEF IntoIterOf
<1>4. /\ g \in Map /\ g.free = m.free /\ g.live = m.live \ S /\ Outside(g, m, S)
      /\ \A q \in Node : g.prev[q] = IF q \in S THEN Null ELSE m.prev[q]
      /\ \A q \in Node : g.next[q] = IF q \in S THEN Null ELSE m.next[q]
  <2>1. CASE m.head = Null
    <3>1. S = {} /\ g = m
      BY <2>1, NoHead
    <3> HIDE DEF S, g
    <3> QED BY <1>1, <3>1 DEF Outside
  <2>2. CASE m.head # Null
    <3>1. S = {m.head}
      BY <2>2 DEF Guard
    <3>2. g = Freed(m, S)
      BY <2>2, <3>1 DEF drop_empty_node
    <3> HIDE DEF S, g
    <3> QED BY <1>1, <3>2, FreedIs
  <2> QED BY <2>1, <2>2
<1> HIDE DEF g
<1>5. Chain(g, f, k)
  <2>1. \A q \in Spares(f, k) : g.next[q] = m.next[q]
    BY <1>1, <1>2, <1>4
  <2> QED BY <1>1, <1>4, <2>1, ChainKept
<1>6. w = clear_free_list(g)
  OBVIOUS
<1> HIDE DEF w, S
<1>7. /\ w \in Map /\ w.free = Null /\ w.live = g.live \ Spares(f, k) /\ Outside(w, g, Spares(f, k))
      /\ \A q \in Node : w.prev[q] = IF q \in Spares(f, k) THEN Null ELSE g.prev[q]
      /\ \A q \in Node : w.next[q] = IF q \in Spares(f, k) THEN Null ELSE g.next[q]
  BY <1>4, <1>5, <1>6, ClearFreeIs
<1>8. w.next[Null] = Null /\ w.prev[Null] = Null /\ w.live = Y /\ Y \in SUBSET Addr
  BY <1>1, <1>2, <1>4, <1>7 DEF S
<1>9. /\ Consumed(d, Y) /\ d.key = w.key /\ d.value = w.value /\ d.next = w.next /\ d.prev = w.prev
  <2>1. /\ Consumed(d, w.live) /\ d.key = w.key /\ d.value = w.value
        /\ d.next = w.next /\ d.prev = w.prev
    BY <1>3, <1>7, <1>8, ConsumedIs
  <2> QED BY <1>8, <2>1
<1>10. ASSUME NEW q \in Members(c, n)
       PROVE  /\ d.next[q] = m.next[q] /\ d.prev[q] = m.prev[q]
              /\ d.key[q] = m.key[q] /\ d.value[q] = m.value[q]
  <2>1. q \in Node /\ q \notin S /\ q \notin Spares(f, k)
    BY <1>1, <1>2 DEF S
  <2> QED BY <1>4, <1>7, <1>9, <2>1 DEF Outside
<1> QED BY <1>9, <1>10

(* drain puts the whole ring, reversed, before the free list. *)
LEMMA DrainLinked ==
  ASSUME NEW m, NEW c, NEW n, NEW f, NEW k, NEW X, Linked(m, c, n, f, k, X), n # 0,
         NEW d, d = DrainOf(m)
  PROVE  /\ Linked(d, Alone(m.head), 0, Spliced(c, n, f, k), n + k, X)
         /\ d.index = Index!new /\ d.present = m.present /\ d.head = m.head
         /\ d.key = m.key /\ d.value = m.value /\ d.live = m.live
         /\ \A i \in 0 .. n - 1 : Spliced(c, n, f, k)[i] = c[n - i]
         /\ \A i \in 0 .. n - 2 : d.prev[c[n - (i + 1)]] = c[n - i]
<1>1. /\ m \in Map /\ Ring(m, c, n) /\ Chain(m, f, k)
      /\ m.next[Null] = Null /\ m.prev[Null] = Null
      /\ X \subseteq Addr /\ Guard(m) \subseteq Addr /\ Members(c, n) \subseteq Addr
      /\ Spares(f, k) \subseteq Addr
      /\ Guard(m) \cap Members(c, n) = {}
      /\ Guard(m) \cap Spares(f, k) = {} /\ Guard(m) \cap X = {}
      /\ Members(c, n) \cap Spares(f, k) = {} /\ Members(c, n) \cap X = {}
      /\ Spares(f, k) \cap X = {}
      /\ m.live = Guard(m) \cup Members(c, n) \cup Spares(f, k) \cup X
  BY LinkedFacts
<1>2. /\ n \in Nat /\ c \in [0 .. n + 1 -> Node]
      /\ c[0] = m.head /\ c[n + 1] = m.head
      /\ \A j \in 0 .. n : m.prev[c[j]] = c[j + 1] /\ m.next[c[j + 1]] = c[j]
      /\ \A j \in 1 .. n : c[j] \in Addr /\ c[j] # Null /\ c[j] # m.head
      /\ \A j, l \in 1 .. n : c[j] = c[l] => j = l
      /\ \A j \in 0 .. n + 1 : c[j] \in Node
  BY <1>1, RingFacts
<1>3. /\ k \in Nat /\ f \in [0 .. k -> Node]
      /\ f[0] = m.free /\ f[k] = Null
      /\ \A j \in 0 .. k - 1 : f[j] \in Addr /\ f[j] # Null /\ m.next[f[j]] = f[j + 1]
      /\ \A j, l \in 0 .. k - 1 : f[j] = f[l] => j = l
  BY <1>1, ChainFacts
<1>4. /\ m.next \in [Node -> Node] /\ m.prev \in [Node -> Node] /\ Null \in Node /\ Null \notin Addr
      /\ m.head \in Node /\ m.free \in Node /\ Addr \subseteq Node
  BY <1>1, MapFacts DEF Node
<1>5. m.head # Null
  BY <1>1 DEF Ring
<1>6. /\ 1 \in 1 .. n /\ n \in 1 .. n /\ m.prev[m.head] = c[1] /\ m.next[m.head] = c[n]
      /\ c[1] \in Node /\ c[n] \in Node /\ c[1] # m.head /\ c[n] # m.head /\ c[1] # Null /\ c[n] # Null
  <2>1. 1 \in 1 .. n /\ n \in 1 .. n /\ 0 \in 0 .. n /\ n \in 0 .. n
    BY <1>2
  <2>2. m.prev[c[0]] = c[0 + 1] /\ m.next[c[n + 1]] = c[n]
    BY <1>2, <2>1
  <2> QED BY <1>2, <1>4, <2>1, <2>2
<1> DEFINE a == [m.next EXCEPT ![m.head] = m.head, ![c[1]] = m.free]
           b == [m.prev EXCEPT ![m.head] = m.head, ![c[n]] = Null]
           e == Spliced(c, n, f, k)
<1>7. d = [m EXCEPT !.index = Index!new, !.prev = b, !.next = a, !.free = c[n]]
  BY <1>6 DEF DrainOf
<1>8. /\ a \in [Node -> Node] /\ b \in [Node -> Node]
      /\ \A q \in Node : a[q] = IF q = c[1] THEN m.free ELSE IF q = m.head THEN m.head ELSE m.next[q]
      /\ \A q \in Node : b[q] = IF q = c[n] THEN Null ELSE IF q = m.head THEN m.head ELSE m.prev[q]
  BY <1>4, <1>6
<1> HIDE DEF a, b
<1>9. Index!new \in IndexMap
  BY NewIndexIs
<1>10. /\ d \in Map /\ d.index = Index!new /\ d.present = m.present /\ d.head = m.head /\ d.free = c[n]
       /\ d.key = m.key /\ d.value = m.value /\ d.live = m.live /\ d.next = a /\ d.prev = b
  BY ZenonT(60), <1>1, <1>6, <1>7, <1>8, <1>9 DEF Map, IndexMap
<1>11. /\ e \in [0 .. n + k -> Node]
       /\ \A i \in 0 .. n - 1 : e[i] = c[n - i] /\ n - i \in 1 .. n
       /\ \A i \in n .. n + k : e[i] = f[i - n] /\ i - n \in 0 .. k
  <2>1. \A i \in 0 .. n + k : (i < n => n - i \in 0 .. n + 1) /\ (~(i < n) => i - n \in 0 .. k)
    BY <1>2, <1>3
  <2>2. e \in [0 .. n + k -> Node]
    BY <1>2, <1>3, <2>1 DEF Spliced
  <2>3. ASSUME NEW i \in 0 .. n - 1 PROVE e[i] = c[n - i] /\ n - i \in 1 .. n
    BY <1>2, <1>3 DEF Spliced
  <2>4. ASSUME NEW i \in n .. n + k PROVE e[i] = f[i - n] /\ i - n \in 0 .. k
    BY <1>2, <1>3 DEF Spliced
  <2> QED BY <2>2, <2>3, <2>4
<1> HIDE DEF e
<1> DEFINE r == n + k
<1>22. r \in Nat /\ r = n + k
  BY <1>2, <1>3
<1>23. e \in [0 .. r -> Node] /\ \A i \in n .. r : e[i] = f[i - n] /\ i - n \in 0 .. k
  BY <1>11
<1> HIDE DEF r
<1>12. ASSUME NEW i \in 0 .. r - 1 PROVE e[i] # Null /\ d.next[e[i]] = e[i + 1]
  <2>1. CASE i < n - 1
    <3>1. i \in 0 .. n - 1 /\ i + 1 \in 0 .. n - 1 /\ n - (i + 1) \in 0 .. n /\ (n - (i + 1)) + 1 = n - i
      BY <1>2, <1>3, <1>22, <2>1
    <3>2. e[i] = c[n - i] /\ e[i + 1] = c[n - (i + 1)] /\ n - i \in 1 .. n
      BY <1>11, <1>22, <1>23, <3>1
    <3>3. m.next[c[n - i]] = c[n - (i + 1)]
      BY <1>2, <3>1
    <3>4. c[n - i] # c[1] /\ c[n - i] # m.head /\ c[n - i] \in Node /\ c[n - i] # Null
      <4>1. n - i # 1
        BY <1>2, <2>1
      <4> QED BY <1>2, <1>4, <1>6, <3>2, <4>1
    <3> QED BY <1>8, <1>10, <3>2, <3>3, <3>4
  <2>2. CASE i = n - 1
    <3>1. i \in 0 .. n - 1 /\ i + 1 \in n .. r /\ n - i = 1 /\ (i + 1) - n = 0
      BY <1>2, <1>3, <1>22, <2>2
    <3>2. e[i] = c[1] /\ e[i + 1] = f[0]
      BY <1>11, <1>22, <1>23, <3>1
    <3> QED BY <1>3, <1>6, <1>8, <1>10, <3>2
  <2>3. CASE i > n - 1
    <3>1. i \in n .. r /\ i + 1 \in n .. r /\ i - n \in 0 .. k - 1 /\ (i + 1) - n = (i - n) + 1
      BY <1>2, <1>3, <1>22, <2>3
    <3>2. e[i] = f[i - n] /\ e[i + 1] = f[(i - n) + 1]
      BY <1>11, <1>22, <1>23, <3>1
    <3>3. f[i - n] \in Spares(f, k)
      BY <3>1 DEF Spares
    <3>4. f[i - n] \in Node /\ f[i - n] # m.head /\ f[i - n] # c[1]
      <4>1. c[1] \in Members(c, n)
        BY <1>6 DEF Members
      <4>2. m.head \in Guard(m)
        BY <1>5 DEF Guard
      <4> QED BY <1>1, <1>4, <3>3, <4>1, <4>2
    <3> QED BY <1>3, <1>8, <1>10, <3>1, <3>2, <3>4
  <2> QED BY <1>2, <1>3, <1>22, <2>1, <2>2, <2>3
<1>13. ASSUME NEW i \in 0 .. r - 1, NEW j \in 0 .. r - 1, e[i] = e[j] PROVE i = j
  <2>1. \A u \in 0 .. r - 1 :
           \/ u \in 0 .. n - 1 /\ e[u] = c[n - u] /\ n - u \in 1 .. n
           \/ u \in n .. r - 1 /\ e[u] = f[u - n] /\ u - n \in 0 .. k - 1
    <3> SUFFICES ASSUME NEW u \in 0 .. r - 1
                 PROVE  \/ u \in 0 .. n - 1 /\ e[u] = c[n - u] /\ n - u \in 1 .. n
                        \/ u \in n .. r - 1 /\ e[u] = f[u - n] /\ u - n \in 0 .. k - 1
      OBVIOUS
    <3>1. u \in 0 .. n - 1 \/ (u \in n .. r - 1 /\ u \in n .. r /\ u - n \in 0 .. k - 1)
      BY <1>2, <1>3, <1>22
    <3> QED BY <1>11, <1>22, <1>23, <3>1
  <2>2. \A u \in 1 .. n, v \in 0 .. k - 1 : c[u] # f[v]
    BY <1>1 DEF Members, Spares
  <2>3. CASE i \in 0 .. n - 1 /\ e[i] = c[n - i] /\ n - i \in 1 .. n
    <3>1. j \in 0 .. n - 1 /\ e[j] = c[n - j] /\ n - j \in 1 .. n
      BY <1>13, <2>1, <2>2, <2>3
    <3>2. n - i = n - j
      BY <1>2, <1>13, <2>3, <3>1
    <3> QED BY <1>2, <2>3, <3>1, <3>2
  <2>4. CASE i \in n .. r - 1 /\ e[i] = f[i - n] /\ i - n \in 0 .. k - 1
    <3>1. j \in n .. r - 1 /\ e[j] = f[j - n] /\ j - n \in 0 .. k - 1
      BY <1>13, <2>1, <2>2, <2>4
    <3>2. i - n = j - n
      BY ZenonT(60), <1>3, <1>13, <2>4, <3>1
    <3> QED BY <1>2, <1>3, <1>22, <2>4, <3>1, <3>2
  <2> QED BY <2>1, <2>3, <2>4
<1>14. Chain(d, e, r)
  <2>1. r \in Nat /\ 0 \in 0 .. n - 1 /\ r \in n .. r /\ (r) - n = k /\ n - 0 = n
    BY <1>2, <1>3, <1>22
  <2>2. e[0] = c[n] /\ e[r] = Null
    BY <1>3, <1>11, <1>22, <1>23, <2>1
  <2> QED BY <1>10, <1>12, <1>13, <1>22, <1>23, <2>1, <2>2 DEF Chain
<1>15. Spares(e, r) = Members(c, n) \cup Spares(f, k)
  <2>1. ASSUME NEW i \in 0 .. r - 1 PROVE e[i] \in Members(c, n) \cup Spares(f, k)
    <3>1. i \in 0 .. n - 1 \/ (i \in n .. r /\ i - n \in 0 .. k - 1)
      BY <1>2, <1>3, <1>22
    <3> QED BY <1>11, <1>22, <1>23, <3>1 DEF Members, Spares
  <2>2. ASSUME NEW i \in 1 .. n PROVE \E j \in 0 .. r - 1 : e[j] = c[i]
    <3>1. n - i \in 0 .. n - 1 /\ n - i \in 0 .. r - 1 /\ n - (n - i) = i
      BY <1>2, <1>3, <1>22
    <3> QED BY <1>11, <1>22, <1>23, <3>1
  <2>3. ASSUME NEW i \in 0 .. k - 1 PROVE \E j \in 0 .. r - 1 : e[j] = f[i]
    <3>1. n + i \in n .. r /\ n + i \in 0 .. r - 1 /\ (n + i) - n = i
      BY <1>2, <1>3, <1>22
    <3> QED BY <1>11, <1>22, <1>23, <3>1
  <2> SUFFICES ASSUME NEW x PROVE x \in Spares(e, r) <=> x \in Members(c, n) \cup Spares(f, k)
    OBVIOUS
  <2>4. x \in Spares(e, r) => x \in Members(c, n) \cup Spares(f, k)
    <3> SUFFICES ASSUME x \in Spares(e, r) PROVE x \in Members(c, n) \cup Spares(f, k)
      OBVIOUS
    <3>1. PICK i \in 0 .. r - 1 : x = e[i]
      BY DEF Spares
    <3> QED BY <2>1, <3>1
  <2>5. x \in Members(c, n) => x \in Spares(e, r)
    BY <2>2 DEF Members, Spares
  <2>6. x \in Spares(f, k) => x \in Spares(e, r)
    BY <2>3 DEF Spares
  <2> QED BY <2>4, <2>5, <2>6
<1>16. Guard(d) = Guard(m) /\ Guard(m) = {m.head}
  BY <1>5, <1>10 DEF Guard
<1>17. /\ d.next[Null] = Null /\ d.prev[Null] = Null
       /\ (d.head # Null => d.next[d.head] = d.head /\ d.prev[d.head] = d.head)
  BY <1>1, <1>4, <1>5, <1>6, <1>8, <1>10
<1>18. /\ d \in Map /\ d.free = d.free /\ (\A q \in Spares(e, r) : d.next[q] = d.next[q])
       /\ X \in SUBSET Addr /\ Guard(d) \cap Spares(e, r) = {} /\ Guard(d) \cap X = {}
       /\ Spares(e, r) \cap X = {} /\ d.live = Guard(d) \cup Spares(e, r) \cup X
  BY <1>1, <1>10, <1>15, <1>16
<1>19. Linked(d, Alone(d.head), 0, e, r, X)
  BY ONLY <1>14, <1>17, <1>18, BareIs
<1>20. ASSUME NEW i \in 0 .. n - 2 PROVE d.prev[c[n - (i + 1)]] = c[n - i]
  <2>1. n - (i + 1) \in 1 .. n /\ n - (i + 1) \in 0 .. n /\ (n - (i + 1)) + 1 = n - i /\ n - (i + 1) # n
    BY <1>2
  <2>2. c[n - (i + 1)] # c[n] /\ c[n - (i + 1)] # m.head /\ c[n - (i + 1)] \in Node
    BY <1>2, <1>4, <1>6, <2>1
  <2>3. m.prev[c[n - (i + 1)]] = c[n - i]
    BY <1>2, <2>1
  <2> QED BY <1>8, <1>10, <2>2, <2>3
<1>21. \A i \in 0 .. n - 1 : e[i] = c[n - i]
  BY <1>11
<1> HIDE DEF Map
<1> QED BY <1>10, <1>19, <1>20, <1>21 DEF e, r

-----------------------------------------------------------------------------
(* A new index leaves the memory as it is. *)
LEMMA IndexOnly ==
  ASSUME NEW m, NEW c, NEW n, NEW f, NEW k, NEW X, Linked(m, c, n, f, k, X),
         NEW ix \in IndexMap, NEW d, d = [m EXCEPT !.index = ix]
  PROVE  /\ Linked(d, c, n, f, k, X) /\ d.index = ix /\ d.present = m.present /\ d.head = m.head
         /\ d.free = m.free /\ d.live = m.live /\ d.key = m.key /\ d.value = m.value
         /\ d.next = m.next /\ d.prev = m.prev
<1>1. m \in Map
  BY LinkedFacts
<1>2. /\ d \in Map /\ d.index = ix /\ d.present = m.present /\ d.head = m.head
      /\ d.free = m.free /\ d.live = m.live /\ d.key = m.key /\ d.value = m.value
      /\ d.next = m.next /\ d.prev = m.prev
  BY <1>1 DEF Map, IndexMap
<1>3. Guard(d) = Guard(m)
  BY <1>2 DEF Guard
<1>4. Ring(d, c, n) /\ Chain(d, f, k)
  BY <1>2 DEF Linked, Ring, Chain
<1> HIDE DEF Map
<1>5. Linked(d, c, n, f, k, X)
  BY <1>2, <1>3, <1>4 DEF Linked
<1> QED BY <1>2, <1>5

(* The index tells the same of nodes that keep their keys. *)
LEMMA TellsKept ==
  ASSUME NEW m, NEW S, NEW d, Tells(m, S),
         \A j \in Nat : Index!get(d.index, j) = Index!get(m.index, j),
         \A p \in S : d.key[p] = m.key[p] /\ d.value[p] \in Values
  PROVE  Tells(d, S)
<1>1. Keys \subseteq Nat
  BY LinkedVecMapAssumption
<1> QED BY <1>1 DEF Tells

(* The index after a node was entered under a vacant key. *)
LEMMA TellsGrown ==
  ASSUME NEW m, NEW S, NEW d, Tells(m, S), NEW x \in Keys, NEW q, q \notin S,
         Index!get(m.index, x) = Null,
         \A j \in Nat : Index!get(d.index, j) = IF j = x THEN q ELSE Index!get(m.index, j),
         d.key[q] = x, d.value[q] \in Values,
         \A p \in S : d.key[p] = m.key[p] /\ d.value[p] = m.value[p],
         Null \notin S
  PROVE  Tells(d, S \cup {q})
<1>1. x \in Nat /\ Keys \subseteq Nat
  BY LinkedVecMapAssumption
<1>2. ASSUME NEW p \in S \cup {q}
      PROVE  d.key[p] \in Keys /\ d.value[p] \in Values /\ Index!get(d.index, d.key[p]) = p
  <2>1. CASE p = q
    BY <1>1, <2>1
  <2>2. CASE p \in S
    <3>1. m.key[p] \in Keys /\ m.value[p] \in Values /\ Index!get(m.index, m.key[p]) = p /\ p # Null
      BY <2>2 DEF Tells
    <3> QED BY <1>1, <2>2, <3>1
  <2> QED BY <2>1, <2>2
<1>3. ASSUME NEW j \in Nat, Index!get(d.index, j) # Null
      PROVE  Index!get(d.index, j) \in S \cup {q} /\ d.key[Index!get(d.index, j)] = j
  <2>1. CASE j = x
    BY <2>1
  <2>2. CASE j # x
    <3>1. Index!get(d.index, j) = Index!get(m.index, j)
      BY <2>2
    <3>2. Index!get(m.index, j) \in S /\ m.key[Index!get(m.index, j)] = j
      BY <1>3, <3>1 DEF Tells
    <3> QED BY <3>1, <3>2
  <2> QED BY <2>1, <2>2
<1> QED BY <1>2, <1>3 DEF Tells

(* The index after a key was removed. *)
LEMMA TellsCut ==
  ASSUME NEW m, NEW S, NEW d, Tells(m, S), NEW p \in S,
         \A j \in Nat : Index!get(d.index, j) = IF j = m.key[p] THEN Null ELSE Index!get(m.index, j),
         \A q \in S \ {p} : d.key[q] = m.key[q] /\ d.value[q] = m.value[q]
  PROVE  Tells(d, S \ {p})
<1>1. Keys \subseteq Nat
  BY LinkedVecMapAssumption
<1>2. m.key[p] \in Nat /\ Index!get(m.index, m.key[p]) = p
  BY <1>1 DEF Tells
<1>3. ASSUME NEW q \in S \ {p}
      PROVE  d.key[q] \in Keys /\ d.value[q] \in Values /\ Index!get(d.index, d.key[q]) = q
  <2>1. m.key[q] \in Keys /\ m.value[q] \in Values /\ Index!get(m.index, m.key[q]) = q
    BY DEF Tells
  <2>2. m.key[q] # m.key[p]
    BY <1>2, <2>1
  <2> QED BY <1>1, <2>1, <2>2
<1>4. ASSUME NEW j \in Nat, Index!get(d.index, j) # Null
      PROVE  Index!get(d.index, j) \in S \ {p} /\ d.key[Index!get(d.index, j)] = j
  <2>1. j # m.key[p] /\ Index!get(d.index, j) = Index!get(m.index, j)
    BY <1>4
  <2>2. Index!get(m.index, j) \in S /\ m.key[Index!get(m.index, j)] = j
    BY <1>4, <2>1 DEF Tells
  <2>3. Index!get(m.index, j) # p
    BY <2>1, <2>2
  <2> QED BY <2>1, <2>2, <2>3
<1> QED BY <1>3, <1>4 DEF Tells

(* The number of addresses the allocator can still give. *)
LEMMA FreeIs ==
  ASSUME NEW m \in Map
  PROVE  /\ Free(m) \in Nat /\ Spare(m) \in Int
         /\ Free(m) # 0 => m.live # Addr
         /\ \A p \in Addr \ m.live : Free(m) >= 1
         /\ \A p \in Addr \ m.live, d \in Map : d.live = m.live \cup {p} => Free(d) = Free(m) - 1
<1>1. IsFiniteSet(Addr \ m.live)
  BY LinkedVecMapAssumption, FS_Subset
<1>2. Free(m) \in Nat
  BY <1>1, FS_CardinalityType DEF Free
<1>3. Free(m) # 0 => m.live # Addr
  BY FS_EmptySet DEF Free
<1>4. ASSUME NEW p \in Addr \ m.live, NEW d \in Map, d.live = m.live \cup {p}
      PROVE  Free(d) = Free(m) - 1
  <2>1. Addr \ d.live = (Addr \ m.live) \ {p}
    BY <1>4
  <2> DEFINE T == Addr \ m.live
  <2>2. Cardinality(T \ {p}) = Cardinality(T) - 1
    BY <1>1, FS_RemoveElement
  <2> QED BY <2>1, <2>2 DEF Free
<1>5. ASSUME NEW p \in Addr \ m.live PROVE Free(m) >= 1
  <2>1. Free(m) # 0
    BY <1>1, FS_EmptySet DEF Free
  <2> QED BY <1>2, <2>1
<1> QED BY <1>2, <1>3, <1>4, <1>5 DEF Spare

(* The allocator gives an address that is not in use. *)
LEMMA VacantIs ==
  ASSUME NEW m \in Map, NEW x \in Keys \cup {NoKey}, Free(m) # 0
  PROVE  Vacant(m.live, x) \in Addr /\ Vacant(m.live, x) \notin m.live
<1>1. m.live \in SUBSET Addr /\ m.live # Addr
  BY FreeIs, MapFacts
<1> QED BY <1>1, LinkedVecMapAssumption

(* ensure_guard_node makes a guard when there is none and changes no entry. *)
LEMMA GuardIs ==
  ASSUME NEW m, NEW c, NEW n, NEW f, NEW k, NEW X, Linked(m, c, n, f, k, X),
         Spare(m) >= 0, NEW d, d = ensure_guard_node(m)
  PROVE  /\ Linked(d, RingOf(m, c, d), n, f, k, X) /\ d.head # Null
         /\ d.index = m.index /\ d.present = m.present /\ d.free = m.free
         /\ Free(d) = Spare(m)
         /\ \A q \in m.live : d.key[q] = m.key[q] /\ d.value[q] = m.value[q]
         /\ m.live \subseteq d.live /\ (m.head # Null => d = m)
         /\ \A q \in Guard(d) : q \notin m.live \/ q \in Guard(m)
<1>1. m \in Map /\ m.live \subseteq Addr /\ Null \notin Addr
  <2>1. m \in Map
    BY LinkedFacts
  <2> QED BY <2>1, MapFacts
<1>2. CASE m.head # Null
  <2>1. d = m
    BY <1>2 DEF ensure_guard_node
  <2>2. Free(m) \in Nat
    BY <1>1, FreeIs
  <2> QED BY <1>2, <2>1, <2>2 DEF RingOf, Spare
<1>3. CASE m.head = Null
  <2> DEFINE p == Vacant(m.live, NoKey)
  <2>1. Free(m) \in Nat /\ Spare(m) = Free(m) - 1 /\ Free(m) # 0
    BY <1>1, <1>3, FreeIs DEF Spare
  <2>2. p \in Addr /\ p \notin m.live
    BY <1>1, <2>1, VacantIs
  <2>3. d = [Written(m, p, NoKey, Null) EXCEPT !.head = p, !.next[p] = p, !.prev[p] = p]
    BY <1>3 DEF ensure_guard_node
  <2> HIDE DEF p
  <2>4. /\ n = 0 /\ Linked(d, Alone(p), 0, f, k, X) /\ Apart(d, m, p)
        /\ d.head = p /\ d.free = m.free /\ d.live = m.live \cup {p}
    <3>1. GuardAt(m, c, n, f, k, X, p, d)
      BY <1>3, <2>2, <2>3 DEF GuardAt
    <3> QED BY <3>1, GuardLinked
  <2>5. d \in Map
    BY <2>4, LinkedFacts
  <2>6. Free(d) = Free(m) - 1
    BY <1>1, <2>2, <2>4, <2>5, FreeIs
  <2>7. \A q \in m.live : d.key[q] = m.key[q] /\ d.value[q] = m.value[q]
    <3>1. \A q \in m.live : q \in Node \ {p}
      BY <1>1, <2>2 DEF Node
    <3> QED BY <2>4, <3>1 DEF Apart, Outside
  <2>8. p # Null
    BY <1>1, <2>2
  <2>9. Guard(d) = {p}
    BY <2>4, <2>8 DEF Guard
  <2> QED BY <1>3, <2>1, <2>2, <2>4, <2>6, <2>7, <2>8, <2>9 DEF RingOf, Apart, Outside
<1> QED BY <1>2, <1>3

(* A node for a new entry. *)
LEMMA RecycledIs ==
  ASSUME NEW m, NEW c, NEW n, NEW f, NEW k, NEW X, Linked(m, c, n, f, k, X),
         Free(m) >= 1, NEW x \in Keys, NEW v \in Values, NEW r, r = Recycled(m, x, v)
  PROVE  /\ \E f1, k1 : Linked(r.map, c, n, f1, k1, Plus(X, r.node))
         /\ r.node \in Addr /\ r.node \notin Guard(m) \cup Members(c, n) \cup X
         /\ Apart(r.map, m, r.node) /\ r.map.key[r.node] = x /\ r.map.value[r.node] = v
         /\ r.map.head = m.head /\ Free(r.map) >= Free(m) - 1
         /\ m.live \subseteq r.map.live
         /\ m.free = Null => r.map.free = Null /\ r.node \notin m.live
<1>1. /\ m \in Map /\ X \subseteq Addr /\ Spares(f, k) \subseteq Addr
      /\ Guard(m) \cap Spares(f, k) = {} /\ Members(c, n) \cap Spares(f, k) = {}
      /\ Spares(f, k) \cap X = {}
      /\ m.live = Guard(m) \cup Members(c, n) \cup Spares(f, k) \cup X
      /\ m.live \ X = Guard(m) \cup Members(c, n) \cup Spares(f, k)
  BY LinkedFacts
<1>2. Free(m) \in Nat
  BY <1>1, FreeIs
<1>3. x \in Keys \cup {NoKey} /\ v \in Values \cup {Null}
  OBVIOUS
<1>4. CASE m.free = Null
  <2> DEFINE q == Vacant(m.live, x)
             d == Written(m, q, x, v)
  <2>1. r.map = d /\ r.node = q
    BY <1>4 DEF Recycled
  <2>2. q \in Addr /\ q \notin m.live
    BY <1>1, <1>2, <1>3, VacantIs
  <2> HIDE DEF q
  <2>3. d = Written(m, q, x, v) /\ q \notin m.live \ X
    BY <2>2
  <2> HIDE DEF d
  <2>4. /\ Linked(d, c, n, f, k, Plus(X, q)) /\ WrittenOver(d, m, q, x, v) /\ d.free = m.free
        /\ d.live = m.live \cup {q}
    <3>1. WrittenAt(m, c, n, f, k, X, q, x, v, d)
      BY <1>3, <2>2, <2>3 DEF WrittenAt
    <3> QED BY <3>1, WrittenLinked
  <2>5. d \in Map
    BY <2>4, LinkedFacts
  <2>6. Free(d) = Free(m) - 1
    BY <1>1, <2>2, <2>4, <2>5, FreeIs
  <2>7. q \notin Guard(m) \cup Members(c, n) \cup X
    BY <1>1, <2>2
  <2>8. Apart(d, m, q) /\ d.key[q] = x /\ d.value[q] = v /\ d.head = m.head
    BY <2>4 DEF WrittenOver, Outside, Apart, Alike
  <2> QED BY <1>2, <1>4, <2>1, <2>2, <2>4, <2>6, <2>7, <2>8
<1>5. CASE m.free # Null
  <2> DEFINE q == m.free
             g == [m EXCEPT !.free = m.next[m.free]]
             d == Written(g, q, x, v)
  <2>1. r.map = d /\ r.node = q
    BY <1>5 DEF Recycled
  <2>2. g = [m EXCEPT !.free = m.next[m.free]]
    OBVIOUS
  <2> HIDE DEF g
  <2>3. /\ Linked(g, c, n, Rest(f, k), k - 1, Plus(X, q))
        /\ q \in Addr /\ q \in Spares(f, k)
        /\ Alike(g, m) /\ g.head = m.head /\ g.live = m.live
    BY <1>5, <2>2, TakeLinked
  <2> HIDE DEF q
  <2>4. d = Written(g, q, x, v) /\ q \notin g.live \ Plus(X, q)
    BY DEF Plus
  <2> HIDE DEF d
  <2> DEFINE Y == Plus(X, q)
  <2>5. Y = Plus(X, q) /\ Plus(Y, q) = Plus(X, q)
    BY DEF Plus
  <2> HIDE DEF Y
  <2>6. Linked(g, c, n, Rest(f, k), k - 1, Y) /\ q \notin g.live \ Y
    BY <2>3, <2>4, <2>5
  <2>13. PICK f1, k1 : Linked(g, c, n, f1, k1, Y)
    BY <2>6
  <2>7. /\ Linked(d, c, n, f1, k1, Plus(Y, q)) /\ WrittenOver(d, g, q, x, v)
        /\ d.live = g.live \cup {q}
    <3>1. d = Written(g, q, x, v) /\ q \in Addr
      BY <2>3, <2>4
    <3>2. WrittenAt(g, c, n, f1, k1, Y, q, x, v, d)
      BY <1>3, <2>6, <2>13, <3>1 DEF WrittenAt
    <3> QED BY <3>2, WrittenLinked
  <2>8. d.live = m.live
    BY <1>1, <2>3, <2>7
  <2>9. Free(d) = Free(m)
    BY <2>8 DEF Free
  <2>10. q \notin Guard(m) \cup Members(c, n) \cup X
    BY <1>1, <2>3
  <2>11. Apart(d, m, q) /\ d.key[q] = x /\ d.value[q] = v /\ d.head = m.head
    BY <2>3, <2>7 DEF WrittenOver, Outside, Apart, Alike
  <2>12. \E f2, k2 : Linked(d, c, n, f2, k2, Plus(X, q))
    BY <2>5, <2>7
  <2> QED BY <1>2, <1>5, <2>1, <2>3, <2>8, <2>9, <2>10, <2>11, <2>12
<1> QED BY <1>4, <1>5

-----------------------------------------------------------------------------
(* A ring with its i-th entry moved to the back. *)
LEMMA MovedIs ==
  ASSUME NEW n \in Nat, NEW c \in [0 .. n + 1 -> Node], NEW i \in 1 .. n,
         \A a, b \in 1 .. n : c[a] = c[b] => a = b
  PROVE  /\ Members(Moved(c, n, i), n) = Members(c, n)
         /\ \A j \in 1 .. n : Moved(c, n, i)[j] = IF j < i THEN c[j] ELSE IF j < n THEN c[j + 1] ELSE c[i]
<1> DEFINE e == Cut(c, n, i)
           r == n - 1
           p == c[i]
<1>1. r \in Nat /\ r + 1 = n /\ r + 2 = n + 1
  OBVIOUS
<1>2. Members(e, r) = Members(c, n) \ {p}
  BY CutMembers
<1>3. p \in Members(c, n)
  BY DEF Members
<1>4. \A j \in 0 .. n : e[j] = IF j < i THEN c[j] ELSE c[j + 1]
  BY DEF Cut
<1> HIDE DEF e, r, p
<1>5. Members(Grown(e, r, p), r + 1) = Members(e, r) \cup {p}
  BY <1>1, GrownMembers
<1>6. Moved(c, n, i) = Grown(e, r, p)
  BY DEF Moved, e, r, p
<1>7. Members(Grown(e, r, p), n) = Members(e, r) \cup {p}
  BY <1>1, <1>5
<1>8. Members(Moved(c, n, i), n) = Members(c, n)
  BY <1>2, <1>3, <1>6, <1>7
<1>9. \A j \in 1 .. n : Grown(e, r, p)[j] = IF j <= r THEN e[j] ELSE p
  BY <1>1 DEF Grown
<1>10. ASSUME NEW j \in 1 .. n
       PROVE  Moved(c, n, i)[j] = IF j < i THEN c[j] ELSE IF j < n THEN c[j + 1] ELSE c[i]
  <2>1. j \in 0 .. n /\ (j <= r <=> j < n) /\ (j < i => j < n)
    BY <1>1
  <2>2. Moved(c, n, i)[j] = IF j < n THEN e[j] ELSE p
    BY <1>6, <1>9, <2>1
  <2>3. e[j] = IF j < i THEN c[j] ELSE c[j + 1]
    BY <1>4, <2>1
  <2>4. CASE j < i
    BY <2>1, <2>2, <2>3, <2>4
  <2>5. CASE ~(j < i)
    BY <2>2, <2>3, <2>5 DEF p
  <2> QED BY <2>4, <2>5
<1> QED BY <1>8, <1>10

(* get_refresh moves a node to the back of the ring. *)
LEMMA RefreshedIs ==
  ASSUME NEW m, NEW c, NEW n, NEW f, NEW k, NEW X, Linked(m, c, n, f, k, X),
         NEW i \in 1 .. n, NEW d, d = Refreshed(m, c[i])
  PROVE  /\ Linked(d, Moved(c, n, i), n, f, k, X) /\ Beside(d, m)
         /\ Members(Moved(c, n, i), n) = Members(c, n)
<1> DEFINE p == c[i]
           g == detach(m, p)
           Y == Plus(X, p)
           e == Cut(c, n, i)
           r == n - 1
<1>1. /\ n \in Nat /\ c \in [0 .. n + 1 -> Node] /\ p \in Addr /\ m.head # Null
      /\ \A a, b \in 1 .. n : c[a] = c[b] => a = b
  <2>1. Ring(m, c, n) /\ m \in Map
    BY LinkedFacts
  <2>2. n # 0
    <3>1. n \in Nat
      BY <2>1, RingFacts
    <3> QED BY <3>1
  <2> QED BY <2>1, <2>2, RingFacts DEF Ring
<1>2. p \in Members(c, n) /\ p \notin X
  <2>1. p \in Members(c, n)
    BY DEF Members
  <2> QED BY <2>1, LinkedFacts
<1>3. g = detach(m, c[i]) /\ d = attach(g, p) /\ r + 1 = n
  BY <1>1 DEF Refreshed
<1> HIDE DEF g
<1>4. Linked(g, e, r, f, k, Y) /\ Beside(g, m)
  BY <1>3, DetachIs
<1>5. p \in Y /\ g.head # Null /\ Minus(Y, p) = X
  BY <1>1, <1>2, <1>4 DEF Beside, Plus, Minus
<1>6. Moved(c, n, i) = Grown(e, r, p)
  BY DEF Moved
<1> HIDE DEF p, Y, e, r
<1>7. Linked(d, Grown(e, r, p), r + 1, f, k, Minus(Y, p)) /\ Beside(d, g)
  BY <1>3, <1>4, <1>5, AttachIs
<1>8. Linked(d, Grown(e, r, p), n, f, k, X)
  BY <1>3, <1>5, <1>7
<1>9. Beside(d, m)
  BY <1>4, <1>7 DEF Beside
<1> QED BY <1>1, <1>6, <1>8, <1>9, MovedIs

(* Writing the value of a node moves nothing. *)
LEMMA ValueOnly ==
  ASSUME NEW m, NEW c, NEW n, NEW f, NEW k, NEW X, Linked(m, c, n, f, k, X),
         NEW p, NEW v, NEW d, Wrote(m, p, v, d)
  PROVE  /\ Linked(d, c, n, f, k, X) /\ d.index = m.index /\ d.present = m.present /\ d.head = m.head
         /\ d.free = m.free /\ d.live = m.live /\ d.key = m.key
         /\ d.next = m.next /\ d.prev = m.prev
         /\ d.value[p] = v /\ \A q \in Node : q # p => d.value[q] = m.value[q]
<1>0. p \in Node /\ v \in Values /\ d = [m EXCEPT !.value[p] = v]
  BY DEF Wrote
<1>1. m \in Map /\ m.value \in [Node -> Values \cup {Null}]
  BY LinkedFacts, MapFacts
<1> DEFINE t == [m.value EXCEPT ![p] = v]
<1>2. t \in [Node -> Values \cup {Null}] /\ t[p] = v /\ \A q \in Node : q # p => t[q] = m.value[q]
  BY <1>0, <1>1
<1>3. d = [m EXCEPT !.value = t]
  BY <1>0
<1> HIDE DEF t
<1>4. /\ d \in Map /\ d.index = m.index /\ d.present = m.present /\ d.head = m.head
      /\ d.free = m.free /\ d.live = m.live /\ d.key = m.key /\ d.value = t
      /\ d.next = m.next /\ d.prev = m.prev
  BY <1>1, <1>2, <1>3 DEF Map
<1>5. Guard(d) = Guard(m)
  BY <1>4 DEF Guard
<1>6. Ring(d, c, n) /\ Chain(d, f, k)
  <2>1. Ring(m, c, n) /\ Chain(m, f, k)
    BY DEF Linked
  <2>2. d.head = m.head /\ d.free = m.free /\ d.next = m.next /\ d.prev = m.prev
    BY <1>4
  <2>3. Ring(d, c, n)
    BY ONLY ZenonT(60), <2>1, <2>2 DEF Ring
  <2>4. Chain(d, f, k)
    BY ONLY ZenonT(60), <2>1, <2>2 DEF Chain
  <2> QED BY <2>3, <2>4
<1> HIDE DEF Map
<1>7. Linked(d, c, n, f, k, X)
  BY <1>4, <1>5, <1>6 DEF Linked
<1> QED BY <1>2, <1>4, <1>7

(* insert under a key in use: the value is replaced and the node moves to the back. *)
LEMMA RewrittenIs ==
  ASSUME NEW m, NEW c, NEW n, NEW f, NEW k, NEW X, NEW i, NEW v, NEW d,
         RewrittenAt(m, c, n, f, k, X, i, v, d)
  PROVE  /\ Linked(d, Moved(c, n, i), n, f, k, X) /\ d.index = m.index
         /\ Members(Moved(c, n, i), n) = Members(c, n)
         /\ Tells(d, Members(c, n))
         /\ d.key = m.key /\ d.value[c[i]] = v /\ d.present = m.present /\ d.head = m.head
         /\ d.live = m.live /\ d.free = m.free
         /\ \A q \in Node : q # c[i] => d.value[q] = m.value[q]
<1>0. /\ Linked(m, c, n, f, k, X) /\ n = m.index.n /\ Tells(m, Members(c, n)) /\ i \in 1 .. n /\ v \in Values
      /\ d = Refreshed([ensure_guard_node(m) EXCEPT !.value[c[i]] = v], c[i])
  BY DEF RewrittenAt
<1> USE <1>0
<1> DEFINE g == [m EXCEPT !.value[c[i]] = v]
<1>1. m.head # Null /\ c[i] \in Node /\ Members(c, n) \subseteq Node
  <2>1. Ring(m, c, n) /\ m \in Map /\ Members(c, n) \subseteq Addr
    BY LinkedFacts
  <2>2. n \in Nat /\ c[i] \in Addr
    BY <2>1, RingFacts
  <2> QED BY <2>1, <2>2 DEF Ring, Node
<1>2. d = Refreshed(g, c[i]) /\ g = [m EXCEPT !.value[c[i]] = v]
  BY <1>1 DEF ensure_guard_node
<1> HIDE DEF g
<1>3. /\ Linked(g, c, n, f, k, X) /\ g.index = m.index /\ g.present = m.present /\ g.head = m.head
      /\ g.key = m.key /\ g.live = m.live /\ g.free = m.free
      /\ g.value[c[i]] = v /\ \A q \in Node : q # c[i] => g.value[q] = m.value[q]
  <2> DEFINE p == c[i]
  <2>1. Wrote(m, p, v, g)
    BY <1>1, <1>2 DEF Wrote
  <2> HIDE DEF p
  <2>2. /\ Linked(g, c, n, f, k, X) /\ g.index = m.index /\ g.present = m.present /\ g.head = m.head
        /\ g.key = m.key /\ g.live = m.live /\ g.free = m.free
        /\ g.value[p] = v /\ \A q \in Node : q # p => g.value[q] = m.value[q]
    BY <2>1, ValueOnly
  <2> QED BY <2>2 DEF p
<1>4. /\ Linked(d, Moved(c, n, i), n, f, k, X) /\ Beside(d, g)
      /\ Members(Moved(c, n, i), n) = Members(c, n)
  BY <1>2, <1>3, RefreshedIs
<1>5. \A p \in Members(c, n) : d.key[p] = m.key[p] /\ d.value[p] \in Values
  BY <1>1, <1>3, <1>4 DEF Beside, Tells
<1>6. \A j \in Nat : Index!get(d.index, j) = Index!get(m.index, j)
  BY <1>3, <1>4 DEF Beside
<1>7. Tells(d, Members(c, n))
  BY <1>5, <1>6, TellsKept
<1> QED BY <1>3, <1>4, <1>7 DEF Beside

-----------------------------------------------------------------------------
(* insert and VacantEntry::insert under a new key: a recycled or new node  *)
(* at the back of the ring and in the index.                               *)
LEMMA AddedIs ==
  ASSUME NEW m, NEW c, NEW n, NEW f, NEW k, NEW X, Linked(m, c, n, f, k, X), n = m.index.n,
         Tells(m, Members(c, n)), NEW x \in Keys, NEW v \in Values,
         Index!get(m.index, x) = Null, Spare(m) >= 1,
         NEW d, d = Indexed(m, x, v) \/ d = Attached(m, x, v)
  PROVE  \E e : Added(m, c, n, X, x, v, d, e)
<1> DEFINE g == ensure_guard_node(m)
           b == RingOf(m, c, g)
           r == Recycled(g, x, v)
           q == r.node
           w == r.map
<1>1. /\ m \in Map /\ n \in Nat /\ m.index \in IndexMap /\ m.live \subseteq Addr /\ Null \notin Addr
      /\ Members(c, n) \subseteq m.live /\ Members(c, n) \cap X = {}
  <2>1. /\ m \in Map /\ n \in Nat /\ Members(c, n) \cap X = {}
        /\ m.live = Guard(m) \cup Members(c, n) \cup Spares(f, k) \cup X
    BY LinkedFacts
  <2> QED BY <2>1, MapFacts
<1>2. g = ensure_guard_node(m) /\ Spare(m) >= 0 /\ Spare(m) \in Int
  BY <1>1, FreeIs
<1> HIDE DEF g
<1>3. /\ Linked(g, b, n, f, k, X) /\ g.head # Null
      /\ g.index = m.index /\ g.present = m.present /\ g.free = m.free
      /\ Free(g) = Spare(m)
      /\ \A p \in m.live : g.key[p] = m.key[p] /\ g.value[p] = m.value[p]
  BY <1>2, GuardIs
<1>4. (\A j \in 1 .. n : b[j] = c[j]) /\ Members(b, n) = Members(c, n)
  <2>1. CASE m.head = Null
    <3>1. n = 0
      BY <2>1, NoHead
    <3>2. 1 .. 0 = {}
      OBVIOUS
    <3> QED BY <3>1, <3>2 DEF Members
  <2>2. CASE m.head # Null
    BY <2>2 DEF RingOf
  <2> QED BY <2>1, <2>2
<1> HIDE DEF b
<1>5. r = Recycled(g, x, v) /\ Free(g) >= 1
  BY <1>3
<1> HIDE DEF r
<1>6. /\ \E f1, k1 : Linked(r.map, b, n, f1, k1, Plus(X, r.node))
      /\ r.node \in Addr /\ r.node \notin Guard(g) \cup Members(b, n) \cup X
      /\ Apart(r.map, g, r.node) /\ r.map.key[r.node] = x /\ r.map.value[r.node] = v
      /\ r.map.head = g.head /\ Free(r.map) >= Free(g) - 1
      /\ (g.free = Null => r.map.free = Null)
  BY <1>3, <1>5, RecycledIs
<1>7. PICK f1, k1 : Linked(w, b, n, f1, k1, Plus(X, q))
  BY <1>6
<1>8. /\ q \in Addr /\ q \notin Members(c, n) /\ q \notin X /\ Apart(w, g, q)
      /\ w.key[q] = x /\ w.value[q] = v /\ w.head = g.head /\ Free(w) >= Free(g) - 1
      /\ (g.free = Null => w.free = Null)
  BY <1>4, <1>6
<1> DEFINE Y == Plus(X, q)
           e == Grown(b, n, q)
           ix == Index!insert(w.index, x, q)
<1>9. q \in Y /\ Minus(Y, q) = X
  BY <1>8 DEF Plus, Minus
<1>10. w.index = m.index /\ w.present = m.present
  BY <1>3, <1>8 DEF Apart, Outside
<1>11. d = attach([w EXCEPT !.index = ix], q) \/ d = [attach(w, q) EXCEPT !.index = Index!get_or_insert(@, x, q)]
  BY <1>2, <1>5 DEF Indexed, Attached
<1> HIDE DEF q, w, Y
<1>12. /\ ix \in IndexMap /\ ix.n = n + 1
       /\ \A j \in Nat : Index!get(ix, j) = IF j = x THEN q ELSE Index!get(m.index, j)
  <2>1. x \in Nat /\ ix = Index!insert(m.index, x, q)
    BY <1>10, LinkedVecMapAssumption
  <2> HIDE DEF ix
  <2> QED BY SMTT(60), <1>1, <1>8, <2>1, IndexInsertIs
<1> HIDE DEF ix
<1>13. /\ Linked(d, e, n + 1, f1, k1, X) /\ d.index = ix /\ d.present = w.present /\ d.head = w.head
       /\ d.key = w.key /\ d.value = w.value /\ d.live = w.live /\ d.free = w.free
  <2>1. CASE d = attach([w EXCEPT !.index = ix], q)
    <3> DEFINE u == [w EXCEPT !.index = ix]
    <3>1. u = [w EXCEPT !.index = ix] /\ d = attach(u, q)
      BY <2>1
    <3> HIDE DEF u
    <3>2. Linked(w, b, n, f1, k1, Y)
      BY <1>7 DEF Y
    <3>3. /\ Linked(u, b, n, f1, k1, Y) /\ u.index = ix /\ u.present = w.present /\ u.head = w.head
          /\ u.free = w.free /\ u.live = w.live /\ u.key = w.key /\ u.value = w.value
      BY <1>12, <3>1, <3>2, IndexOnly
    <3>4. u.head # Null
      BY <1>3, <1>8, <3>3
    <3>5. Linked(d, Grown(b, n, q), n + 1, f1, k1, Minus(Y, q)) /\ Beside(d, u)
      BY <1>9, <3>1, <3>3, <3>4, AttachIs
    <3> QED BY <1>9, <3>3, <3>5 DEF Beside
  <2>2. CASE d = [attach(w, q) EXCEPT !.index = Index!get_or_insert(@, x, q)]
    <3> DEFINE u == attach(w, q)
               r1 == n + 1
    <3>1. u = attach(w, q) /\ w.head # Null
      BY <1>3, <1>8
    <3> HIDE DEF u
    <3>2. Linked(w, b, n, f1, k1, Y)
      BY <1>7 DEF Y
    <3>3. Linked(u, Grown(b, n, q), n + 1, f1, k1, Minus(Y, q)) /\ Beside(u, w)
      BY <1>9, <3>1, <3>2, AttachIs
    <3>4. Index!get_or_insert(u.index, x, q) = ix
      <4>1. u.index = m.index /\ w.index = m.index
        BY <1>10, <3>3 DEF Beside
      <4> QED BY <4>1 DEF Index!get_or_insert, Index!contains_key, ix
    <3>5. d = [u EXCEPT !.index = ix]
      BY <2>2, <3>4 DEF u
    <3>6. Linked(u, e, r1, f1, k1, X)
      BY <1>9, <3>3
    <3> HIDE DEF r1, e
    <3>7. /\ Linked(d, e, r1, f1, k1, X) /\ d.index = ix /\ d.present = u.present /\ d.head = u.head
          /\ d.free = u.free /\ d.live = u.live /\ d.key = u.key /\ d.value = u.value
      BY <1>12, <3>5, <3>6, IndexOnly
    <3> QED BY <3>3, <3>7 DEF Beside, r1
  <2> QED BY <1>11, <2>1, <2>2
<1>14. (\A j \in 1 .. n : e[j] = b[j]) /\ e[n + 1] = q
  BY <1>1 DEF Grown
<1>15. Members(e, n + 1) = Members(c, n) \cup {q}
  BY <1>1, <1>4, GrownMembers
<1> HIDE DEF e
<1>16. \A p \in Members(c, n) : d.key[p] = m.key[p] /\ d.value[p] = m.value[p]
  <2> SUFFICES ASSUME NEW p \in Members(c, n) PROVE d.key[p] = m.key[p] /\ d.value[p] = m.value[p]
    OBVIOUS
  <2>1. p \in m.live /\ p # q /\ p \in Node
    BY <1>1, <1>8 DEF Node
  <2>2. g.key[p] = m.key[p] /\ g.value[p] = m.value[p]
    BY <1>3, <2>1
  <2>3. w.key[p] = g.key[p] /\ w.value[p] = g.value[p]
    BY <1>8, <2>1 DEF Apart, Outside
  <2> QED BY <1>13, <2>2, <2>3
<1>17. Tells(d, Members(e, n + 1))
  <2> DEFINE S == Members(c, n)
  <2>1. /\ Tells(m, S) /\ q \notin S /\ Null \notin S
        /\ (\A j \in Nat : Index!get(d.index, j) = IF j = x THEN q ELSE Index!get(m.index, j))
        /\ d.key[q] = x /\ d.value[q] \in Values
        /\ \A p \in S : d.key[p] = m.key[p] /\ d.value[p] = m.value[p]
    BY <1>1, <1>8, <1>12, <1>13, <1>16
  <2> HIDE DEF S
  <2>2. Tells(d, S \cup {q})
    BY <2>1, TellsGrown
  <2> QED BY <1>15, <2>2 DEF S
<1>18. \A j \in 1 .. n : e[j] = c[j] /\ d.key[c[j]] = m.key[c[j]] /\ d.value[c[j]] = m.value[c[j]]
  <2>1. \A j \in 1 .. n : c[j] \in Members(c, n)
    BY DEF Members
  <2> QED BY <1>4, <1>14, <1>16, <2>1
<1>19. Spare(d) >= Spare(m) - 1
  <2>1. Spare(d) = Free(d) /\ Free(d) = Free(w)
    <3>1. d \in Map
      BY <1>13, LinkedFacts
    <3>2. Free(d) \in Nat
      BY <3>1, FreeIs
    <3>3. d.head # Null
      BY <1>3, <1>8, <1>13
    <3> QED BY <1>13, <3>2, <3>3 DEF Spare, Free
  <2> QED BY <1>3, <1>8, <2>1
<1>20. /\ d.present = m.present /\ d.head # Null /\ d.index.n = n + 1
       /\ d.key[e[n + 1]] = x /\ d.value[e[n + 1]] = v /\ (m.free = Null => d.free = Null)
  BY <1>3, <1>8, <1>10, <1>12, <1>13, <1>14
<1>21. Added(m, c, n, X, x, v, d, e)
  BY <1>13, <1>17, <1>18, <1>19, <1>20 DEF Added
<1> QED BY <1>21

-----------------------------------------------------------------------------
(* remove of an absent key changes nothing. *)
LEMMA RemoveAbsent ==
  ASSUME NEW m \in Map, NEW x, Index!get(m.index, x) = Null
  PROVE  remove(m, x) = m
<1>1. Index!remove(m.index, x) = m.index
  BY DEF Index!remove, Index!contains_key
<1>2. remove(m, x) = [m EXCEPT !.index = m.index]
  BY <1>1 DEF remove
<1>3. [m EXCEPT !.index = m.index] = m
  BY DEF Map
<1> QED BY <1>2, <1>3

(* remove and pop take one node from the ring and its key from the index. *)
LEMMA LostIs ==
  ASSUME NEW m, NEW c, NEW n, NEW f, NEW k, NEW X, Linked(m, c, n, f, k, X), n = m.index.n,
         Tells(m, Members(c, n)), NEW i \in 1 .. n,
         NEW d, d = remove(m, m.key[c[i]]) \/ d = Popped(m, c[i])
  PROVE  Lost(m, c, n, X, i, d)
<1> DEFINE p == c[i]
           x == m.key[p]
           ix == Index!remove(m.index, x)
           e == Cut(c, n, i)
           Y == Plus(X, p)
           r == n - 1
<1>1. /\ m \in Map /\ n \in Nat /\ m.index \in IndexMap /\ Null \notin Addr /\ Null \in Node
      /\ Members(c, n) \subseteq Addr /\ Members(c, n) \cap X = {} /\ Members(c, n) \cap Guard(m) = {}
      /\ \A a, b \in 1 .. n : c[a] = c[b] => a = b
  <2>1. /\ m \in Map /\ n \in Nat /\ Members(c, n) \cap X = {} /\ Members(c, n) \subseteq Addr
        /\ Ring(m, c, n) /\ Members(c, n) \cap Guard(m) = {}
    BY LinkedFacts
  <2>2. \A a, b \in 1 .. n : c[a] = c[b] => a = b
    BY <2>1, RingFacts
  <2> QED BY <2>1, <2>2, MapFacts
<1>2. p \in Members(c, n) /\ p # Null /\ p \in Node
  <2>1. p \in Members(c, n)
    BY DEF Members
  <2> QED BY <1>1, <2>1 DEF Node
<1>3. x \in Nat /\ Index!get(m.index, x) = p
  BY <1>2, LinkedVecMapAssumption DEF Tells
<1>4. n # 0 /\ m.index.n # 0 /\ r \in Nat
  BY <1>1
<1>5. Members(e, r) = Members(c, n) \ {p}
  BY <1>1, CutMembers
<1>6. d = remove(m, x) \/ d = Popped(m, p)
  OBVIOUS
<1>7. d = remove(m, x) => d = Forgotten([detach([m EXCEPT !.index = ix], p) EXCEPT !.next[p] = m.free, !.free = p], {p})
  BY <1>2, <1>3 DEF remove
<1>8. d = Popped(m, p) => d = Freed([detach(m, p) EXCEPT !.index = Index!remove(@, x)], {p})
  BY DEF Popped, drop_empty_node
<1> HIDE DEF x
<1>9. /\ ix \in IndexMap /\ ix.n = r
      /\ \A j \in Nat : Index!get(ix, j) = IF j = x THEN Null ELSE Index!get(m.index, j)
  <2>1. ix = Index!remove(m.index, x)
    OBVIOUS
  <2> HIDE DEF ix
  <2> QED BY <1>1, <1>2, <1>3, <1>4, <2>1, IndexRemoveIs
<1>10. Y \ {p} = X /\ p \in Y /\ Minus(Y, p) = X /\ {p} \subseteq Y
  BY <1>1, <1>2 DEF Plus, Minus
<1>11. /\ \E f1, k1 : Linked(d, e, r, f1, k1, X)
       /\ d.index = ix /\ d.present = m.present /\ d.head = m.head /\ Outside(d, [m EXCEPT !.index = ix], {p})
  <2>1. CASE d = remove(m, x)
    <3> DEFINE u == [m EXCEPT !.index = ix]
               w == detach(u, p)
               g == [w EXCEPT !.next[p] = m.free, !.free = p]
               S == {p}
    <3>1. d = Forgotten(g, S)
      BY <1>7, <2>1
    <3>2. u = [m EXCEPT !.index = ix]
      OBVIOUS
    <3> HIDE DEF u, ix
    <3>3. /\ Linked(u, c, n, f, k, X) /\ u.index = ix /\ u.present = m.present /\ u.head = m.head
          /\ u.free = m.free /\ u.key = m.key /\ u.value = m.value
      BY <1>9, <3>2, IndexOnly
    <3>4. w = detach(u, c[i])
      OBVIOUS
    <3> HIDE DEF w
    <3>5. Linked(w, e, r, f, k, Y) /\ Beside(w, u)
      BY <3>3, <3>4, DetachIs
    <3>6. g = [w EXCEPT !.next[p] = w.free, !.free = p]
      BY <3>3, <3>5 DEF Beside
    <3> HIDE DEF g, Y, e, r, p
    <3>14. Linked(g, e, r, Pushed(p, f, k), k + 1, Minus(Y, p)) /\ Alike(g, w) /\ g.head = w.head
      <4>1. Linked(w, e, r, f, k, Y)
        BY <3>5
      <4>2. PushedAt(w, e, r, f, k, Y, p, g)
        BY <1>10, <3>6, <4>1 DEF PushedAt
      <4> QED BY ONLY <4>2, PushLinked
    <3>7. PICK f1, k1 : Linked(g, e, r, f1, k1, Minus(Y, p)) /\ Alike(g, w) /\ g.head = w.head
      BY <3>14
    <3>8. Linked(g, e, r, f1, k1, X)
      BY <1>10, <3>7
    <3>9. g.head = m.head
      BY <3>3, <3>5, <3>7 DEF Beside
    <3>10. S \cap (Guard(g) \cup Members(e, r)) = {}
      BY <1>1, <1>2, <1>5, <3>9 DEF Guard
    <3> HIDE DEF S
    <3>11. Linked(d, e, r, f1, k1, X) /\ Outside(d, g, S) /\ d.head = g.head
      BY <3>1, <3>8, <3>10, ForgetLinked
    <3>12. Outside(d, u, S)
      BY <3>5, <3>7, <3>11 DEF Outside, Alike, Beside
    <3>13. d.index = ix /\ d.present = m.present
      BY <3>3, <3>12 DEF Outside
    <3> QED BY <3>9, <3>11, <3>12, <3>13 DEF S, u
  <2>2. CASE d = Popped(m, p)
    <3> DEFINE u == detach(m, p)
               w == [u EXCEPT !.index = ix]
               S == {p}
    <3>1. u = detach(m, c[i])
      OBVIOUS
    <3>2. d = Freed([u EXCEPT !.index = Index!remove(@, x)], S)
      BY <1>8, <2>2
    <3> HIDE DEF u, ix
    <3>3. Linked(u, e, r, f, k, Y) /\ Beside(u, m)
      BY <3>1, DetachIs
    <3>4. d = Freed(w, S)
      BY <3>2, <3>3 DEF Beside, ix
    <3>5. w = [u EXCEPT !.index = ix]
      OBVIOUS
    <3> HIDE DEF w
    <3> HIDE DEF e, r, Y, p
    <3>6. /\ Linked(w, e, r, f, k, Y) /\ w.index = ix /\ w.present = u.present /\ w.head = u.head
          /\ w.key = u.key /\ w.value = u.value
      BY <1>9, <3>3, <3>5, IndexOnly
    <3>7. S \subseteq Y /\ X = Y \ S
      BY <1>10
    <3> HIDE DEF S
    <3>8. Linked(d, e, r, f, k, X) /\ Outside(d, w, S) /\ d.head = w.head
      BY <3>4, <3>6, <3>7, FreeLinked
    <3>9. w.key = m.key /\ w.value = m.value /\ w.present = m.present /\ w.head = m.head
      BY <3>3, <3>6 DEF Beside
    <3> DEFINE z == [m EXCEPT !.index = ix]
    <3>10. z.key = m.key /\ z.value = m.value /\ z.present = m.present /\ z.index = ix
      BY <1>1 DEF Map
    <3> HIDE DEF z
    <3>11. Outside(d, z, S)
      BY <3>6, <3>8, <3>9, <3>10 DEF Outside
    <3>12. d.index = ix /\ d.present = m.present
      BY <3>6, <3>8, <3>9 DEF Outside
    <3> QED BY <3>8, <3>9, <3>11, <3>12 DEF S, z
  <2> QED BY <1>6, <2>1, <2>2
<1>12. \A q \in Members(c, n) : q # p => d.key[q] = m.key[q] /\ d.value[q] = m.value[q]
  <2> DEFINE z == [m EXCEPT !.index = ix]
  <2>1. z.key = m.key /\ z.value = m.value
    BY <1>1 DEF Map
  <2>2. \A q \in Node \ {p} : d.key[q] = z.key[q] /\ d.value[q] = z.value[q]
    BY <1>11 DEF Outside
  <2> HIDE DEF z
  <2>3. \A q \in Members(c, n) : q \in Node
    BY <1>1 DEF Node
  <2> QED BY <2>1, <2>2, <2>3
<1>13. Tells(d, Members(e, r))
  <2> DEFINE S == Members(c, n)
  <2>1. /\ Tells(m, S) /\ p \in S
        /\ (\A j \in Nat : Index!get(d.index, j) = IF j = m.key[p] THEN Null ELSE Index!get(m.index, j))
        /\ \A q \in S \ {p} : d.key[q] = m.key[q] /\ d.value[q] = m.value[q]
    BY <1>2, <1>9, <1>11, <1>12 DEF x
  <2> HIDE DEF S, p
  <2>2. Tells(d, S \ {p})
    BY ONLY <2>1, TellsCut
  <2> QED BY <1>5, <2>2 DEF S
<1>14. d.index.n = r
  BY <1>9, <1>11
<1> QED BY <1>11, <1>12, <1>13, <1>14 DEF Lost

(* What a map beside no owner of other nodes is. *)
LEMMA SolidFacts ==
  ASSUME NEW m, NEW c, Solid(m, c)
  PROVE  /\ m \in Map /\ m.index.n \in Nat /\ m.present = TRUE /\ m.index \in IndexMap
         /\ Members(c, m.index.n) \subseteq Addr /\ Members(c, m.index.n) \subseteq Node
         /\ \A i \in 1 .. m.index.n : c[i] \in Members(c, m.index.n)
         /\ \A i \in 0 .. m.index.n + 1 : c[i] \in Node
         /\ \A i, j \in 1 .. m.index.n : c[i] = c[j] => i = j
         /\ Tells(m, Members(c, m.index.n))
         /\ c[0] = m.head /\ c[m.index.n + 1] = m.head
         /\ \A i \in 0 .. m.index.n : m.prev[c[i]] = c[i + 1] /\ m.next[c[i + 1]] = c[i]
         /\ m.head = Null => m.index.n = 0
<1> DEFINE n == m.index.n
<1>1. PICK f, k : Linked(m, c, n, f, k, Nobody) /\ Tells(m, Members(c, n))
  BY DEF Solid
<1>2. m \in Map /\ Ring(m, c, n) /\ Members(c, n) \subseteq Addr
  <2> HIDE DEF n
  <2> QED BY <1>1, LinkedFacts
<1>3. m.head = Null => n = 0
  BY <1>2 DEF Ring
<1>4. /\ n \in Nat
      /\ c[0] = m.head /\ c[n + 1] = m.head
      /\ \A i \in 0 .. n : m.prev[c[i]] = c[i + 1] /\ m.next[c[i + 1]] = c[i]
      /\ \A i, j \in 1 .. n : c[i] = c[j] => i = j
      /\ \A i \in 0 .. n + 1 : c[i] \in Node
  <2> HIDE DEF n
  <2> QED BY <1>2, RingFacts
<1>5. \A i \in 1 .. n : c[i] \in Members(c, n)
  BY DEF Members
<1>6. m.index \in IndexMap
  BY <1>2, MapFacts
<1>7. m.present = TRUE
  BY DEF Solid
<1>8. Members(c, n) \subseteq Node
  BY <1>2 DEF Node
<1> QED BY <1>1, <1>2, <1>3, <1>4, <1>5, <1>6, <1>7, <1>8

(* The ring of such a map. *)
LEMMA SolidRing ==
  ASSUME NEW m, NEW c, NEW n, SolidOf(m, c, n)
  PROVE  /\ m \in Map /\ n \in Nat
         /\ m.next \in [Node -> Node] /\ m.prev \in [Node -> Node]
         /\ c[0] = m.head /\ c[n + 1] = m.head
         /\ \A i \in 0 .. n : m.prev[c[i]] = c[i + 1]
         /\ \A i \in 0 .. n : m.next[c[i + 1]] = c[i]
         /\ \A i, j \in 1 .. n : c[i] = c[j] => i = j
         /\ \A i \in 0 .. n + 1 : c[i] \in Node
         /\ m.head = Null => n = 0
<1>1. PICK f, k : Linked(m, c, n, f, k, Nobody)
  BY DEF Solid, SolidOf
<1>2. m \in Map /\ Ring(m, c, n)
  BY <1>1, LinkedFacts
<1>3. m.next \in [Node -> Node] /\ m.prev \in [Node -> Node]
  BY <1>2, MapFacts
<1>4. m.head = Null => n = 0
  BY <1>2 DEF Ring
<1>5. /\ n \in Nat
      /\ c[0] = m.head /\ c[n + 1] = m.head
      /\ \A i \in 0 .. n : m.prev[c[i]] = c[i + 1] /\ m.next[c[i + 1]] = c[i]
      /\ \A i, j \in 1 .. n : c[i] = c[j] => i = j
      /\ \A i \in 0 .. n + 1 : c[i] \in Node
  BY <1>2, RingFacts
<1> QED BY <1>2, <1>3, <1>4, <1>5

(* The entry of a key that the index has. *)
LEMMA EntryIs ==
  ASSUME NEW m, NEW c, Solid(m, c), NEW x \in Keys, Index!get(m.index, x) # Null
  PROVE  \E i \in 1 .. m.index.n : c[i] = Index!get(m.index, x) /\ m.key[c[i]] = x
<1>1. Tells(m, Members(c, m.index.n)) /\ x \in Nat
  BY SolidFacts, LinkedVecMapAssumption
<1>2. Index!get(m.index, x) \in Members(c, m.index.n) /\ m.key[Index!get(m.index, x)] = x
  BY <1>1 DEF Tells
<1> QED BY <1>2 DEF Members

(* Such a map after an entry was added. *)
LEMMA AddedSolid ==
  ASSUME NEW m, NEW c, Solid(m, c), NEW n, n = m.index.n, NEW x, NEW v, NEW d, NEW e,
         Added(m, c, n, Nobody, x, v, d, e)
  PROVE  Solid(d, e) /\ d.index.n = n + 1
<1>1. d.present = TRUE
  BY SolidFacts DEF Added
<1> QED BY <1>1 DEF Solid, Added

(* Such a map after an entry was removed. *)
LEMMA LostSolid ==
  ASSUME NEW m, NEW c, Solid(m, c), NEW n, n = m.index.n, NEW i, NEW d,
         Lost(m, c, n, Nobody, i, d)
  PROVE  Solid(d, Cut(c, n, i)) /\ d.index.n = n - 1
<1>1. d.present = TRUE
  BY SolidFacts DEF Lost
<1> QED BY <1>1 DEF Solid, Lost

(* insert and OccupiedEntry::insert under a key in use. *)
LEMMA RewriteIs ==
  ASSUME NEW m, NEW c, Solid(m, c), NEW n, n = m.index.n, NEW i \in 1 .. n, NEW v \in Values,
         NEW d, d = Refreshed([ensure_guard_node(m) EXCEPT !.value[c[i]] = v], c[i])
  PROVE  Renewed(m, c, n, i, v, d)
<1>1. PICK f, k : Linked(m, c, n, f, k, Nobody) /\ Tells(m, Members(c, n))
  BY DEF Solid
<1>2. m.present = TRUE
  BY SolidFacts
<1>3. /\ Linked(d, Moved(c, n, i), n, f, k, Nobody) /\ d.index = m.index
      /\ Members(Moved(c, n, i), n) = Members(c, n)
      /\ Tells(d, Members(c, n))
      /\ d.key = m.key /\ d.value[c[i]] = v /\ d.present = m.present
      /\ \A q \in Node : q # c[i] => d.value[q] = m.value[q]
  <2>1. d = Refreshed([ensure_guard_node(m) EXCEPT !.value[c[i]] = v], c[i])
    OBVIOUS
  <2>2. Linked(m, c, n, f, k, Nobody) /\ n = m.index.n /\ Tells(m, Members(c, n)) /\ i \in 1 .. n /\ v \in Values
    BY <1>1
  <2>3. RewrittenAt(m, c, n, f, k, Nobody, i, v, d)
    BY ONLY <2>1, <2>2 DEF RewrittenAt
  <2> QED BY ONLY <2>3, RewrittenIs
<1> QED BY <1>2, <1>3 DEF Renewed, Solid

(* get_refresh on such a map. *)
LEMMA RefreshIs ==
  ASSUME NEW m, NEW c, Solid(m, c), NEW n, n = m.index.n, NEW i \in 1 .. n,
         NEW d, d = Refreshed(m, c[i])
  PROVE  Renewed(m, c, n, i, m.value[c[i]], d)
<1>1. PICK f, k : Linked(m, c, n, f, k, Nobody) /\ Tells(m, Members(c, n))
  BY DEF Solid
<1>2. m.present = TRUE /\ Members(c, n) \subseteq Node
  BY SolidFacts
<1>3. Linked(d, Moved(c, n, i), n, f, k, Nobody) /\ Beside(d, m) /\ Members(Moved(c, n, i), n) = Members(c, n)
  BY <1>1, RefreshedIs
<1>4. d.index = m.index /\ d.key = m.key /\ d.value = m.value /\ d.present = m.present
  BY <1>3 DEF Beside
<1>5. \A p \in Members(c, n) : m.value[p] \in Values
  BY <1>1 DEF Tells
<1> DEFINE S == Members(c, n)
<1>6. /\ Tells(m, S) /\ (\A j \in Nat : Index!get(d.index, j) = Index!get(m.index, j))
      /\ \A p \in S : d.key[p] = m.key[p] /\ d.value[p] \in Values
  BY <1>1, <1>4, <1>5
<1> HIDE DEF S
<1>7. Tells(d, S)
  BY ONLY <1>6, TellsKept
<1> QED BY <1>2, <1>3, <1>4, <1>7 DEF Renewed, Solid, S

(* insert and VacantEntry::insert. *)
LEMMA InsertIs ==
  ASSUME NEW m, NEW c, Solid(m, c), NEW n, n = m.index.n, NEW x \in Keys, NEW v \in Values,
         Spare(m) >= 1, NEW d, d = insert(m, x, v)
  PROVE  /\ Index!get(m.index, x) = Null => \E e : Added(m, c, n, Nobody, x, v, d, e)
         /\ \A i \in 1 .. n : c[i] = Index!get(m.index, x) => Renewed(m, c, n, i, v, d)
<1>1. PICK f, k : Linked(m, c, n, f, k, Nobody) /\ Tells(m, Members(c, n))
  BY DEF Solid
<1>2. ASSUME Index!get(m.index, x) = Null PROVE \E e : Added(m, c, n, Nobody, x, v, d, e)
  <2>1. d = Indexed(m, x, v)
    BY <1>2 DEF insert, Indexed
  <2> HIDE DEF Nobody
  <2> QED BY <1>1, <1>2, <2>1, AddedIs
<1>3. ASSUME NEW i \in 1 .. n, c[i] = Index!get(m.index, x) PROVE Renewed(m, c, n, i, v, d)
  <2>1. c[i] # Null
    <3>1. c[i] \in Addr
      BY SolidFacts
    <3>2. Null \notin Addr
      BY SolidFacts, MapFacts
    <3> QED BY <3>1, <3>2
  <2>2. d = Refreshed([ensure_guard_node(m) EXCEPT !.value[c[i]] = v], c[i])
    BY <1>3, <2>1 DEF insert
  <2> QED BY <2>2, RewriteIs
<1> QED BY <1>2, <1>3

(* A value written in place leaves the list, the index and the other values alone. *)
LEMMA WroteIs ==
  ASSUME NEW m, NEW c, NEW n, NEW i, NEW v, NEW d, WroteAt(m, c, n, i, v, d)
  PROVE  /\ Solid(d, c) /\ d.index = m.index /\ d.key = m.key
         /\ d.next = m.next /\ d.prev = m.prev /\ d.head = m.head
         /\ d.value[c[i]] = v /\ \A q \in Node : q # c[i] => d.value[q] = m.value[q]
<1>0. Solid(m, c) /\ n = m.index.n /\ i \in 1 .. n /\ v \in Values /\ d = [m EXCEPT !.value[c[i]] = v]
  BY DEF WroteAt
<1> USE <1>0
<1>1. PICK f, k : Linked(m, c, n, f, k, Nobody) /\ Tells(m, Members(c, n))
  BY DEF Solid
<1>2. c[i] \in Node /\ m.present = TRUE /\ Members(c, n) \subseteq Node
  BY SolidFacts
<1> DEFINE p == c[i]
<1>3. Wrote(m, p, v, d)
  BY <1>2 DEF Wrote
<1> HIDE DEF p
<1>4. /\ Linked(d, c, n, f, k, Nobody) /\ d.index = m.index /\ d.present = m.present /\ d.head = m.head
      /\ d.key = m.key /\ d.next = m.next /\ d.prev = m.prev
      /\ d.value[p] = v /\ \A q \in Node : q # p => d.value[q] = m.value[q]
  <2>1. Linked(m, c, n, f, k, Nobody)
    BY <1>1
  <2> QED BY ONLY <1>3, <2>1, ValueOnly
<1> DEFINE S == Members(c, n)
<1>5. /\ Tells(m, S) /\ (\A j \in Nat : Index!get(d.index, j) = Index!get(m.index, j))
      /\ \A q \in S : d.key[q] = m.key[q] /\ d.value[q] \in Values
  <2>1. \A q \in S : q \in Node /\ m.value[q] \in Values
    BY <1>1, <1>2 DEF Tells
  <2> QED BY <1>1, <1>4, <2>1
<1> HIDE DEF S
<1>6. Tells(d, S)
  BY ONLY <1>5, TellsKept
<1> QED BY <1>2, <1>4, <1>6 DEF Solid, S, p

(* The same, with the write spelled out. *)
LEMMA WriteIs ==
  ASSUME NEW m, NEW c, Solid(m, c), NEW n, n = m.index.n, NEW i \in 1 .. n, NEW v \in Values,
         NEW d, d = [m EXCEPT !.value[c[i]] = v]
  PROVE  /\ Solid(d, c) /\ d.index = m.index /\ d.key = m.key
         /\ d.next = m.next /\ d.prev = m.prev /\ d.head = m.head
         /\ d.value[c[i]] = v /\ \A q \in Node : q # c[i] => d.value[q] = m.value[q]
<1>1. WroteAt(m, c, n, i, v, d)
  BY DEF WroteAt
<1> QED BY ONLY <1>1, WroteIs

(* remove and pop on such a map. *)
LEMMA RemoveIs ==
  ASSUME NEW m, NEW c, Solid(m, c), NEW n, n = m.index.n, NEW i \in 1 .. n,
         NEW d, d = remove(m, m.key[c[i]]) \/ d = Popped(m, c[i])
  PROVE  Lost(m, c, n, Nobody, i, d)
<1>1. PICK f, k : Linked(m, c, n, f, k, Nobody) /\ Tells(m, Members(c, n))
  BY DEF Solid
<1> HIDE DEF Nobody
<1> QED BY <1>1, LostIs

(* Only an IntoIter owns nodes. *)
LEMMA NoLooseIs ==
  ASSUME NEW m, NEW its, \A i \in DOMAIN its : its[i].type # "IntoIter"
  PROVE  Loose(m, its) = Nobody
BY DEF Loose, OwnSet, Nobody

(* What the invariant says of a map with iterators. *)
LEMMA SoundFacts ==
  ASSUME NEW m, NEW its, NEW h, NEW c, NEW f, NEW k, Sound(m, its, h, c, f, k), its \in Seq(Iterator)
  PROVE  /\ m \in Map /\ h \subseteq Members(c, m.index.n) /\ h \subseteq Addr
         /\ Linked(m, c, m.index.n, f, k, Loose(m, its))
         /\ Tells(m, Members(c, m.index.n))
         /\ DOMAIN its = 1 .. Len(its) /\ Len(its) \in Nat
         /\ \A i \in DOMAIN its : its[i] \in Iterator
         /\ m.present = TRUE => \A i \in DOMAIN its : its[i].type # "IntoIter"
<1> DEFINE n == m.index.n
           X == Loose(m, its)
<1>1. Linked(m, c, n, f, k, X) /\ Tells(m, Members(c, n)) /\ h \subseteq Members(c, n)
  BY DEF Sound, Borrows
<1>2. m \in Map /\ Members(c, n) \subseteq Addr
  <2> HIDE DEF n, X
  <2> QED BY <1>1, LinkedFacts
<1>3. DOMAIN its = 1 .. Len(its) /\ Len(its) \in Nat /\ \A i \in DOMAIN its : its[i] \in Iterator
  OBVIOUS
<1>4. ASSUME m.present = TRUE, NEW i \in DOMAIN its PROVE its[i].type # "IntoIter"
  <2>1. Borrows(m, its, h, c)
    BY DEF Sound
  <2>2. Len(its) = 1 => i = 1
    BY <1>3
  <2> QED BY <1>4, <2>1, <2>2 DEF Borrows
<1> QED BY <1>1, <1>2, <1>3, <1>4

(* Beside a map that is present nothing owns other nodes. *)
LEMMA SoundSolid ==
  ASSUME NEW m, NEW its, NEW h, NEW c, NEW f, NEW k, Sound(m, its, h, c, f, k), its \in Seq(Iterator),
         m.present = TRUE
  PROVE  Solid(m, c)
<1>1. Linked(m, c, m.index.n, f, k, Loose(m, its)) /\ Tells(m, Members(c, m.index.n))
  BY SoundFacts
<1>2. \A i \in DOMAIN its : its[i].type # "IntoIter"
  BY SoundFacts
<1>3. Loose(m, its) = Nobody
  BY <1>2, NoLooseIs
<1> QED BY <1>1, <1>3 DEF Solid

(* A map beside iterators over its ring satisfies the invariant. *)
LEMMA RingSafe ==
  ASSUME NEW m, NEW c, NEW its, NEW h, RingSide(m, c, its, h)
  PROVE  Safe(m, its, h)
<1>1. PICK f, k : Linked(m, c, m.index.n, f, k, Nobody) /\ Tells(m, Members(c, m.index.n))
  BY DEF RingSide, Solid
<1>2. \A i \in DOMAIN its : /\ its[i].type \in {"Iter", "IterMut", "Entries"}
                            /\ InRing(c, m.index.n, its[i], h)
  BY DEF RingSide
<1>3. Loose(m, its) = Nobody
  BY <1>2, NoLooseIs
<1>4. Stands(m, its, h, c, f, k)
  <2>1. \A i \in DOMAIN its : OwnSet(m, its[i]) = {}
    BY <1>2 DEF OwnSet
  <2> QED BY <1>2, <2>1 DEF Stands
<1> QED BY <1>1, <1>3, <1>4 DEF Sound, Safe, RingSide

(* No iterator and no entry beside the map. *)
LEMMA AloneSafe ==
  ASSUME NEW m, NEW c, Solid(m, c), NEW its, its = <<>>, NEW h, h \subseteq Members(c, m.index.n)
  PROVE  Safe(m, its, h)
<1>1. its \in Seq(Iterator) /\ DOMAIN its = {}
  OBVIOUS
<1>2. Borrows(m, its, h, c)
  BY SolidFacts DEF Borrows
<1>3. RingSide(m, c, its, h)
  BY <1>1, <1>2 DEF RingSide
<1> QED BY <1>3, RingSafe

(* A map that may be changed has no iterator and no held entry beside it. *)
LEMMA WritableIs ==
  ASSUME Safe(map, iters, held), Writable
  PROVE  \E c : Solid(map, c)
<1>1. PICK c, f, k : Sound(map, iters, held, c, f, k)
  BY DEF Safe
<1>2. map.present = TRUE
  <2>1. map \in Map /\ map.present
    BY <1>1, SoundFacts DEF Safe, Writable
  <2> QED BY <2>1, MapFacts
<1> QED BY <1>1, <1>2, SoundSolid DEF Safe

(* What a call that leaves a map leaves. *)
LEMMA CallSafe ==
  ASSUME Writable, NEW d, NEW e, Solid(d, e), map' = d, UNCHANGED <<iters, held>>
  PROVE  Safe(map', iters', held')
<1>1. iters' = <<>> /\ held' = {}
  BY DEF Writable
<1>2. held' \subseteq Members(e, d.index.n)
  BY <1>1
<1> QED BY <1>1, <1>2, AloneSafe

(* With room for r + 1 nodes, r are left after the guard. *)
LEMMA RoomIs ==
  ASSUME map \in Map, NEW r \in Nat, Room(r + 1)
  PROVE  Spare(map) >= r
<1>1. Free(map) \in Nat /\ Free(map) >= r + 1
  BY FreeIs DEF Room, Free
<1> QED BY <1>1 DEF Spare

(* What a caller may give. *)
LEMMA GivenIs ==
  ASSUME NEW k \in Keys, NEW v \in Given[k]
  PROVE  v \in Values /\ k \in Nat /\ v # Null
BY LinkedVecMapAssumption DEF Null

(* insert keeps the invariant. *)
LEMMA InsertSafe ==
  ASSUME Safe(map, iters, held), NEW k \in Keys, NEW v \in Given[k], Insert(k, v)
  PROVE  Safe(map', iters', held')
<1>1. /\ Writable /\ Room(2) /\ map' = insert(map, k, v) /\ UNCHANGED <<iters, held>>
  BY DEF Insert, Call
<1>2. PICK c : Solid(map, c)
  BY <1>1, WritableIs
<1> DEFINE n == map.index.n
           d == insert(map, k, v)
<1>3. Spare(map) >= 1
  BY <1>1, <1>2, SolidFacts, RoomIs, 1 + 1 = 2
<1>4. /\ Index!get(map.index, k) = Null => \E e : Added(map, c, n, Nobody, k, v, d, e)
      /\ \A i \in 1 .. n : c[i] = Index!get(map.index, k) => Renewed(map, c, n, i, v, d)
  <2> HIDE DEF n, d
  <2>1. n = map.index.n /\ d = insert(map, k, v) /\ v \in Values
    BY GivenIs DEF n, d
  <2> QED BY <1>2, <1>3, <2>1, InsertIs
<1>5. \E e : Solid(d, e)
  <2>1. CASE Index!get(map.index, k) = Null
    <3>1. PICK e : Added(map, c, n, Nobody, k, v, d, e)
      BY <1>4, <2>1
    <3> HIDE DEF d
    <3> QED BY <1>2, <3>1, AddedSolid
  <2>2. CASE Index!get(map.index, k) # Null
    <3>1. PICK i \in 1 .. n : c[i] = Index!get(map.index, k)
      BY <1>2, <2>2, EntryIs
    <3> QED BY <1>4, <3>1 DEF Renewed
  <2> QED BY <2>1, <2>2
<1> QED BY <1>1, <1>5, CallSafe

(* entry().or_insert() keeps the invariant. *)
LEMMA OrInsertSafe ==
  ASSUME Safe(map, iters, held), NEW k \in Keys, NEW v \in Given[k], OrInsert(k, v)
  PROVE  Safe(map', iters', held')
<1>1. /\ Writable /\ Room(2) /\ UNCHANGED <<iters, held>>
      /\ At(k) # Null => map' = map
      /\ At(k) = Null => map' = Attached(map, k, v)
  BY DEF OrInsert, Call, Attached
<1>2. PICK c : Solid(map, c)
  BY <1>1, WritableIs
<1>3. Spare(map) >= 1
  BY <1>1, <1>2, SolidFacts, RoomIs, 1 + 1 = 2
<1> DEFINE n == map.index.n
           d == Attached(map, k, v)
<1>4. CASE At(k) = Null
  <2>1. \E e : Added(map, c, n, Nobody, k, v, d, e)
    <3>1. PICK f1, k1 : Linked(map, c, n, f1, k1, Nobody) /\ Tells(map, Members(c, n))
      BY <1>2 DEF Solid
    <3>2. v \in Values /\ Index!get(map.index, k) = Null /\ d = Attached(map, k, v) /\ n = map.index.n
      BY <1>4, GivenIs DEF At
    <3> HIDE DEF n, d, Nobody
    <3> QED BY <1>3, <3>1, <3>2, AddedIs
  <2>2. PICK e : Added(map, c, n, Nobody, k, v, d, e)
    BY <2>1
  <2>3. Solid(d, e)
    <3> HIDE DEF d
    <3> QED BY <1>2, <2>2, AddedSolid
  <2> QED BY <1>1, <1>4, <2>3, CallSafe
<1>5. CASE At(k) # Null
  BY <1>1, <1>2, <1>5, CallSafe
<1> QED BY <1>4, <1>5

(* get_mut and a write through it keep the invariant. *)
LEMMA GetMutSafe ==
  ASSUME Safe(map, iters, held), NEW k \in Keys, NEW v \in Given[k], GetMut(k, v)
  PROVE  Safe(map', iters', held')
<1>1. /\ Writable /\ UNCHANGED <<iters, held>>
      /\ At(k) = Null => map' = map
      /\ At(k) # Null => map' = [map EXCEPT !.value[At(k)] = v]
  BY DEF GetMut, Call
<1>2. PICK c : Solid(map, c)
  BY <1>1, WritableIs
<1>3. CASE At(k) = Null
  BY <1>1, <1>2, <1>3, CallSafe
<1>4. CASE At(k) # Null
  <2>1. PICK i \in 1 .. map.index.n : c[i] = At(k)
    BY <1>2, <1>4, EntryIs DEF At
  <2>2. \E e : Solid(map', e)
    <3>1. v \in Values /\ map' = [map EXCEPT !.value[c[i]] = v]
      BY <1>1, <1>4, <2>1, GivenIs
    <3> QED BY <1>2, <3>1, WriteIs
  <2> QED BY <1>1, <2>2, CallSafe
<1> QED BY <1>3, <1>4

(* get_refresh keeps the invariant. *)
LEMMA GetRefreshSafe ==
  ASSUME Safe(map, iters, held), NEW k \in Keys, GetRefresh(k)
  PROVE  Safe(map', iters', held')
<1>1. /\ Writable /\ UNCHANGED <<iters, held>>
      /\ At(k) = Null => map' = map
      /\ At(k) # Null => map' = Refreshed(map, At(k))
  BY DEF GetRefresh, Call
<1>2. PICK c : Solid(map, c)
  BY <1>1, WritableIs
<1>3. CASE At(k) = Null
  BY <1>1, <1>2, <1>3, CallSafe
<1>4. CASE At(k) # Null
  <2>1. PICK i \in 1 .. map.index.n : c[i] = At(k)
    BY <1>2, <1>4, EntryIs DEF At
  <2>2. \E e : Solid(map', e)
    <3>1. map' = Refreshed(map, c[i])
      BY <1>1, <1>4, <2>1
    <3>2. Renewed(map, c, map.index.n, i, map.value[c[i]], map')
      BY <1>2, <3>1, RefreshIs
    <3> QED BY <3>2 DEF Renewed
  <2> QED BY <1>1, <2>2, CallSafe
<1> QED BY <1>3, <1>4

(* remove keeps the invariant. *)
LEMMA RemoveKeySafe ==
  ASSUME Safe(map, iters, held), NEW k \in Keys, RemoveKey(k)
  PROVE  Safe(map', iters', held')
<1>1. /\ Writable /\ UNCHANGED <<iters, held>> /\ map' = remove(map, k)
  BY DEF RemoveKey, Call
<1>2. PICK c : Solid(map, c)
  BY <1>1, WritableIs
<1>3. CASE At(k) = Null
  <2>1. map' = map
    BY <1>1, <1>2, <1>3, SolidFacts, RemoveAbsent DEF At
  <2> QED BY <1>1, <1>2, <2>1, CallSafe
<1>4. CASE At(k) # Null
  <2>1. PICK i \in 1 .. map.index.n : c[i] = At(k) /\ map.key[c[i]] = k
    BY <1>2, <1>4, EntryIs DEF At
  <2>2. \E e : Solid(map', e)
    <3>1. map' = remove(map, map.key[c[i]])
      BY <1>1, <2>1
    <3>2. Lost(map, c, map.index.n, Nobody, i, map')
      BY <1>2, <3>1, RemoveIs
    <3> QED BY <1>2, <3>2, LostSolid
  <2> QED BY <1>1, <2>2, CallSafe
<1> QED BY <1>3, <1>4

(* An entry() found occupied is held by the caller. *)
LEMMA EntryOccupiedSafe ==
  ASSUME Safe(map, iters, held), NEW k \in Keys, EntryOccupied(k)
  PROVE  Safe(map', iters', held')
<1>1. Writable /\ At(k) # Null /\ held' = {At(k)} /\ UNCHANGED <<map, iters>>
  BY DEF EntryOccupied
<1>2. PICK c : Solid(map, c)
  BY <1>1, WritableIs
<1>3. PICK i \in 1 .. map.index.n : c[i] = At(k)
  BY <1>1, <1>2, EntryIs DEF At
<1>4. held' \subseteq Members(c, map.index.n)
  BY <1>1, <1>3 DEF Members
<1>5. iters' = <<>> /\ map' = map
  BY <1>1 DEF Writable
<1> QED BY <1>2, <1>4, <1>5, AloneSafe

(* The node at either end of the list. *)
LEMMA PopSafe ==
  ASSUME Safe(map, iters, held), NEW p \in {map.prev[map.head], map.next[map.head]}, Pop(p)
  PROVE  Safe(map', iters', held')
<1>1. Writable
  BY DEF Pop
<1>2. PICK c : Solid(map, c)
  BY <1>1, WritableIs
<1>3. CASE map.index.n = 0
  <2>1. map' = map /\ UNCHANGED <<iters, held>>
    BY <1>3 DEF Pop, Call
  <2> QED BY <1>1, <1>2, <2>1, CallSafe
<1>4. CASE map.index.n # 0
  <2> DEFINE n == map.index.n
  <2>1. PICK i \in 1 .. n : c[i] = p
    <3>1. /\ n \in Nat /\ c[0] = map.head /\ c[n + 1] = map.head
          /\ \A i \in 0 .. n : map.prev[c[i]] = c[i + 1] /\ map.next[c[i + 1]] = c[i]
      BY <1>2, SolidFacts
    <3>2. map.prev[map.head] = c[1] /\ map.next[map.head] = c[n]
      <4>1. 0 \in 0 .. n /\ n \in 0 .. n
        BY <3>1
      <4> QED BY <3>1, <4>1
    <3>3. 1 \in 1 .. n /\ n \in 1 .. n
      BY <1>4, <3>1
    <3> QED BY <3>2, <3>3
  <2>2. map.key[p] \in Keys /\ At(map.key[p]) = p
    <3>1. Tells(map, Members(c, n)) /\ p \in Members(c, n)
      BY <1>2, <2>1, SolidFacts
    <3> QED BY <3>1 DEF Tells, At
  <2>3. p # Null
    <3>1. p \in Addr /\ map \in Map
      BY <1>2, <2>1, SolidFacts
    <3> QED BY <3>1, MapFacts
  <2>4. map' = Popped(map, p) /\ UNCHANGED <<iters, held>>
    BY <1>4, <2>2, <2>3 DEF Pop, Call, Popped
  <2>5. map' = Popped(map, c[i])
    BY <2>1, <2>4
  <2>6. Lost(map, c, n, Nobody, i, map')
    BY <1>2, <2>5, RemoveIs
  <2>7. \E e : Solid(map', e)
    BY <1>2, <2>6, LostSolid
  <2> QED BY <1>1, <2>4, <2>7, CallSafe
<1> QED BY <1>3, <1>4

(* A new index tells of no nodes. *)
LEMMA BareTells ==
  ASSUME NEW d, d.index = Index!new, NEW S, S = {}
  PROVE  Tells(d, S)
<1>1. \A k \in Nat : Index!get(d.index, k) = Null
  BY NewIndexIs
<1> QED BY <1>1 DEF Tells

(* What clear leaves: the guard and the free list, and no entry. *)
LEMMA ClearIs ==
  ASSUME Safe(map, iters, held), Clear
  PROVE  \E e : SolidOf(map', e, 0)
<1>1. Writable /\ map' = clear(map) /\ UNCHANGED <<iters, held>>
  BY DEF Clear, Call
<1>2. PICK c : Solid(map, c)
  BY <1>1, WritableIs
<1> DEFINE n == map.index.n
           d == clear(map)
           e == Alone(map.head)
<1>3. PICK f, k : Linked(map, c, n, f, k, Nobody)
  BY <1>2 DEF Solid
<1>4. /\ Linked(d, e, 0, f, k, Nobody) /\ d.index = Index!new /\ d.present = map.present
  <2>1. d = clear(map)
    OBVIOUS
  <2> HIDE DEF d, n, Nobody
  <2> QED BY <1>3, <2>1, ClearLinked DEF e
<1>5. d.index.n = 0 /\ Members(e, 0) = {} /\ d.present = TRUE
  BY <1>2, <1>4, NewIndexIs, AloneIs, SolidFacts
<1> DEFINE S == Members(e, 0)
<1>6. Tells(d, S)
  <2> HIDE DEF d, e
  <2> QED BY <1>4, <1>5, BareTells
<1>7. Solid(d, e)
  <2> HIDE DEF d, e
  <2> QED BY <1>4, <1>5, <1>6 DEF Solid
<1> QED BY <1>1, <1>5, <1>7 DEF SolidOf

(* clear keeps the invariant. *)
LEMMA ClearSafe ==
  ASSUME Safe(map, iters, held), Clear
  PROVE  Safe(map', iters', held')
<1>1. Writable /\ UNCHANGED <<iters, held>>
  BY DEF Clear, Call
<1>2. PICK e : Solid(map', e)
  BY ClearIs DEF SolidOf
<1> QED BY <1>1, <1>2, CallSafe

(* What shrink_to_fit leaves: every entry as it was. *)
LEMMA ShrinkIs ==
  ASSUME Safe(map, iters, held), ShrinkToFit
  PROVE  \E c, n : /\ SolidOf(map, c, n) /\ SolidOf(map', c, n)
                   /\ \A p \in Members(c, n) : map'.key[p] = map.key[p] /\ map'.value[p] = map.value[p]
<1> DEFINE g == clear_free_list(map)
           ix == Index!shrink_to_fit(map.index)
           n == map.index.n
           d == [g EXCEPT !.index = ix]
<1>1. Writable /\ map' = [g EXCEPT !.index = Index!shrink_to_fit(@)] /\ UNCHANGED <<iters, held>>
  BY DEF ShrinkToFit, Call
<1>2. PICK c : Solid(map, c)
  BY <1>1, WritableIs
<1>3. PICK f, k : Linked(map, c, n, f, k, Nobody) /\ Tells(map, Members(c, n))
  BY <1>2 DEF Solid
<1>4. Linked(g, c, n, NoSpares, 0, Nobody) /\ Outside(g, map, Spares(f, k))
  <2>1. g = clear_free_list(map)
    OBVIOUS
  <2> HIDE DEF g, n, Nobody
  <2> QED BY <1>3, <2>1, ClearFreeLinked
<1>5. /\ ix \in IndexMap /\ ix.n = n
      /\ \A j \in Nat : Index!get(ix, j) = Index!get(map.index, j)
  <2>1. map.index \in IndexMap /\ ix = Index!shrink_to_fit(map.index)
    BY <1>2, SolidFacts
  <2> HIDE DEF ix
  <2> QED BY <2>1, IndexShrinkIs
<1>6. map' = d
  BY <1>1, <1>4 DEF Outside
<1>7. /\ Linked(d, c, n, NoSpares, 0, Nobody) /\ d.index = ix /\ d.present = g.present
      /\ d.key = g.key /\ d.value = g.value
  <2>1. d = [g EXCEPT !.index = ix]
    OBVIOUS
  <2> HIDE DEF d, g, ix, n
  <2> QED BY <1>4, <1>5, <2>1, IndexOnly
<1> HIDE DEF d, g, ix
<1>8. \A p \in Members(c, n) : d.key[p] = map.key[p] /\ d.value[p] = map.value[p] /\ map.value[p] \in Values
  <2>1. Members(c, n) \cap Spares(f, k) = {} /\ Members(c, n) \subseteq Node
    <3>1. Members(c, n) \cap Spares(f, k) = {}
      BY <1>3, LinkedFacts
    <3> QED BY <1>2, <3>1, SolidFacts
  <2>2. \A p \in Members(c, n) : g.key[p] = map.key[p] /\ g.value[p] = map.value[p]
    BY <1>4, <2>1 DEF Outside
  <2> QED BY <1>3, <1>7, <2>2 DEF Tells
<1> DEFINE S == Members(c, n)
<1>9. /\ Tells(map, S) /\ (\A j \in Nat : Index!get(d.index, j) = Index!get(map.index, j))
      /\ \A p \in S : d.key[p] = map.key[p] /\ d.value[p] \in Values
  BY <1>3, <1>5, <1>7, <1>8
<1> HIDE DEF S
<1>10. Tells(d, S)
  BY ONLY <1>9, TellsKept
<1>11. d.present = TRUE
  BY <1>2, <1>4, <1>7, SolidFacts DEF Outside
<1>12. Solid(d, c)
  BY <1>5, <1>7, <1>10, <1>11 DEF Solid, S
<1>13. SolidOf(map, c, n) /\ SolidOf(d, c, n)
  BY <1>2, <1>5, <1>7, <1>12 DEF SolidOf
<1> QED BY <1>6, <1>8, <1>13

(* shrink_to_fit keeps the invariant. *)
LEMMA ShrinkSafe ==
  ASSUME Safe(map, iters, held), ShrinkToFit
  PROVE  Safe(map', iters', held')
<1>1. Writable /\ UNCHANGED <<iters, held>>
  BY DEF ShrinkToFit, Call
<1>2. PICK c : Solid(map', c)
  BY ShrinkIs DEF SolidOf
<1> QED BY <1>1, <1>2, CallSafe

(* A map that was consumed satisfies the invariant, with what iterators still own. *)
LEMMA GoneSafe ==
  ASSUME NEW d, NEW its, GoneSide(d, its), NEW h, h = {}
  PROVE  Safe(d, its, h)
<1> DEFINE c == Alone(Null)
           X == Loose(d, its)
<1>1. /\ Linked(d, c, 0, NoSpares, 0, X)
      /\ d.index = Index!new /\ d.head = Null /\ d.free = Null /\ d.present = FALSE
  BY DEF GoneSide, Consumed
<1>2. d.index.n = 0 /\ Members(c, 0) = {}
  BY <1>1, NewIndexIs, AloneIs
<1>3. Tells(d, Members(c, 0))
  BY <1>1, <1>2, BareTells
<1>4. Stands(d, its, h, c, NoSpares, 0)
  BY DEF Stands, GoneSide
<1>5. Borrows(d, its, h, c)
  BY <1>1 DEF Borrows, GoneSide
<1>6. Sound(d, its, h, c, NoSpares, 0)
  BY <1>1, <1>2, <1>3, <1>4, <1>5 DEF Sound
<1> QED BY <1>6 DEF Safe, GoneSide

(* What a drop of the map leaves: nothing. *)
LEMMA DropMapIs ==
  ASSUME Safe(map, iters, held), DropMap
  PROVE  Consumed(map', Nobody)
<1>1. Writable /\ map' = drop(map) /\ UNCHANGED <<iters, held>> /\ iters = <<>> /\ held = {}
  BY DEF DropMap, Call, Writable
<1>2. PICK c : Solid(map, c)
  BY <1>1, WritableIs
<1>3. PICK f, k : Linked(map, c, map.index.n, f, k, Nobody)
  BY <1>2 DEF Solid
<1> DEFINE d == drop(map)
<1>4. Consumed(d, Nobody)
  <2>1. d = drop(map)
    OBVIOUS
  <2> HIDE DEF d, Nobody
  <2> QED BY <1>3, <2>1, DropLinked
<1> QED BY <1>1, <1>4

(* Dropping the map frees all it has. *)
LEMMA DropMapSafe ==
  ASSUME Safe(map, iters, held), DropMap
  PROVE  Safe(map', iters', held')
<1>1. UNCHANGED <<iters, held>> /\ iters = <<>> /\ held = {}
  BY DEF DropMap, Call, Writable
<1> DEFINE d == map'
<1>4. Consumed(d, Nobody)
  BY DropMapIs
<1> HIDE DEF d
<1>5. Loose(d, iters) = Nobody
  BY <1>1, NoLooseIs
<1>6. GoneSide(d, iters)
  <2>1. iters \in Seq(Iterator) /\ DOMAIN iters = {}
    BY <1>1
  <2> QED BY <1>4, <1>5, <2>1 DEF GoneSide
<1>7. Safe(d, iters, held)
  BY <1>1, <1>6, GoneSafe
<1> QED BY <1>1, <1>7 DEF d

(* A new map keeps the invariant. *)
LEMMA NewSafe ==
  ASSUME Safe(map, iters, held), New
  PROVE  Safe(map', iters', held')
<1>1. /\ ~map.present /\ iters = <<>> /\ map' = [map EXCEPT !.present = TRUE]
      /\ iters' = iters /\ held' = held
  BY DEF New, Call
<1>2. PICK c, f, k : Sound(map, iters, held, c, f, k)
  BY DEF Safe
<1> DEFINE n == map.index.n
           d == [map EXCEPT !.present = TRUE]
<1>3. /\ map \in Map /\ Linked(map, c, n, f, k, Loose(map, iters)) /\ Tells(map, Members(c, n))
      /\ held \subseteq Members(c, n)
  BY <1>2, SoundFacts DEF Safe
<1>4. Loose(map, iters) = Nobody
  BY <1>1, NoLooseIs
<1>5. /\ d \in Map /\ d.head = map.head /\ d.free = map.free /\ d.live = map.live /\ d.next = map.next
      /\ d.prev = map.prev /\ d.index = map.index /\ d.key = map.key /\ d.value = map.value
      /\ d.present = TRUE
  BY <1>3 DEF Map
<1> HIDE DEF d
<1>6. Linked(d, c, n, f, k, Nobody)
  <2>1. Ring(d, c, n) /\ Chain(d, f, k) /\ Guard(d) = Guard(map)
    BY <1>3, <1>5 DEF Linked, Ring, Chain, Guard
  <2> QED BY <1>3, <1>4, <1>5, <2>1 DEF Linked
<1>7. Tells(d, Members(c, n))
  BY <1>3, <1>5 DEF Tells
<1>8. Solid(d, c)
  BY <1>5, <1>6, <1>7 DEF Solid
<1>9. Safe(d, iters, held)
  BY <1>1, <1>3, <1>5, <1>8, AloneSafe
<1> QED BY <1>1, <1>9 DEF d

(* A ring of which a node moves to the back keeps the others in their order. *)
LEMMA MovedShifted ==
  ASSUME NEW m, NEW c, NEW n, SolidOf(m, c, n), NEW i \in 1 .. n
  PROVE  Shifted(c, Moved(c, n, i), n, i)
<1> DEFINE e == Moved(c, n, i)
<1>1. n \in Nat /\ (\A a, b \in 1 .. n : c[a] = c[b] => a = b)
  BY ONLY SolidOf(m, c, n), SolidRing
<1>2. c \in [0 .. n + 1 -> Node]
  <2>1. PICK f, k : Linked(m, c, n, f, k, Nobody)
    BY DEF Solid, SolidOf
  <2>2. m \in Map /\ Ring(m, c, n)
    BY <2>1, LinkedFacts
  <2> QED BY <2>2 DEF Ring
<1>3. \A j \in 1 .. n : e[j] = IF j < i THEN c[j] ELSE IF j < n THEN c[j + 1] ELSE c[i]
  BY <1>1, <1>2, MovedIs
<1> HIDE DEF e
<1>4. \A j \in 1 .. n - 1 : j \in 1 .. n /\ j < n
  BY <1>1
<1>5. Shifted(c, e, n, i)
  BY <1>3, <1>4 DEF Shifted
<1> QED BY <1>5 DEF e

(* A ring that loses a node keeps the others in their order. *)
LEMMA CutShifted ==
  ASSUME NEW m, NEW c, NEW n, SolidOf(m, c, n), NEW i \in 1 .. n
  PROVE  Shifted(c, Cut(c, n, i), n, i)
<1>1. n \in Nat
  BY ONLY SolidOf(m, c, n), SolidRing
<1>2. \A j \in 1 .. n - 1 : j \in 0 .. n
  BY <1>1
<1> QED BY <1>2 DEF Shifted, Cut

(* An iterator of entries does not see the removal or the move of an entry it has yielded. *)
LEMMA WindowIs ==
  ASSUME NEW n \in Nat, NEW c, NEW e, NEW i \in 1 .. n, Shifted(c, e, n, i),
         NEW it \in Iterator, it.type = "Entries", NEW h, NEW g, g \subseteq h,
         c[i] \in h, InRing(c, n, it, h)
  PROVE  InRing(e, n, it, g) /\ InRing(e, n - 1, it, g)
<1> DEFINE r == it.remaining
<1>1. r \in Nat
  BY DEF Iterator
<1>2. PICK a \in 1 .. n + 1 : /\ a + r <= n + 1 /\ (r # 0 => it.head = c[a])
                              /\ \A j \in a .. a + r - 1 : c[j] \notin h
  BY DEF InRing
<1>3. i < a \/ i >= a + r
  <2>1. i \in a .. a + r - 1 => FALSE
    BY <1>2
  <2> QED BY <1>1, <2>1
<1> DEFINE b == IF i < a THEN a - 1 ELSE a
<1>4. b \in 1 .. n /\ b \in 1 .. n + 1 /\ b + r <= n /\ b \in 1 .. (n - 1) + 1 /\ (n - 1) + 1 = n
  <2> HIDE DEF r
  <2>1. CASE i < a
    <3>1. b = a - 1
      BY <2>1
    <3> HIDE DEF b
    <3> QED BY <1>1, <1>2, <2>1, <3>1
  <2>2. CASE ~(i < a)
    <3>1. b = a /\ i >= a + r
      BY <1>3, <2>2
    <3> HIDE DEF b
    <3> QED BY <1>1, <1>2, <2>2, <3>1
  <2> QED BY <2>1, <2>2
<1>5. ASSUME NEW j \in b .. b + r - 1
      PROVE  /\ e[j] \notin g
             /\ j = b => e[j] = c[a]
  <2>1. j \in 1 .. n - 1
    BY <1>1, <1>4
  <2>2. CASE i < a
    <3>1. j >= i /\ j + 1 \in a .. a + r - 1
      BY <1>1, <1>2, <2>2
    <3>2. e[j] = c[j + 1]
      BY <2>1, <3>1 DEF Shifted
    <3>3. j = b => j + 1 = a
      BY <1>2, <2>2
    <3> QED BY <1>2, <3>1, <3>2, <3>3
  <2>3. CASE ~(i < a)
    <3>1. j < i /\ j \in a .. a + r - 1
      BY <1>1, <1>2, <1>3, <2>3
    <3>2. e[j] = c[j]
      BY <2>1, <3>1 DEF Shifted
    <3> QED BY <1>2, <2>3, <3>1, <3>2
  <2> QED BY <2>2, <2>3
<1>6. r # 0 => it.head = e[b]
  <2> HIDE DEF b, r
  <2>1. r # 0 => b \in b .. b + r - 1
    BY <1>1, <1>4
  <2>2. r # 0 => e[b] = c[a]
    BY <1>5, <2>1
  <2> QED BY <1>2, <2>2
<1>7. b + r <= n + 1
  BY <1>1, <1>4
<1> HIDE DEF b
<1>8. InRing(e, n, it, g)
  BY <1>4, <1>5, <1>6, <1>7 DEF InRing
<1>9. InRing(e, n - 1, it, g)
  BY <1>4, <1>5, <1>6 DEF InRing
<1> QED BY <1>8, <1>9

(* What the invariant says when the caller holds an entry. *)
LEMMA HeldIs ==
  ASSUME Safe(map, iters, held), NEW p \in held
  PROVE  \E c : HeldSide(map, c, iters, held)
<1>1. PICK c, f, k : Sound(map, iters, held, c, f, k)
  BY DEF Safe
<1>2. iters \in Seq(Iterator) /\ Borrows(map, iters, held, c) /\ Stands(map, iters, held, c, f, k)
  BY <1>1 DEF Safe, Sound
<1>3. map.present /\ (iters = <<>> \/ (Len(iters) = 1 /\ iters[1].type = "Entries"))
  BY <1>2 DEF Borrows
<1>4. Solid(map, c)
  <2>1. map.present = TRUE
    BY <1>1, <1>2, <1>3, SoundFacts, MapFacts
  <2> QED BY <1>1, <1>2, <2>1, SoundSolid
<1>5. Len(iters) = 1 /\ iters[1].type = "Entries" => InRing(c, map.index.n, iters[1], held)
  <2>1. Len(iters) = 1 => 1 \in DOMAIN iters
    BY <1>2
  <2> QED BY <1>2, <2>1 DEF Stands
<1>6. held \subseteq Members(c, map.index.n)
  BY <1>2 DEF Borrows
<1> QED BY <1>2, <1>3, <1>4, <1>5, <1>6 DEF HeldSide

(* A map with held entries satisfies the invariant. *)
LEMMA HeldSafe ==
  ASSUME NEW m, NEW c, NEW its, NEW h, HeldSide(m, c, its, h)
  PROVE  Safe(m, its, h)
<1>1. Solid(m, c) /\ h \subseteq Members(c, m.index.n) /\ its \in Seq(Iterator)
  BY DEF HeldSide
<1>2. CASE its = <<>>
  BY <1>1, <1>2, AloneSafe
<1>3. CASE Len(its) = 1 /\ its[1].type = "Entries" /\ InRing(c, m.index.n, its[1], h)
  <2>1. m.present = TRUE
    BY <1>1, SolidFacts
  <2>2. Borrows(m, its, h, c)
    BY <1>1, <1>3, <2>1 DEF Borrows
  <2>3. \A i \in DOMAIN its : its[i].type \in {"Iter", "IterMut", "Entries"} /\ InRing(c, m.index.n, its[i], h)
    <3>1. \A i \in DOMAIN its : i = 1
      BY <1>1, <1>3
    <3> QED BY <1>3, <3>1
  <2> QED BY <1>1, <2>2, <2>3, RingSafe DEF RingSide
<1> QED BY <1>2, <1>3 DEF HeldSide

(* Dropping an occupied entry keeps the invariant. *)
LEMMA OccupiedDropSafe ==
  ASSUME Safe(map, iters, held), NEW p \in held, OccupiedDrop(p)
  PROVE  Safe(map', iters', held')
<1>1. map' = map /\ iters' = iters /\ held' = held \ {p}
  BY DEF OccupiedDrop
<1>2. PICK c : HeldSide(map, c, iters, held)
  BY HeldIs
<1>3. InRing(c, map.index.n, iters[1], held) => InRing(c, map.index.n, iters[1], held')
  BY <1>1 DEF InRing
<1>4. HeldSide(map, c, iters, held')
  BY <1>1, <1>2, <1>3 DEF HeldSide
<1>5. Safe(map, iters, held')
  BY <1>4, HeldSafe
<1> QED BY <1>1, <1>5

(* The entry of a held node. *)
LEMMA HeldEntry ==
  ASSUME NEW p \in held, NEW c, HeldSide(map, c, iters, held)
  PROVE  /\ Solid(map, c) /\ map.key[p] \in Keys /\ map.value[p] \in Values
         /\ \E i \in 1 .. map.index.n : c[i] = p
<1>1. Solid(map, c) /\ p \in Members(c, map.index.n)
  BY DEF HeldSide
<1>2. Tells(map, Members(c, map.index.n))
  BY <1>1, SolidFacts
<1> QED BY <1>1, <1>2 DEF Members, Tells

(* A change through a held entry, with the iterator of entries still walking. *)
LEMMA HeldSeen ==
  ASSUME NEW c, HeldSide(map, c, iters, held), NEW n, n = map.index.n, NEW i \in 1 .. n, c[i] \in held,
         NEW d, NEW e, Solid(d, e), Shifted(c, e, n, i),
         d.index.n = n \/ d.index.n = n - 1, NEW g, g \subseteq held, g \subseteq Members(e, d.index.n)
  PROVE  Safe(d, iters, g)
<1>1. iters \in Seq(Iterator) /\ n \in Nat
  BY SolidFacts DEF HeldSide
<1>2. Len(iters) = 1 => iters[1] \in Iterator
  <2>1. Len(iters) = 1 => 1 \in DOMAIN iters
    BY <1>1
  <2>2. \A j \in DOMAIN iters : iters[j] \in Iterator
    BY <1>1
  <2> QED BY <2>1, <2>2
<1>3. ASSUME Len(iters) = 1, iters[1].type = "Entries", InRing(c, n, iters[1], held)
      PROVE  InRing(e, d.index.n, iters[1], g)
  <2> DEFINE it == iters[1]
             h == held
  <2>1. /\ n \in Nat /\ i \in 1 .. n /\ Shifted(c, e, n, i) /\ it \in Iterator /\ it.type = "Entries"
        /\ g \subseteq h /\ c[i] \in h /\ InRing(c, n, it, h)
    BY <1>1, <1>2, <1>3
  <2> HIDE DEF it, h
  <2>2. InRing(e, n, it, g) /\ InRing(e, n - 1, it, g)
    BY ONLY <2>1, WindowIs
  <2> QED BY <2>2 DEF it
<1>4. HeldSide(d, e, iters, g)
  BY <1>1, <1>3 DEF HeldSide
<1> QED BY <1>4, HeldSafe

(* OccupiedEntry::insert keeps the invariant. *)
LEMMA OccupiedInsertSafe ==
  ASSUME Safe(map, iters, held), NEW p \in held, NEW v \in Given[map.key[p]], OccupiedInsert(p, v)
  PROVE  Safe(map', iters', held')
<1>1. /\ map' = Refreshed([ensure_guard_node(map) EXCEPT !.value[p] = v], p)
      /\ iters' = iters /\ held' = held
  BY DEF OccupiedInsert, Call
<1>2. PICK c : HeldSide(map, c, iters, held)
  BY HeldIs
<1> DEFINE n == map.index.n
<1>3. Solid(map, c) /\ map.key[p] \in Keys /\ \E i \in 1 .. n : c[i] = p
  BY <1>2, HeldEntry
<1>4. PICK i \in 1 .. n : c[i] = p
  BY <1>3
<1>5. v \in Values
  BY <1>3, GivenIs
<1>6. Renewed(map, c, n, i, v, map')
  BY <1>1, <1>3, <1>4, <1>5, RewriteIs
<1> DEFINE e == Moved(c, n, i)
<1>7. Shifted(c, e, n, i)
  BY <1>3, MovedShifted DEF SolidOf
<1>8. Solid(map', e) /\ map'.index.n = n /\ Members(e, n) = Members(c, n)
  BY <1>6 DEF Renewed
<1>9. held \subseteq Members(c, n)
  BY <1>2 DEF HeldSide
<1>10. Safe(map', iters, held)
  <2> HIDE DEF e
  <2> QED BY <1>2, <1>4, <1>7, <1>8, <1>9, HeldSeen
<1> QED BY <1>1, <1>10

(* OccupiedEntry::remove keeps the invariant. *)
LEMMA OccupiedRemoveSafe ==
  ASSUME Safe(map, iters, held), NEW p \in held, OccupiedRemove(p)
  PROVE  Safe(map', iters', held')
<1>1. map' = remove(map, map.key[p]) /\ iters' = iters /\ held' = held \ {p}
  BY DEF OccupiedRemove
<1>2. PICK c : HeldSide(map, c, iters, held)
  BY HeldIs
<1> DEFINE n == map.index.n
<1>3. Solid(map, c) /\ \E i \in 1 .. n : c[i] = p
  BY <1>2, HeldEntry
<1>4. PICK i \in 1 .. n : c[i] = p
  BY <1>3
<1>5. Lost(map, c, n, Nobody, i, map')
  <2>1. map' = remove(map, map.key[c[i]])
    BY <1>1, <1>4
  <2> QED BY <1>3, <2>1, RemoveIs
<1> DEFINE e == Cut(c, n, i)
<1>6. Solid(map', e) /\ map'.index.n = n - 1
  BY <1>3, <1>5, LostSolid
<1>7. n \in Nat /\ (\A a, b \in 1 .. n : c[a] = c[b] => a = b)
  BY <1>3, SolidFacts
<1>8. Shifted(c, e, n, i)
  BY <1>3, CutShifted DEF SolidOf
<1>9. Members(e, n - 1) = Members(c, n) \ {p}
  <2> HIDE DEF n
  <2> QED BY <1>4, <1>7, CutMembers
<1>10. held' \subseteq Members(e, n - 1) /\ held' \subseteq held
  BY <1>1, <1>2, <1>9 DEF HeldSide
<1>11. Safe(map', iters, held')
  <2> DEFINE g == held'
             d == map'
  <2>1. /\ HeldSide(map, c, iters, held) /\ n = map.index.n /\ i \in 1 .. n /\ c[i] \in held
        /\ Solid(d, e) /\ Shifted(c, e, n, i) /\ d.index.n = n - 1
        /\ g \subseteq held /\ g \subseteq Members(e, d.index.n)
    BY <1>2, <1>4, <1>6, <1>8, <1>10
  <2> HIDE DEF g, d, e, n
  <2>2. Safe(d, iters, g)
    BY ONLY <2>1, HeldSeen
  <2> QED BY <2>2 DEF g, d
<1> QED BY <1>1, <1>11

(* What the invariant says beside an iterator over the ring. *)
LEMMA RingSideIs ==
  ASSUME Safe(map, iters, held), NEW i \in DOMAIN iters, iters[i].type \in RingKind
  PROVE  /\ \E c : RingSide(map, c, iters, held)
         /\ iters[i].type = "Iter" => held = {} /\ \A j \in DOMAIN iters : iters[j].type = "Iter"
         /\ iters[i].type # "Iter" => Len(iters) = 1 /\ i = 1
         /\ iters[i].type = "IterMut" => held = {}
         /\ DOMAIN iters = 1 .. Len(iters) /\ Len(iters) \in Nat /\ iters[i] \in Iterator
<1>1. PICK c, f, k : Sound(map, iters, held, c, f, k)
  BY DEF Safe
<1>2. iters \in Seq(Iterator) /\ Borrows(map, iters, held, c) /\ Stands(map, iters, held, c, f, k)
  BY <1>1 DEF Safe, Sound
<1>3. DOMAIN iters = 1 .. Len(iters) /\ Len(iters) \in Nat /\ iters[i] \in Iterator
  BY <1>2
<1>4. /\ map.present
      /\ \/ held = {} /\ \A j \in DOMAIN iters : iters[j].type = "Iter"
         \/ held = {} /\ Len(iters) = 1 /\ iters[1].type = "IterMut"
         \/ Len(iters) = 1 /\ iters[1].type = "Entries"
  <2>1. Len(iters) = 1 => i = 1
    BY <1>3
  <2>2. iters # <<>>
    BY <1>3
  <2> QED BY <1>2, <2>1, <2>2 DEF Borrows, RingKind
<1>5. map.present = TRUE
  BY <1>1, <1>2, <1>4, SoundFacts, MapFacts
<1>6. Solid(map, c)
  BY <1>1, <1>2, <1>5, SoundSolid
<1>7. \A j \in DOMAIN iters : iters[j].type \in RingKind
  <2>1. Len(iters) = 1 => \A j \in DOMAIN iters : j = 1
    BY <1>3
  <2> QED BY <1>4, <2>1 DEF RingKind
<1>8. RingSide(map, c, iters, held)
  <2>1. \A j \in DOMAIN iters : InRing(c, map.index.n, iters[j], held)
    BY <1>2, <1>7 DEF Stands, RingKind
  <2> QED BY <1>2, <1>6, <1>7, <2>1 DEF RingSide, RingKind
<1>9. iters[i].type = "Iter" => held = {} /\ \A j \in DOMAIN iters : iters[j].type = "Iter"
  <2>1. Len(iters) = 1 => i = 1
    BY <1>3
  <2> QED BY <1>4, <2>1
<1>10. iters[i].type # "Iter" => Len(iters) = 1 /\ i = 1
  <2>1. Len(iters) = 1 => i = 1
    BY <1>3
  <2> QED BY <1>4, <2>1
<1>11. iters[i].type = "IterMut" => held = {}
  <2>1. Len(iters) = 1 => i = 1
    BY <1>3
  <2> QED BY <1>4, <2>1
<1> QED BY <1>3, <1>8, <1>9, <1>10, <1>11

(* One iterator of a map is elsewhere. *)
LEMMA RingSeen ==
  ASSUME NEW c, RingSide(map, c, iters, held), NEW i \in DOMAIN iters,
         NEW it \in Iterator, it.type = iters[i].type, NEW d, Solid(d, c), d.index.n = map.index.n,
         NEW g, g \subseteq Members(c, d.index.n), InRing(c, d.index.n, it, g),
         \/ g = held
         \/ it.type = "Entries" /\ Len(iters) = 1,
         NEW its, its = [iters EXCEPT ![i] = it]
  PROVE  Safe(d, its, g)
<1>1. iters \in Seq(Iterator) /\ Borrows(map, iters, held, c)
  BY DEF RingSide
<1>2. /\ its \in Seq(Iterator) /\ DOMAIN its = DOMAIN iters /\ Len(its) = Len(iters) /\ its[i] = it
      /\ \A j \in DOMAIN iters : j # i => its[j] = iters[j]
  BY <1>1
<1>3. DOMAIN iters = 1 .. Len(iters) /\ Len(iters) \in Nat
  BY <1>1
<1>4. \A j \in DOMAIN its : its[j].type = iters[j].type
  BY <1>2
<1>5. \A j \in DOMAIN its : its[j].type \in {"Iter", "IterMut", "Entries"} /\ InRing(c, d.index.n, its[j], g)
  <2>1. Len(iters) = 1 => \A j \in DOMAIN iters : j = i
    BY <1>3
  <2>2. \A j \in DOMAIN iters : iters[j].type \in {"Iter", "IterMut", "Entries"} /\ InRing(c, map.index.n, iters[j], held)
    BY DEF RingSide
  <2> QED BY <1>2, <2>1, <2>2
<1>6. Borrows(d, its, g, c)
  <2>1. d.present = TRUE /\ map.present = TRUE
    BY SolidFacts DEF RingSide
  <2>2. CASE g = held
    <3>1. Len(iters) = 1 => 1 \in DOMAIN iters
      BY <1>3
    <3>2. its # <<>>
      BY <1>2
    <3> QED BY <1>1, <1>2, <1>4, <2>1, <2>2, <3>1, <3>2 DEF Borrows
  <2>3. CASE it.type = "Entries" /\ Len(iters) = 1
    <3>1. i = 1
      BY <1>3, <2>3
    <3> QED BY <1>2, <2>1, <2>3, <3>1 DEF Borrows
  <2> QED BY <2>2, <2>3
<1>7. RingSide(d, c, its, g)
  BY <1>2, <1>5, <1>6 DEF RingSide
<1> QED BY <1>7, RingSafe

(* next moves an iterator over the ring one entry on. *)
LEMMA NextWindow ==
  ASSUME NEW m, NEW c, NEW n, NEW it, NEW h, NEW jt, NEW g,
         NextAt(m, c, n, it, h, jt, g)
  PROVE  /\ jt \in Iterator /\ jt.type = it.type /\ InRing(c, n, jt, g)
         /\ \E a \in 1 .. n : it.head = c[a]
<1>0. /\ Solid(m, c) /\ n = m.index.n /\ it \in Iterator /\ it.type \in RingKind
      /\ InRing(c, n, it, h) /\ ~Ended(it)
      /\ jt = [[it EXCEPT !.head = m.prev[@]] EXCEPT !.remaining = @ - 1]
      /\ g = IF it.type = "Entries" THEN h \cup {it.head} ELSE h
  BY DEF NextAt
<1> USE <1>0
<1> DEFINE r == it.remaining
<1>1. r \in Nat /\ it.head \in Node /\ it.tail \in Node
  BY DEF Iterator
<1>2. PICK a \in 1 .. n + 1 :
         /\ a + r <= n + 1
         /\ it.type \in {"Iter", "IterMut"} => it.head = c[a] /\ it.tail = c[a + r]
         /\ it.type = "Entries" =>
               /\ r # 0 => it.head = c[a]
               /\ \A j \in a .. a + r - 1 : c[j] \notin h
  BY DEF InRing
<1>3. /\ n \in Nat /\ m.prev \in [Node -> Node]
      /\ \A i \in 0 .. n : m.prev[c[i]] = c[i + 1]
      /\ \A i, j \in 1 .. n : c[i] = c[j] => i = j
  <2>1. SolidOf(m, c, n)
    BY DEF SolidOf
  <2> QED BY ONLY <2>1, SolidRing
<1>4. r # 0
  <2>1. a + 0 = a
    BY <1>3
  <2>2. CASE it.type \in {"Iter", "IterMut"}
    BY <1>2, <2>1, <2>2 DEF Ended
  <2>3. CASE it.type = "Entries"
    BY <2>3 DEF Ended
  <2> QED BY <2>2, <2>3 DEF RingKind
<1>5. a \in 1 .. n /\ a \in 0 .. n /\ a + 1 \in 1 .. n + 1 /\ (a + 1) + (r - 1) = a + r /\ r - 1 \in Nat
  <2> HIDE DEF r
  <2> QED BY <1>1, <1>2, <1>3, <1>4
<1>6. it.head = c[a]
  BY <1>2, <1>4 DEF RingKind
<1>7. m.prev[it.head] = c[a + 1] /\ m.prev[it.head] \in Node
  BY <1>1, <1>3, <1>5, <1>6
<1>8. /\ jt \in Iterator /\ jt.type = it.type /\ jt.head = c[a + 1] /\ jt.tail = it.tail
      /\ jt.remaining = r - 1
  BY <1>5, <1>7 DEF Iterator
<1>9. ASSUME it.type = "Entries", NEW j \in (a + 1) .. (a + 1) + (r - 1) - 1 PROVE c[j] \notin g
  <2>1. j \in a .. a + r - 1 /\ j \in 1 .. n /\ j # a
    <3> HIDE DEF r
    <3> QED BY <1>1, <1>2, <1>3, <1>5
  <2> QED BY <1>2, <1>3, <1>5, <1>6, <1>9, <2>1
<1> HIDE DEF r
<1>10. InRing(c, n, jt, g)
  <2> DEFINE b == a + 1
  <2>1. /\ b + jt.remaining <= n + 1
        /\ jt.type \in {"Iter", "IterMut"} => jt.head = c[b] /\ jt.tail = c[b + jt.remaining]
    BY <1>2, <1>5, <1>8
  <2>2. jt.type = "Entries" =>
               /\ jt.remaining # 0 => jt.head = c[b]
               /\ \A j \in b .. b + jt.remaining - 1 : c[j] \notin g
    BY <1>8, <1>9
  <2>3. b \in 1 .. n + 1
    BY <1>5
  <2> HIDE DEF b
  <2> QED BY <2>1, <2>2, <2>3 DEF InRing
<1> QED BY <1>5, <1>6, <1>8, <1>10

(* next_back moves its other end one entry back. *)
LEMMA BackWindow ==
  ASSUME NEW m, NEW c, NEW n, NEW it, NEW h, NEW t, NEW jt,
         BackAt(m, c, n, it, h, t, jt)
  PROVE  /\ jt \in Iterator /\ jt.type = it.type /\ InRing(c, n, jt, h)
         /\ \E a \in 1 .. n : t = c[a]
<1>0. /\ Solid(m, c) /\ n = m.index.n /\ it \in Iterator /\ it.type \in {"Iter", "IterMut"}
      /\ InRing(c, n, it, h) /\ ~Ended(it) /\ t = m.next[it.tail]
      /\ jt = [[it EXCEPT !.tail = t] EXCEPT !.remaining = @ - 1]
  BY DEF BackAt
<1> USE <1>0
<1> DEFINE r == it.remaining
<1>1. r \in Nat /\ it.head \in Node /\ it.tail \in Node
  BY DEF Iterator
<1>2. PICK a \in 1 .. n + 1 : a + r <= n + 1 /\ it.head = c[a] /\ it.tail = c[a + r]
  BY DEF InRing
<1>3. /\ n \in Nat /\ m.next \in [Node -> Node]
      /\ \A i \in 0 .. n : m.next[c[i + 1]] = c[i]
  <2>1. SolidOf(m, c, n)
    BY DEF SolidOf
  <2> QED BY ONLY <2>1, SolidRing
<1>4. r # 0
  <2>1. a + 0 = a
    BY <1>3
  <2> QED BY <1>2, <2>1 DEF Ended
<1>5. /\ a + r - 1 \in 1 .. n /\ a + r - 1 \in 0 .. n /\ (a + r - 1) + 1 = a + r
      /\ a + (r - 1) = a + r - 1 /\ a + (r - 1) <= n + 1 /\ r - 1 \in Nat
  <2> HIDE DEF r
  <2> QED BY <1>1, <1>2, <1>3, <1>4
<1>6. t = c[a + r - 1] /\ t \in Node
  BY <1>1, <1>2, <1>3, <1>5
<1>7. /\ jt \in Iterator /\ jt.type = it.type /\ jt.tail = c[a + (r - 1)] /\ jt.head = c[a]
      /\ jt.remaining = r - 1
  BY <1>2, <1>5, <1>6 DEF Iterator
<1>8. InRing(c, n, jt, h)
  <2> HIDE DEF r
  <2>1. jt.type # "Entries"
    BY <1>7
  <2> QED BY <1>2, <1>5, <1>7, <2>1 DEF InRing
<1> QED BY <1>5, <1>6, <1>7, <1>8

(* next of Iter, IterMut and Entries keeps the invariant. *)
LEMMA NextRingSafe ==
  ASSUME Safe(map, iters, held), NEW i \in DOMAIN iters, iters[i].type \in RingKind, next(i)
  PROVE  Safe(map', iters', held')
<1> DEFINE it == iters[i]
           jt == [[it EXCEPT !.head = map.prev[@]] EXCEPT !.remaining = @ - 1]
           g == IF it.type = "Entries" THEN held \cup {it.head} ELSE held
           n == map.index.n
<1>1. /\ ~Ended(it) /\ iters' = [iters EXCEPT ![i] = jt]
      /\ YieldNode([it EXCEPT !.head = map.prev[@]], it.head, map')
      /\ held' = IF [it EXCEPT !.head = map.prev[@]].type = "Entries" THEN held \cup {it.head} ELSE held
  BY DEF next, Yields
<1>2. it \in Iterator
  BY RingSideIs
<1>3. [it EXCEPT !.head = map.prev[@]].type = it.type
  BY <1>2 DEF Iterator
<1>4. PICK c : RingSide(map, c, iters, held)
  BY RingSideIs
<1>5. Solid(map, c) /\ InRing(c, n, it, held) /\ Borrows(map, iters, held, c)
  BY <1>4 DEF RingSide
<1> HIDE DEF jt, g
<1>6. /\ jt \in Iterator /\ jt.type = it.type /\ InRing(c, n, jt, g)
      /\ \E a \in 1 .. n : it.head = c[a]
  <2>1. jt = [[it EXCEPT !.head = map.prev[@]] EXCEPT !.remaining = @ - 1]
    BY DEF jt
  <2>2. g = IF it.type = "Entries" THEN held \cup {it.head} ELSE held
    BY DEF g
  <2> DEFINE h == held
             m == map
  <2>3. /\ Solid(m, c) /\ n = m.index.n /\ it \in Iterator /\ it.type \in RingKind
        /\ InRing(c, n, it, h) /\ ~Ended(it)
        /\ jt = [[it EXCEPT !.head = m.prev[@]] EXCEPT !.remaining = @ - 1]
        /\ g = IF it.type = "Entries" THEN h \cup {it.head} ELSE h
    BY <1>1, <1>2, <1>5, <2>1, <2>2
  <2> HIDE DEF it, n, h, m
  <2>4. NextAt(m, c, n, it, h, jt, g)
    BY ONLY <2>3 DEF NextAt
  <2> QED BY ONLY <2>4, NextWindow
<1>7. PICK a \in 1 .. n : it.head = c[a]
  BY <1>6
<1>8. g \subseteq Members(c, n)
  <2>1. held \subseteq Members(c, n)
    BY <1>5 DEF Borrows
  <2>2. it.head \in Members(c, n)
    BY <1>7 DEF Members
  <2> QED BY <2>1, <2>2 DEF g
<1>9. held' = g
  BY <1>1, <1>3 DEF g
<1>10. g = held \/ (jt.type = "Entries" /\ Len(iters) = 1)
  <2>1. it.type = "Entries" => Len(iters) = 1
    BY RingSideIs
  <2> QED BY <1>6, <2>1 DEF g
<1>11. Solid(map', c) /\ map'.index.n = n
  <2>1. CASE it.type = "IterMut"
    <3>1. \E v \in Given[map.key[it.head]] : map' = [map EXCEPT !.value[it.head] = v]
      BY <1>1, <1>3, <2>1 DEF YieldNode
    <3>2. PICK v \in Given[map.key[c[a]]] : map' = [map EXCEPT !.value[c[a]] = v]
      BY <1>7, <3>1
    <3>3. map.key[c[a]] \in Keys
      <4>1. Tells(map, Members(c, n)) /\ c[a] \in Members(c, n)
        BY <1>5, SolidFacts
      <4> QED BY <4>1 DEF Tells
    <3>4. v \in Values
      BY <3>3, GivenIs
    <3>5. Solid(map', c) /\ map'.index = map.index
      BY <1>5, <3>2, <3>4, WriteIs
    <3> QED BY <3>5
  <2>2. CASE it.type # "IterMut"
    <3>1. map' = map
      BY <1>1, <1>3, <2>2 DEF YieldNode, RingKind
    <3> QED BY <1>5, <3>1
  <2> QED BY <2>1, <2>2
<1>12. Safe(map', iters', g)
  <2> DEFINE d == map'
             its == iters'
  <2>1. /\ RingSide(map, c, iters, held) /\ jt \in Iterator /\ jt.type = iters[i].type
        /\ Solid(d, c) /\ d.index.n = map.index.n /\ g \subseteq Members(c, d.index.n)
        /\ InRing(c, d.index.n, jt, g) /\ (g = held \/ (jt.type = "Entries" /\ Len(iters) = 1))
        /\ its = [iters EXCEPT ![i] = jt] /\ i \in DOMAIN iters
    BY <1>1, <1>4, <1>6, <1>8, <1>10, <1>11 DEF jt
  <2> HIDE DEF d, its
  <2>2. Safe(d, its, g)
    BY ONLY <2>1, RingSeen
  <2> QED BY <2>2 DEF d, its
<1> QED BY <1>9, <1>12

(* next_back of Iter and IterMut keeps the invariant. *)
LEMMA BackRingSafe ==
  ASSUME Safe(map, iters, held), NEW i \in DOMAIN iters, iters[i].type \in RingKind, next_back(i)
  PROVE  Safe(map', iters', held')
<1> DEFINE it == iters[i]
           t == map.next[it.tail]
           jt == [[it EXCEPT !.tail = t] EXCEPT !.remaining = @ - 1]
           n == map.index.n
<1>1. it \in Iterator
  BY RingSideIs
<1>2. [it EXCEPT !.tail = t].type = it.type
  BY <1>1 DEF Iterator
<1>3. /\ it.type \in {"Iter", "IterMut"}
      /\ ~Ended(it) /\ iters' = [iters EXCEPT ![i] = jt]
      /\ YieldNode([it EXCEPT !.tail = t], t, map')
      /\ held' = held
  BY <1>2 DEF next_back, Yields, RingKind
<1>4. PICK c : RingSide(map, c, iters, held)
  BY RingSideIs
<1>5. Solid(map, c) /\ InRing(c, n, it, held) /\ held \subseteq Members(c, n)
  BY <1>4 DEF RingSide, Borrows
<1> HIDE DEF jt
<1>6. /\ jt \in Iterator /\ jt.type = it.type /\ InRing(c, n, jt, held)
      /\ \E a \in 1 .. n : t = c[a]
  <2>1. jt = [[it EXCEPT !.tail = t] EXCEPT !.remaining = @ - 1]
    BY DEF jt
  <2> DEFINE h == held
             m == map
  <2>3. /\ Solid(m, c) /\ n = m.index.n /\ it \in Iterator /\ it.type \in {"Iter", "IterMut"}
        /\ InRing(c, n, it, h) /\ ~Ended(it) /\ t = m.next[it.tail]
        /\ jt = [[it EXCEPT !.tail = t] EXCEPT !.remaining = @ - 1]
    BY <1>1, <1>3, <1>5, <2>1
  <2> HIDE DEF it, n, m, t
  <2>4. /\ jt \in Iterator /\ jt.type = it.type /\ InRing(c, n, jt, h)
        /\ \E a \in 1 .. n : t = c[a]
    <3> HIDE DEF h
    <3>1. BackAt(m, c, n, it, h, t, jt)
      BY ONLY <2>3 DEF BackAt
    <3> QED BY ONLY <3>1, BackWindow
  <2> QED BY <2>4
<1>7. PICK a \in 1 .. n : t = c[a]
  BY <1>6
<1>11. Solid(map', c) /\ map'.index.n = n
  <2>1. CASE it.type = "IterMut"
    <3>1. \E v \in Given[map.key[t]] : map' = [map EXCEPT !.value[t] = v]
      BY <1>2, <1>3, <2>1 DEF YieldNode
    <3>2. PICK v \in Given[map.key[c[a]]] : map' = [map EXCEPT !.value[c[a]] = v]
      BY <1>7, <3>1
    <3>3. map.key[c[a]] \in Keys
      <4>1. Tells(map, Members(c, n)) /\ c[a] \in Members(c, n)
        BY <1>5, SolidFacts
      <4> QED BY <4>1 DEF Tells
    <3>4. v \in Values
      BY <3>3, GivenIs
    <3>5. Solid(map', c) /\ map'.index = map.index
      BY <1>5, <3>2, <3>4, WriteIs
    <3> QED BY <3>5
  <2>2. CASE it.type # "IterMut"
    <3>1. map' = map
      BY <1>2, <1>3, <2>2 DEF YieldNode
    <3> QED BY <1>5, <3>1
  <2> QED BY <2>1, <2>2
<1>12. Safe(map', iters', held)
  <2> DEFINE d == map'
             its == iters'
             g == held
  <2>1. /\ RingSide(map, c, iters, held) /\ jt \in Iterator /\ jt.type = iters[i].type
        /\ Solid(d, c) /\ d.index.n = map.index.n /\ g \subseteq Members(c, d.index.n)
        /\ InRing(c, d.index.n, jt, g) /\ (g = held \/ (jt.type = "Entries" /\ Len(iters) = 1))
        /\ its = [iters EXCEPT ![i] = jt] /\ i \in DOMAIN iters
    BY <1>3, <1>4, <1>5, <1>6, <1>11 DEF jt
  <2> HIDE DEF d, its, g
  <2>2. Safe(d, its, g)
    BY ONLY <2>1, RingSeen
  <2> QED BY <2>2 DEF d, its, g
<1> QED BY <1>3, <1>12

(* iter, iter_mut and entries. *)
LEMMA IterSafe ==
  ASSUME Safe(map, iters, held), NEW type, iter(type)
  PROVE  Safe(map', iters', held')
<1> DEFINE n == map.index.n
           it == [type |-> type, head |-> First, tail |-> IF type = "Entries" THEN Null ELSE map.head,
                  remaining |-> n]
<1>1. /\ type \in RingKind /\ iters' = Append(iters, it) /\ map' = map /\ held' = held
      /\ type = "Iter" => Iterable
      /\ type # "Iter" => Writable
  BY DEF iter, Begin, RingKind
<1>2. held = {} /\ map.present /\ \A j \in DOMAIN iters : iters[j].type = "Iter"
  BY <1>1 DEF Iterable, Writable
<1>3. PICK c, f, k : Sound(map, iters, held, c, f, k)
  BY DEF Safe
<1>4. iters \in Seq(Iterator)
  BY DEF Safe
<1>5. map.present = TRUE
  BY <1>2, <1>3, <1>4, SoundFacts, MapFacts
<1>6. Solid(map, c)
  BY <1>3, <1>4, <1>5, SoundSolid
<1>7. /\ map \in Map /\ n \in Nat /\ c[0] = map.head /\ c[n + 1] = map.head
      /\ \A j \in 0 .. n : map.prev[c[j]] = c[j + 1]
      /\ map.head = Null => n = 0
      /\ \A j \in 0 .. n + 1 : c[j] \in Node
  <2>1. SolidOf(map, c, n)
    BY <1>6 DEF SolidOf
  <2> HIDE DEF n
  <2> QED BY ONLY <2>1, SolidRing
<1>8. First = c[1] /\ First \in Node /\ map.head \in Node
  <2>1. 0 \in 0 .. n /\ 0 + 1 = 1 /\ 1 \in 0 .. n + 1
    BY <1>7
  <2>2. map.head = Null => c[1] = Null
    BY <1>7
  <2> QED BY <1>7, <2>1, <2>2, MapFacts DEF First
<1>9. /\ it \in Iterator /\ it.type = type /\ it.head = c[1] /\ it.remaining = n
      /\ type # "Entries" => it.tail = c[n + 1]
  <2>1. Null \in Node
    BY DEF Node
  <2>2. type \in Kind
    BY <1>1 DEF RingKind, Kind
  <2> QED BY <1>7, <1>8, <2>1, <2>2 DEF Iterator
<1> HIDE DEF it
<1>10. InRing(c, n, it, held)
  <2>1. 1 \in 1 .. n + 1 /\ 1 + n = n + 1
    BY <1>7
  <2> QED BY <1>2, <1>7, <1>9, <2>1 DEF InRing
<1> DEFINE its == Append(iters, it)
<1>11. /\ its \in Seq(Iterator) /\ Len(its) = Len(iters) + 1 /\ DOMAIN its = 1 .. Len(iters) + 1
       /\ Len(iters) \in Nat /\ DOMAIN iters = 1 .. Len(iters)
       /\ \A j \in DOMAIN iters : its[j] = iters[j]
       /\ its[Len(iters) + 1] = it
  BY <1>4, <1>9
<1> HIDE DEF its
<1>12. \A j \in DOMAIN iters : InRing(c, n, iters[j], held)
  BY <1>2, <1>3 DEF Sound, Stands
<1>13. \A j \in DOMAIN its : its[j].type \in {"Iter", "IterMut", "Entries"} /\ InRing(c, n, its[j], held)
  <2>1. \A j \in DOMAIN its : j \in DOMAIN iters \/ j = Len(iters) + 1
    BY <1>11
  <2> QED BY <1>1, <1>2, <1>9, <1>10, <1>11, <1>12, <2>1 DEF RingKind
<1>14. Borrows(map, its, held, c)
  <2>1. CASE type = "Iter"
    <3>1. \A j \in DOMAIN its : j \in DOMAIN iters \/ j = Len(iters) + 1
      BY <1>11
    <3> QED BY <1>2, <1>9, <1>11, <2>1, <3>1 DEF Borrows
  <2>2. CASE type # "Iter"
    <3>1. Len(iters) = 0
      BY <1>1, <2>2 DEF Writable
    <3> QED BY <1>1, <1>2, <1>9, <1>11, <2>2, <3>1 DEF Borrows, RingKind
  <2> QED BY <2>1, <2>2
<1>15. RingSide(map, c, its, held)
  BY <1>6, <1>11, <1>13, <1>14 DEF RingSide
<1>16. Safe(map, its, held)
  BY <1>15, RingSafe
<1> QED BY <1>1, <1>16 DEF its

(* A map beside shared iterators satisfies the invariant. *)
LEMMA SharedSafe ==
  ASSUME NEW m, NEW c, NEW its, NEW h, SharedSide(m, c, its, h)
  PROVE  Safe(m, its, h)
<1>1. m.present = TRUE
  BY SolidFacts DEF SharedSide
<1>2. Borrows(m, its, h, c)
  BY <1>1 DEF Borrows, SharedSide
<1>3. RingSide(m, c, its, h)
  BY <1>2 DEF RingSide, SharedSide
<1> QED BY <1>3, RingSafe

(* Cloning an Iter keeps the invariant. *)
LEMMA CloneSharedSafe ==
  ASSUME Safe(map, iters, held), NEW i \in DOMAIN iters, iters[i].type = "Iter", CloneIter(i)
  PROVE  Safe(map', iters', held')
<1>1. iters' = Append(iters, iters[i]) /\ map' = map /\ held' = held
  BY DEF CloneIter, Begin, clone
<1>2. iters[i].type \in RingKind
  BY DEF RingKind
<1>3. held = {} /\ (\A j \in DOMAIN iters : iters[j].type = "Iter") /\ iters[i] \in Iterator
  BY <1>2, RingSideIs
<1>4. PICK c : RingSide(map, c, iters, held)
  BY <1>2, RingSideIs
<1>5. /\ Solid(map, c) /\ iters \in Seq(Iterator)
      /\ \A j \in DOMAIN iters : InRing(c, map.index.n, iters[j], held)
  BY <1>4 DEF RingSide
<1> DEFINE its == Append(iters, iters[i])
<1>6. /\ its \in Seq(Iterator)
      /\ \A j \in DOMAIN its : (j \in DOMAIN iters /\ its[j] = iters[j]) \/ its[j] = iters[i]
  BY <1>3, <1>5
<1> HIDE DEF its
<1>7. SharedSide(map, c, its, held)
  BY <1>3, <1>5, <1>6 DEF SharedSide
<1>8. Safe(map, its, held)
  BY <1>7, SharedSafe
<1> QED BY <1>1, <1>8 DEF its

(* Dropping an iterator over the ring keeps the invariant. *)
LEMMA DropRingSafe ==
  ASSUME Safe(map, iters, held), NEW i \in DOMAIN iters, iters[i].type \in RingKind, DropIter(i)
  PROVE  Safe(map', iters', held')
<1>1. map' = map /\ iters' = RemoveAt(iters, i) /\ held' = held
  BY DEF DropIter, RingKind
<1>2. DOMAIN iters = 1 .. Len(iters) /\ Len(iters) \in Nat
  BY RingSideIs
<1>3. PICK c : RingSide(map, c, iters, held)
  BY RingSideIs
<1>4. /\ Solid(map, c) /\ iters \in Seq(Iterator) /\ held \subseteq Members(c, map.index.n)
      /\ \A j \in DOMAIN iters : InRing(c, map.index.n, iters[j], held)
  BY SMTT(60), <1>3 DEF RingSide, Borrows
<1> DEFINE its == RemoveAt(iters, i)
<1>5. /\ its \in Seq(Iterator) /\ Len(its) = Len(iters) - 1
      /\ \A j \in 1 .. Len(iters) - 1 : its[j] = IF j < i THEN iters[j] ELSE iters[j + 1]
  BY <1>2, <1>4, RemoveAtIs
<1> HIDE DEF its
<1>6. CASE iters[i].type = "Iter"
  <2>1. held = {} /\ (\A j \in DOMAIN iters : iters[j].type = "Iter")
    BY <1>6, RingSideIs
  <2>2. \A j \in DOMAIN its : j \in 1 .. Len(iters) - 1
    BY <1>5
  <2>3. \A j \in 1 .. Len(iters) - 1 : j \in DOMAIN iters /\ j + 1 \in DOMAIN iters
    BY <1>2
  <2>4. SharedSide(map, c, its, held)
    BY <1>4, <1>5, <2>1, <2>2, <2>3 DEF SharedSide
  <2>5. Safe(map, its, held)
    BY <2>4, SharedSafe
  <2> QED BY <1>1, <2>5 DEF its
<1>7. CASE iters[i].type # "Iter"
  <2>1. Len(iters) = 1
    BY <1>7, RingSideIs
  <2>2. its = <<>>
    BY <1>5, <2>1
  <2>3. Safe(map, its, held)
    BY <1>4, <2>2, AloneSafe
  <2> QED BY <1>1, <2>3 DEF its
<1> QED BY <1>6, <1>7

(* A map beside a drain satisfies the invariant. *)
LEMMA DrainSafe ==
  ASSUME NEW m, NEW c, NEW f, NEW k, NEW its, NEW h, DrainSide(m, c, f, k, its, h)
  PROVE  Safe(m, its, h)
<1>1. its \in Seq(Iterator) /\ (\A j \in DOMAIN its : j = 1) /\ its[1].type = "Drain" /\ h = {}
  BY DEF DrainSide
<1>2. Loose(m, its) = Nobody
  BY <1>1, NoLooseIs
<1>3. Stands(m, its, h, c, f, k)
  BY <1>1 DEF DrainSide, Stands, OwnSet
<1>4. Borrows(m, its, h, c)
  BY DEF Borrows, DrainSide
<1> QED BY <1>1, <1>2, <1>3, <1>4 DEF Sound, Safe, DrainSide

(* What the invariant says beside a drain. *)
LEMMA DrainSideIs ==
  ASSUME Safe(map, iters, held), NEW i \in DOMAIN iters, iters[i].type = "Drain"
  PROVE  /\ \E c, f, k : DrainSide(map, c, f, k, iters, held)
         /\ i = 1 /\ iters[1] \in Iterator /\ Len(iters) = 1
<1>1. PICK c, f, k : Sound(map, iters, held, c, f, k)
  BY DEF Safe
<1>2. iters \in Seq(Iterator) /\ Borrows(map, iters, held, c) /\ Stands(map, iters, held, c, f, k)
  BY <1>1 DEF Safe, Sound
<1>3. DOMAIN iters = 1 .. Len(iters) /\ Len(iters) \in Nat /\ iters[i] \in Iterator
  BY <1>2
<1>4. map.present /\ held = {} /\ Len(iters) = 1 /\ i = 1
  <2>1. Len(iters) = 1 => i = 1
    BY <1>3
  <2>2. iters # <<>>
    BY <1>3
  <2> QED BY <1>2, <2>1, <2>2 DEF Borrows
<1>5. map.present = TRUE
  BY <1>1, <1>2, <1>4, SoundFacts, MapFacts
<1>6. \A j \in DOMAIN iters : iters[j].type # "IntoIter"
  BY <1>3, <1>4
<1>7. Loose(map, iters) = Nobody
  BY <1>6, NoLooseIs
<1>8. InChain(map, f, k, iters[1])
  BY <1>2, <1>4 DEF Stands
<1>9. Linked(map, c, map.index.n, f, k, Nobody) /\ Tells(map, Members(c, map.index.n))
  BY <1>1, <1>7 DEF Sound
<1>10. DrainSide(map, c, f, k, iters, held)
  BY <1>2, <1>4, <1>5, <1>8, <1>9 DEF DrainSide
<1> QED BY <1>3, <1>4, <1>10

(* Moving entries out of nodes on the free list changes neither list. *)
LEMMA SparesForgotten ==
  ASSUME NEW m, NEW c, NEW f, NEW k, NEW S, NEW d, ForgottenAt(m, c, f, k, S, d)
  PROVE  /\ Linked(d, c, d.index.n, f, k, Nobody) /\ Tells(d, Members(c, d.index.n)) /\ d.present = TRUE
         /\ d.index = m.index /\ d.next = m.next
         /\ \A q \in Node \ S : d.prev[q] = m.prev[q] /\ d.key[q] = m.key[q] /\ d.value[q] = m.value[q]
<1>0. /\ Linked(m, c, m.index.n, f, k, Nobody) /\ Tells(m, Members(c, m.index.n)) /\ m.present = TRUE
      /\ S \subseteq Spares(f, k) /\ d = Forgotten(m, S)
  BY DEF ForgottenAt
<1> DEFINE n == m.index.n
           T == Members(c, n)
<1>1. /\ Guard(m) \cap Spares(f, k) = {} /\ T \cap Spares(f, k) = {} /\ T \subseteq Addr /\ m \in Map
  <2> HIDE DEF n
  <2>1. Linked(m, c, n, f, k, Nobody)
    BY <1>0 DEF n
  <2> QED BY <2>1, LinkedFacts
<1>2. S \cap (Guard(m) \cup Members(c, n)) = {}
  BY <1>0, <1>1
<1>3. Linked(d, c, n, f, k, Nobody) /\ Outside(d, m, S) /\ d.next = m.next
  <2> HIDE DEF n, Nobody
  <2>1. Linked(m, c, n, f, k, Nobody)
    BY <1>0 DEF n
  <2> QED BY <1>0, <1>2, <2>1, ForgetLinked
<1>4. d.index = m.index /\ d.present = m.present
  BY <1>3 DEF Outside
<1>5. \A q \in Node \ S : d.prev[q] = m.prev[q]
  BY <1>0, <1>1, ForgottenIs
<1>6. /\ Tells(m, T) /\ (\A j \in Nat : Index!get(d.index, j) = Index!get(m.index, j))
      /\ \A p \in T : d.key[p] = m.key[p] /\ d.value[p] \in Values
  <2>1. \A p \in T : p \in Node \ S /\ m.value[p] \in Values
    BY <1>0, <1>1, <1>2 DEF Node, Tells
  <2> QED BY <1>0, <1>3, <1>4, <2>1 DEF Outside
<1> HIDE DEF T
<1>7. Tells(d, T)
  BY ONLY <1>6, TellsKept
<1> QED BY <1>0, <1>3, <1>4, <1>5, <1>7 DEF Outside, T

(* drain keeps the invariant. *)
LEMMA StartDrainSafe ==
  ASSUME Safe(map, iters, held), drain
  PROVE  Safe(map', iters', held')
<1> DEFINE n == map.index.n
           h == map.prev[map.head]
           t == map.next[map.head]
           it == [type |-> "Drain", head |-> h, tail |-> t, remaining |-> n]
           none == [type |-> "Drain", head |-> Null, tail |-> Null, remaining |-> 0]
           bare == [map EXCEPT !.index = Index!new]
<1>1. Writable /\ iters = <<>> /\ held = {} /\ held' = held
  BY DEF drain, Begin, Writable
<1>2. PICK c : Solid(map, c)
  BY <1>1, WritableIs
<1>3. PICK f, k : Linked(map, c, n, f, k, Nobody)
  BY <1>2 DEF Solid
<1>4. /\ map \in Map /\ map.present = TRUE /\ n \in Nat /\ c[0] = map.head /\ c[n + 1] = map.head
      /\ \A j \in 0 .. n : map.prev[c[j]] = c[j + 1]
      /\ \A j \in 0 .. n : map.next[c[j + 1]] = c[j]
      /\ \A j \in 0 .. n + 1 : c[j] \in Node
  <2>1. SolidOf(map, c, n) /\ map.present = TRUE
    BY <1>2, SolidFacts DEF SolidOf
  <2> HIDE DEF n
  <2> QED BY ONLY <2>1, SolidRing
<1>5. Null \in Node /\ k \in Nat
  <2>1. k \in Nat
    <3> HIDE DEF n
    <3> QED BY <1>3, LinkedFacts
  <2> QED BY <2>1 DEF Node
<1>6. CASE n = 0
  <2>1. map' = bare /\ iters' = <<none>>
    BY <1>1, <1>6 DEF drain, Begin, Index!clear
  <2>2. /\ Linked(bare, c, n, f, k, Nobody) /\ bare.index = Index!new /\ bare.present = map.present
    <3> DEFINE ix == Index!new
    <3>1. ix \in IndexMap /\ bare = [map EXCEPT !.index = ix]
      BY NewIndexIs
    <3> HIDE DEF n, bare, ix
    <3>2. Linked(bare, c, n, f, k, Nobody) /\ bare.index = ix /\ bare.present = map.present
      BY ONLY <1>3, <3>1, IndexOnly
    <3> QED BY <3>2 DEF ix
  <2>3. bare.index.n = n
    BY <1>6, <2>2, NewIndexIs
  <2>4. Members(c, n) = {}
    BY <1>6 DEF Members
  <2> HIDE DEF bare
  <2>5. Tells(bare, Members(c, bare.index.n))
    BY <2>2, <2>3, <2>4, BareTells
  <2>6. none \in Iterator
    BY <1>5 DEF Iterator, Kind
  <2>7. InChain(bare, f, k, none)
    <3>1. 0 \in 0 .. k /\ 0 + none.remaining <= k /\ none.remaining = 0 /\ 0 .. (0 + none.remaining - 2) = {}
      BY <1>5
    <3> HIDE DEF none
    <3> QED BY <3>1 DEF InChain
  <2>8. /\ iters' \in Seq(Iterator) /\ Len(iters') = 1 /\ iters'[1] = none /\ none.type = "Drain"
    BY <2>1, <2>6
  <2> HIDE DEF none, n
  <2>9. DrainSide(bare, c, f, k, iters', held')
    BY <1>1, <1>4, <2>2, <2>3, <2>5, <2>7, <2>8 DEF DrainSide
  <2> QED BY <2>1, <2>9, DrainSafe
<1>7. CASE n # 0
  <2> DEFINE d == DrainOf(map)
             e == Alone(map.head)
             s == Spliced(c, n, f, k)
  <2>1. map' = d /\ iters' = <<it>>
    BY <1>1, <1>7 DEF drain, Begin, Index!clear, DrainOf
  <2>2. /\ Linked(d, e, 0, s, n + k, Nobody)
        /\ d.index = Index!new /\ d.present = map.present
        /\ \A j \in 0 .. n - 1 : s[j] = c[n - j]
        /\ \A j \in 0 .. n - 2 : d.prev[c[n - (j + 1)]] = c[n - j]
    <3>1. d = DrainOf(map)
      OBVIOUS
    <3> HIDE DEF d, n
    <3> QED BY <1>3, <1>7, <3>1, DrainLinked
  <2> HIDE DEF d, s
  <2>3. d.index.n = 0 /\ Members(e, 0) = {}
    BY <2>2, NewIndexIs, AloneIs
  <2>4. Tells(d, Members(e, d.index.n))
    BY <2>2, <2>3, BareTells
  <2>5. h = c[1] /\ t = c[n] /\ h \in Node /\ t \in Node
    <3>1. 0 \in 0 .. n /\ n \in 0 .. n /\ 1 \in 0 .. n + 1 /\ n \in 0 .. n + 1 /\ 0 + 1 = 1
      BY <1>4
    <3> QED BY <1>4, <3>1
  <2>6. it \in Iterator
    BY <1>4, <2>5 DEF Iterator, Kind
  <2>7. InChain(d, s, n + k, it)
    <3>1. it.remaining = n /\ it.head = c[1] /\ it.tail = c[n]
      BY <2>5
    <3> HIDE DEF it, n
    <3>2. 0 \in 0 .. n + k /\ 0 + n <= n + k /\ 0 + n - 1 = n - 1 /\ 0 + n - 2 = n - 2 /\ 0 \in 0 .. n - 1 /\ n - 1 \in 0 .. n - 1
          /\ n - (n - 1) = 1 /\ n - 0 = n
      BY <1>4, <1>5, <1>7
    <3>3. s[0] = c[n] /\ s[n - 1] = c[1]
      BY <2>2, <3>2
    <3>4. ASSUME NEW j \in 0 .. n - 2 PROVE d.prev[s[j + 1]] = s[j]
      <4>1. j \in 0 .. n - 1 /\ j + 1 \in 0 .. n - 1
        BY <1>4
      <4>2. s[j + 1] = c[n - (j + 1)] /\ s[j] = c[n - j] /\ d.prev[c[n - (j + 1)]] = c[n - j]
        BY <2>2, <4>1
      <4> QED BY <4>2
    <3> QED BY <3>1, <3>2, <3>3, <3>4 DEF InChain
  <2>8. iters' \in Seq(Iterator) /\ Len(iters') = 1 /\ iters'[1] = it /\ it.type = "Drain"
    BY <2>1, <2>6
  <2> HIDE DEF it, e
  <2>9. DrainSide(d, e, s, n + k, iters', held')
    BY <1>1, <1>4, <2>2, <2>3, <2>4, <2>7, <2>8 DEF DrainSide
  <2> QED BY <2>1, <2>9, DrainSafe
<1> QED BY <1>6, <1>7

(* next moves a drain one node towards its tail. *)
LEMMA ChainNext ==
  ASSUME NEW m, NEW f, NEW k, NEW it, NEW p, NEW d, NEW jt, ChainFront(m, f, k, it, p, d, jt)
  PROVE  jt \in Iterator /\ jt.type = it.type /\ InChain(d, f, k, jt) /\ p \in Spares(f, k)
<1>0. /\ m \in Map /\ Chain(m, f, k) /\ it \in Iterator /\ InChain(m, f, k, it) /\ it.remaining # 0
      /\ \A q \in Node \ {p} : d.prev[q] = m.prev[q]
      /\ p = it.head /\ jt = [[it EXCEPT !.head = m.prev[@]] EXCEPT !.remaining = @ - 1]
  BY DEF ChainAt, ChainFront
<1> DEFINE r == it.remaining
<1>1. r \in Nat /\ r # 0 /\ it.head \in Node
  BY <1>0 DEF Iterator
<1>2. PICK a \in 0 .. k : /\ a + r <= k
                          /\ it.tail = f[a] /\ it.head = f[a + r - 1]
                          /\ \A j \in a .. a + r - 2 : m.prev[f[j + 1]] = f[j]
  BY <1>0 DEF InChain
<1>3. /\ k \in Nat /\ \A j, l \in 0 .. k - 1 : f[j] = f[l] => j = l
      /\ \A j \in 0 .. k - 1 : f[j] \in Addr
  BY <1>0, ChainFacts
<1>4. m.prev[it.head] \in Node
  BY <1>0, <1>1, MapFacts
<1>5. /\ jt \in Iterator /\ jt.type = it.type /\ jt.head = m.prev[it.head] /\ jt.tail = it.tail
      /\ jt.remaining = r - 1
  <2>1. r - 1 \in Nat
    BY <1>1
  <2> QED BY <1>0, <1>4, <2>1 DEF Iterator
<1> HIDE DEF r
<1>6. a + r - 1 \in 0 .. k - 1 /\ a + (r - 1) <= k /\ a + (r - 1) - 1 = a + r - 2 /\ a + (r - 1) - 2 = a + r - 3
  BY <1>1, <1>2, <1>3
<1>7. p \in Spares(f, k)
  BY <1>0, <1>2, <1>6 DEF Spares
<1>8. r - 1 # 0 => jt.head = f[a + r - 2]
  <2>1. r - 1 # 0 => a + r - 2 \in a .. a + r - 2 /\ (a + r - 2) + 1 = a + r - 1
    BY <1>1, <1>2
  <2> QED BY <1>2, <1>5, <2>1
<1>9. ASSUME NEW j \in a .. a + r - 3 PROVE d.prev[f[j + 1]] = f[j]
  <2>1. j \in a .. a + r - 2 /\ j + 1 \in 0 .. k - 1 /\ j + 1 # a + r - 1
    BY <1>1, <1>2, <1>3
  <2>2. f[j + 1] # p /\ f[j + 1] \in Node
    BY <1>0, <1>2, <1>3, <1>6, <2>1 DEF Node
  <2> QED BY <1>0, <1>2, <2>1, <2>2
<1>10. InChain(d, f, k, jt)
  <2> DEFINE l == r - 1
  <2>1. a + l <= k /\ (l # 0 => jt.tail = f[a] /\ jt.head = f[a + l - 1])
    BY <1>2, <1>5, <1>6, <1>8
  <2>2. \A j \in a .. a + l - 2 : d.prev[f[j + 1]] = f[j]
    BY <1>6, <1>9
  <2>3. jt.remaining = l
    BY <1>5
  <2> HIDE DEF l
  <2> QED BY <1>2, <2>1, <2>2, <2>3 DEF InChain
<1> QED BY <1>5, <1>7, <1>10

(* next_back moves its tail one node on. *)
LEMMA ChainBack ==
  ASSUME NEW m, NEW f, NEW k, NEW it, NEW p, NEW d, NEW jt, ChainEnd(m, f, k, it, p, d, jt)
  PROVE  jt \in Iterator /\ jt.type = it.type /\ InChain(d, f, k, jt) /\ p \in Spares(f, k)
<1>0. /\ m \in Map /\ Chain(m, f, k) /\ it \in Iterator /\ InChain(m, f, k, it) /\ it.remaining # 0
      /\ \A q \in Node \ {p} : d.prev[q] = m.prev[q]
      /\ p = it.tail /\ jt = [[it EXCEPT !.tail = m.next[it.tail]] EXCEPT !.remaining = @ - 1]
  BY DEF ChainAt, ChainEnd
<1> DEFINE r == it.remaining
<1>1. r \in Nat /\ r # 0 /\ it.tail \in Node
  BY <1>0 DEF Iterator
<1>2. PICK a \in 0 .. k : /\ a + r <= k
                          /\ it.tail = f[a] /\ it.head = f[a + r - 1]
                          /\ \A j \in a .. a + r - 2 : m.prev[f[j + 1]] = f[j]
  BY <1>0 DEF InChain
<1>3. /\ k \in Nat /\ \A j, l \in 0 .. k - 1 : f[j] = f[l] => j = l
      /\ \A j \in 0 .. k - 1 : f[j] \in Addr /\ m.next[f[j]] = f[j + 1]
  BY <1>0, ChainFacts
<1>4. m.next[it.tail] \in Node
  BY <1>0, <1>1, MapFacts
<1>5. /\ jt \in Iterator /\ jt.type = it.type /\ jt.tail = m.next[it.tail] /\ jt.head = it.head
      /\ jt.remaining = r - 1
  <2>1. r - 1 \in Nat
    BY <1>1
  <2> QED BY <1>0, <1>4, <2>1 DEF Iterator
<1> HIDE DEF r
<1> DEFINE b == a + 1
<1>6. /\ a \in 0 .. k - 1 /\ b \in 0 .. k /\ b + (r - 1) <= k /\ b + (r - 1) - 1 = a + r - 1
      /\ b + (r - 1) - 2 = a + r - 2
  BY <1>1, <1>2, <1>3
<1>7. p \in Spares(f, k)
  BY <1>0, <1>2, <1>6 DEF Spares
<1>8. jt.tail = f[b]
  BY <1>2, <1>3, <1>5, <1>6
<1>9. ASSUME NEW j \in b .. a + r - 2 PROVE d.prev[f[j + 1]] = f[j]
  <2>1. j \in a .. a + r - 2 /\ j + 1 \in 0 .. k - 1 /\ j + 1 # a
    BY <1>1, <1>2, <1>3
  <2>2. f[j + 1] # p /\ f[j + 1] \in Node
    BY <1>0, <1>2, <1>3, <1>6, <2>1 DEF Node
  <2> QED BY <1>0, <1>2, <2>1, <2>2
<1> HIDE DEF b
<1>10. InChain(d, f, k, jt)
  BY <1>2, <1>5, <1>6, <1>8, <1>9 DEF InChain
<1> QED BY <1>5, <1>7, <1>10

(* A drain that yields an entry keeps the invariant. *)
LEMMA YieldDrainSafe ==
  ASSUME NEW c, NEW f, NEW k, DrainSide(map, c, f, k, iters, held),
         NEW p, p \in Spares(f, k), NEW d, d = Forgotten(map, {p}),
         NEW jt \in Iterator, jt.type = "Drain", InChain(d, f, k, jt),
         NEW its, its = [iters EXCEPT ![1] = jt]
  PROVE  Safe(d, its, held)
<1> DEFINE S == {p}
<1>1. ForgottenAt(map, c, f, k, S, d)
  BY DEF ForgottenAt, DrainSide
<1> HIDE DEF S
<1>2. Linked(d, c, d.index.n, f, k, Nobody) /\ Tells(d, Members(c, d.index.n)) /\ d.present = TRUE
  BY ONLY <1>1, SparesForgotten
<1>3. its \in Seq(Iterator) /\ Len(its) = 1 /\ its[1] = jt /\ held = {}
  BY DEF DrainSide
<1>4. DrainSide(d, c, f, k, its, held)
  BY <1>2, <1>3 DEF DrainSide
<1> QED BY <1>4, DrainSafe

(* next and next_back of a drain keep the invariant. *)
LEMMA NextDrainSafe ==
  ASSUME Safe(map, iters, held), NEW i \in DOMAIN iters, iters[i].type = "Drain",
         next(i) \/ next_back(i)
  PROVE  Safe(map', iters', held')
<1>1. PICK c, f, k : DrainSide(map, c, f, k, iters, held)
  BY DrainSideIs
<1> DEFINE it == iters[1]
           n == map.index.n
<1>2. i = 1 /\ it \in Iterator /\ it.type = "Drain" /\ InChain(map, f, k, it) /\ Linked(map, c, n, f, k, Nobody)
  BY <1>1, DrainSideIs DEF DrainSide
<1>3. map \in Map /\ Chain(map, f, k)
  <2> HIDE DEF n
  <2> QED BY <1>2, LinkedFacts
<1>4. CASE next(i)
  <2> DEFINE p == it.head
             jt == [[it EXCEPT !.head = map.prev[@]] EXCEPT !.remaining = @ - 1]
             d == Forgotten(map, {p})
             its == [iters EXCEPT ![1] = jt]
  <2>1. [it EXCEPT !.head = map.prev[@]].type = "Drain"
    BY <1>2 DEF Iterator
  <2>2. ~Ended(it) /\ iters' = its /\ map' = d /\ held' = held
    BY <1>2, <1>4, <2>1 DEF next, Yields, YieldNode
  <2>3. it.remaining # 0
    BY <1>2, <2>2 DEF Ended
  <2>4. \A q \in Node \ {p} : d.prev[q] = map.prev[q]
    BY <1>3, ForgottenIs
  <2> DEFINE m == map
  <2>5. ChainFront(m, f, k, it, p, d, jt)
    BY <1>2, <1>3, <2>3, <2>4 DEF ChainAt, ChainFront
  <2>6. d = Forgotten(map, {p}) /\ its = [iters EXCEPT ![1] = jt]
    OBVIOUS
  <2> HIDE DEF p, d, jt, it, its
  <2>7. jt \in Iterator /\ jt.type = it.type /\ InChain(d, f, k, jt) /\ p \in Spares(f, k)
    <3> HIDE DEF m
    <3> QED BY ONLY <2>5, ChainNext
  <2>8. Safe(d, its, held)
    BY <1>1, <1>2, <2>6, <2>7, YieldDrainSafe
  <2> QED BY <2>2, <2>8
<1>5. CASE next_back(i)
  <2> DEFINE p == it.tail
             jt == [[it EXCEPT !.tail = map.next[it.tail]] EXCEPT !.remaining = @ - 1]
             d == Forgotten(map, {p})
             its == [iters EXCEPT ![1] = jt]
  <2>1. [it EXCEPT !.tail = map.next[it.tail]].type = "Drain"
    BY <1>2 DEF Iterator
  <2>2. ~Ended(it) /\ iters' = its /\ map' = d /\ held' = held
    BY <1>2, <1>5, <2>1 DEF next_back, Yields, YieldNode
  <2>3. it.remaining # 0
    BY <1>2, <2>2 DEF Ended
  <2>4. \A q \in Node \ {p} : d.prev[q] = map.prev[q]
    BY <1>3, ForgottenIs
  <2> DEFINE m == map
  <2>5. ChainEnd(m, f, k, it, p, d, jt)
    BY <1>2, <1>3, <2>3, <2>4 DEF ChainAt, ChainEnd
  <2>6. d = Forgotten(map, {p}) /\ its = [iters EXCEPT ![1] = jt]
    OBVIOUS
  <2> HIDE DEF p, d, jt, it, its
  <2>7. jt \in Iterator /\ jt.type = it.type /\ InChain(d, f, k, jt) /\ p \in Spares(f, k)
    <3> HIDE DEF m
    <3> QED BY ONLY <2>5, ChainBack
  <2>8. Safe(d, its, held)
    BY <1>1, <1>2, <2>6, <2>7, YieldDrainSafe
  <2> QED BY <2>2, <2>8
<1> QED BY <1>4, <1>5

(* The nodes that a drain has still to yield, from its head. *)
LEMMA DrainPath ==
  ASSUME NEW m \in Map, NEW f, NEW k, Chain(m, f, k), NEW it \in Iterator, InChain(m, f, k, it)
  PROVE  ToSet(Path(m.prev, it.head, it.remaining)) \subseteq Spares(f, k)
<1> DEFINE r == it.remaining
<1>1. r \in Nat /\ it.head \in Node
  BY DEF Iterator
<1>2. PICK a \in 0 .. k : /\ a + r <= k
                          /\ r # 0 => it.tail = f[a] /\ it.head = f[a + r - 1]
                          /\ \A j \in a .. a + r - 2 : m.prev[f[j + 1]] = f[j]
  BY DEF InChain
<1>3. k \in Nat /\ \A j \in 0 .. k - 1 : f[j] \in Node
  BY ChainFacts DEF Node
<1> DEFINE g == [j \in 1 .. r |-> f[a + r - j]]
<1> HIDE DEF r
<1>4. \A j \in 1 .. r : a + r - j \in 0 .. k - 1
  BY <1>1, <1>2, <1>3
<1>5. g \in [1 .. r -> Node]
  BY <1>3, <1>4
<1>6. r # 0 => g[1] = it.head
  BY <1>1, <1>2
<1>7. ASSUME NEW j \in 1 .. r - 1 PROVE g[j + 1] = m.prev[g[j]]
  <2> DEFINE l == a + r - (j + 1)
  <2>1. j \in 1 .. r /\ j + 1 \in 1 .. r /\ l \in a .. a + r - 2 /\ l + 1 = a + r - j
    BY <1>1, <1>2
  <2> QED BY <1>2, <2>1
<1>8. m.prev \in [Node -> Node]
  BY MapFacts
<1>9. Path(m.prev, it.head, r) = g
  <2> HIDE DEF g
  <2> QED BY <1>1, <1>5, <1>6, <1>7, <1>8, PathIsThat
<1>10. ToSet(g) = {g[j] : j \in 1 .. r}
  BY DEF ToSet
<1> QED BY <1>4, <1>9, <1>10 DEF r, Spares

(* Dropping a drain half way keeps the invariant. *)
LEMMA DropDrainSafe ==
  ASSUME Safe(map, iters, held), NEW i \in DOMAIN iters, iters[i].type = "Drain", DropIter(i)
  PROVE  Safe(map', iters', held')
<1>1. PICK c, f, k : DrainSide(map, c, f, k, iters, held)
  BY DrainSideIs
<1> DEFINE it == iters[1]
           n == map.index.n
           S == ToSet(Path(map.prev, it.head, it.remaining))
           d == Forgotten(map, S)
<1>2. /\ i = 1 /\ it \in Iterator /\ InChain(map, f, k, it) /\ Linked(map, c, n, f, k, Nobody)
      /\ iters \in Seq(Iterator) /\ Len(iters) = 1
  BY <1>1, DrainSideIs DEF DrainSide
<1>3. map \in Map /\ Chain(map, f, k)
  <2> HIDE DEF n
  <2> QED BY <1>2, LinkedFacts
<1>4. map' = d /\ iters' = RemoveAt(iters, 1) /\ held' = held
  BY <1>2 DEF DropIter
<1>5. S \subseteq Spares(f, k)
  <2> HIDE DEF it
  <2> QED BY <1>2, <1>3, DrainPath
<1>6. ForgottenAt(map, c, f, k, S, d)
  <2> HIDE DEF S
  <2> QED BY <1>1, <1>5 DEF ForgottenAt, DrainSide
<1> HIDE DEF S, d
<1>7. Linked(d, c, d.index.n, f, k, Nobody) /\ Tells(d, Members(c, d.index.n)) /\ d.present = TRUE
  BY ONLY <1>6, SparesForgotten
<1>8. Solid(d, c)
  BY <1>7 DEF Solid
<1>9. iters' = <<>>
  <2>1. 1 \in 1 .. Len(iters)
    BY <1>2
  <2>2. RemoveAt(iters, 1) \in Seq(Iterator) /\ Len(RemoveAt(iters, 1)) = Len(iters) - 1
    BY <1>2, <2>1, RemoveAtIs
  <2> QED BY <1>2, <1>4, <2>2
<1>10. held' \subseteq Members(c, d.index.n)
  BY <1>1, <1>4 DEF DrainSide
<1> QED BY <1>4, <1>8, <1>9, <1>10, AloneSafe

(* An iterator with the chain g of r nodes owns just them. *)
LEMMA OwnsThat ==
  ASSUME NEW d, NEW it, NEW g, NEW r, OwnsAt(d, it, g, r)
  PROVE  Own(d, it) = g /\ Owns(d, it) /\ OwnSet(d, it) = {g[j] : j \in 1 .. r}
<1>0. /\ d \in Map /\ it \in Iterator /\ it.type = "IntoIter" /\ r = it.remaining
      /\ g \in [1 .. r -> Node]
      /\ r # 0 => g[1] = it.head /\ g[r] = it.tail
      /\ \A j \in 1 .. r - 1 : d.prev[g[j]] = g[j + 1]
      /\ \A j \in 1 .. r - 1 : d.next[g[j + 1]] = g[j]
      /\ \A j \in 1 .. r : g[j] # Null
      /\ \A j, l \in 1 .. r : g[j] = g[l] => j = l
  BY DEF OwnsAt
<1>1. r \in Nat /\ it.head \in Node
  BY <1>0 DEF Iterator
<1>2. d.prev \in [Node -> Node]
  BY <1>0, MapFacts
<1>3. Path(d.prev, it.head, r) = g
  <2>1. \A j \in 1 .. r - 1 : g[j + 1] = d.prev[g[j]]
    BY <1>0
  <2>2. r # 0 => g[1] = it.head
    BY <1>0
  <2> DEFINE a == d.prev
             p == it.head
  <2>3. a \in [Node -> Node] /\ p \in Node /\ r \in Nat /\ g \in [1 .. r -> Node]
        /\ (r # 0 => g[1] = p) /\ \A j \in 1 .. r - 1 : g[j + 1] = a[g[j]]
    BY <1>0, <1>1, <1>2, <2>1, <2>2
  <2> HIDE DEF a, p
  <2>4. Path(a, p, r) = g
    BY ONLY <2>3, PathIsThat
  <2> QED BY <2>4 DEF a, p
<1>4. Own(d, it) = g
  BY <1>0, <1>3 DEF Own
<1>5. Owns(d, it)
  BY <1>0, <1>4 DEF Owns
<1>6. ToSet(g) = {g[j] : j \in 1 .. r}
  BY <1>0 DEF ToSet
<1> QED BY <1>0, <1>4, <1>5, <1>6 DEF OwnSet

(* An IntoIter has such a chain. *)
LEMMA OwnFacts ==
  ASSUME NEW m \in Map, NEW it \in Iterator, it.type = "IntoIter", Owns(m, it)
  PROVE  \E g : OwnsAt(m, it, g, it.remaining) /\ Own(m, it) = g
<1> DEFINE r == it.remaining
           a == m.prev
           p == it.head
           g == Path(a, p, r)
<1>1. r \in Nat /\ p \in Node /\ a \in [Node -> Node]
  BY MapFacts DEF Iterator
<1>2. g = Own(m, it)
  BY DEF Own
<1>3. /\ \A j \in 1 .. r : g[j] # Null
      /\ \A i, j \in 1 .. r : g[i] = g[j] => i = j
      /\ \A j \in 1 .. r - 1 : m.next[g[j + 1]] = g[j]
      /\ r # 0 => it.tail = g[r]
  BY <1>2 DEF Owns
<1>4. /\ g \in Seq(Node) /\ Len(g) = r
      /\ DOMAIN g = 1 .. r
      /\ r # 0 => g[1] = p
      /\ \A i \in 1 .. r - 1 : g[i + 1] = a[g[i]]
  <2> HIDE DEF r, a, p
  <2> QED BY <1>1, PathIs
<1> HIDE DEF g
<1>5. g \in [1 .. r -> Node]
  BY <1>1, <1>4
<1>6. \A j \in 1 .. r - 1 : m.prev[g[j]] = g[j + 1]
  BY <1>4
<1>7. OwnsAt(m, it, g, r)
  BY <1>3, <1>4, <1>5, <1>6 DEF OwnsAt
<1> QED BY <1>2, <1>7

(* An IntoIter whose nodes are unchanged owns the same nodes. *)
LEMMA KeptOwn ==
  ASSUME NEW m, NEW it, NEW d, KeptAt(m, it, d)
  PROVE  Own(d, it) = Own(m, it) /\ Owns(d, it) /\ OwnSet(d, it) = OwnSet(m, it)
<1>0. /\ m \in Map /\ d \in Map /\ it \in Iterator /\ it.type = "IntoIter" /\ Owns(m, it)
      /\ \A q \in OwnSet(m, it) : d.next[q] = m.next[q] /\ d.prev[q] = m.prev[q]
  BY DEF KeptAt
<1> DEFINE r == it.remaining
<1>1. PICK g : OwnsAt(m, it, g, r) /\ Own(m, it) = g
  BY <1>0, OwnFacts
<1>2. OwnSet(m, it) = {g[j] : j \in 1 .. r}
  BY <1>1, OwnsThat
<1>3. r \in Nat
  BY <1>0 DEF Iterator
<1> HIDE DEF r
<1>4. \A j \in 1 .. r : g[j] \in OwnSet(m, it)
  BY <1>2
<1>5. \A j \in 1 .. r - 1 : d.prev[g[j]] = g[j + 1]
  <2>1. \A j \in 1 .. r - 1 : j \in 1 .. r
    BY <1>3
  <2> QED BY <1>0, <1>1, <1>4, <2>1 DEF OwnsAt
<1>6. \A j \in 1 .. r - 1 : d.next[g[j + 1]] = g[j]
  <2>1. \A j \in 1 .. r - 1 : j + 1 \in 1 .. r
    BY <1>3
  <2> QED BY <1>0, <1>1, <1>4, <2>1 DEF OwnsAt
<1>7. OwnsAt(d, it, g, r)
  BY <1>0, <1>1, <1>5, <1>6 DEF OwnsAt
<1> QED BY <1>1, <1>2, <1>7, OwnsThat

(* What the invariant says once the map was consumed. *)
LEMMA GoneIs ==
  ASSUME Safe(map, iters, held), map.present = FALSE
  PROVE  GoneSide(map, iters) /\ held = {} /\ map.live = Loose(map, iters)
<1>1. PICK c, f, k : Sound(map, iters, held, c, f, k)
  BY DEF Safe
<1>2. iters \in Seq(Iterator) /\ Borrows(map, iters, held, c) /\ Stands(map, iters, held, c, f, k)
  BY <1>1 DEF Safe, Sound
<1>4. /\ ~map.present /\ held = {} /\ \A j \in DOMAIN iters : iters[j].type = "IntoIter"
      /\ map.head = Null /\ map.free = Null /\ map.index = Index!new
  BY <1>2 DEF Borrows
<1> DEFINE X == Loose(map, iters)
           n == map.index.n
<1>5. Linked(map, c, n, f, k, X)
  BY <1>1 DEF Sound
<1> HIDE DEF X
<1>6. /\ map \in Map /\ Chain(map, f, k) /\ map.next[Null] = Null /\ map.prev[Null] = Null
      /\ Members(c, n) = {} /\ Guard(map) = {}
      /\ map.live = Guard(map) \cup Members(c, n) \cup Spares(f, k) \cup X
  <2> HIDE DEF n
  <2> QED BY <1>4, <1>5, LinkedFacts, NoHead
<1>7. Spares(f, k) = {}
  <2>1. k = 0
    <3>1. k \in Nat /\ f[0] = map.free /\ \A i \in 0 .. k - 1 : f[i] # Null
      BY <1>6 DEF Chain
    <3>2. 0 \notin 0 .. k - 1
      BY <1>4, <3>1
    <3> QED BY <3>1, <3>2
  <2> QED BY <2>1 DEF Spares
<1>8. map.live = X
  BY <1>6, <1>7
<1>9. map = [map EXCEPT !.index = Index!new, !.head = Null, !.present = FALSE]
  BY <1>4, <1>6 DEF Map
<1>10. Consumed(map, X)
  <2> DEFINE d == map
             g == map
  <2>1. g \in Map /\ g.free = Null /\ g.next[Null] = Null /\ g.prev[Null] = Null /\ g.live = X
        /\ d = [g EXCEPT !.index = Index!new, !.head = Null, !.present = FALSE]
    BY <1>4, <1>6, <1>8, <1>9
  <2> HIDE DEF d, g
  <2>2. Consumed(d, g.live)
    BY ONLY <2>1, ConsumedIs
  <2> QED BY <2>1, <2>2 DEF d
<1> QED BY <1>2, <1>4, <1>8, <1>10 DEF GoneSide, Stands, X

(* While an IntoIter lives there is no map. *)
LEMMA GoneAt ==
  ASSUME Safe(map, iters, held), NEW i \in DOMAIN iters, iters[i].type = "IntoIter"
  PROVE  map.present = FALSE
<1>1. PICK c, f, k : Sound(map, iters, held, c, f, k)
  BY DEF Safe
<1>2. iters \in Seq(Iterator)
  BY DEF Safe
<1>3. map \in Map /\ (map.present = TRUE => iters[i].type # "IntoIter")
  BY <1>1, <1>2, SoundFacts
<1> QED BY <1>3, MapFacts

(* into_iter keeps the invariant. *)
LEMMA StartIntoIterSafe ==
  ASSUME Safe(map, iters, held), into_iter
  PROVE  Safe(map', iters', held')
<1> DEFINE n == map.index.n
           last == IF map.head = Null THEN Null ELSE map.next[map.head]
           it == [type |-> "IntoIter", head |-> First, tail |-> last, remaining |-> n]
           d == IntoIterOf(map)
<1>1. Writable /\ iters = <<>> /\ held = {} /\ held' = held /\ iters' = Append(iters, it) /\ map' = d
  BY DEF into_iter, Begin, Writable, IntoIterOf
<1>2. PICK c : Solid(map, c)
  BY <1>1, WritableIs
<1>3. PICK f, k : Linked(map, c, n, f, k, Nobody)
  BY <1>2 DEF Solid
<1>4. /\ map \in Map /\ n \in Nat /\ c[0] = map.head /\ c[n + 1] = map.head
      /\ \A j \in 0 .. n : map.prev[c[j]] = c[j + 1]
      /\ \A j \in 0 .. n : map.next[c[j + 1]] = c[j]
      /\ \A i, j \in 1 .. n : c[i] = c[j] => i = j
      /\ \A j \in 0 .. n + 1 : c[j] \in Node
      /\ map.head = Null => n = 0
      /\ map.next \in [Node -> Node] /\ map.prev \in [Node -> Node]
  <2>1. SolidOf(map, c, n)
    BY <1>2 DEF SolidOf
  <2> HIDE DEF n
  <2> QED BY ONLY <2>1, SolidRing
<1>5. Null \in Node /\ Null \notin Addr /\ \A j \in 1 .. n : c[j] \in Addr /\ c[j] \in Members(c, n)
  BY <1>2, <1>4, SolidFacts, MapFacts
<1> DEFINE Y == Members(c, n)
<1>6. /\ Consumed(d, Y)
      /\ \A q \in Y : d.next[q] = map.next[q] /\ d.prev[q] = map.prev[q]
  <2>1. Y = Nobody \cup Members(c, n) /\ d = IntoIterOf(map)
    BY DEF Nobody
  <2> HIDE DEF Nobody, Y, d, n
  <2> QED BY <1>3, <2>1, IntoIterLinked DEF Y
<1> HIDE DEF d, Y
<1>7. n # 0 => First = c[1] /\ last = c[n]
  <2>1. 0 \in 0 .. n /\ n \in 0 .. n /\ 0 + 1 = 1
    BY <1>4
  <2> QED BY <1>4, <2>1 DEF First
<1>8. First \in Node /\ last \in Node
  <2>1. 0 \in 0 .. n + 1
    BY <1>4
  <2> QED BY <1>4, <1>5, <2>1 DEF First
<1>9. it \in Iterator /\ it.type = "IntoIter" /\ it.remaining = n /\ it.head = First /\ it.tail = last
  BY <1>4, <1>8 DEF Iterator, Kind
<1> DEFINE g == [j \in 1 .. n |-> c[j]]
<1>10. OwnsAt(d, it, g, n)
  <2>1. d \in Map
    BY <1>6 DEF Consumed, Linked
  <2>2. g \in [1 .. n -> Node] /\ \A j \in 1 .. n : g[j] # Null
    BY <1>4, <1>5
  <2>3. n # 0 => g[1] = First /\ g[n] = last
    BY <1>4, <1>7
  <2>4. ASSUME NEW j \in 1 .. n - 1
        PROVE  d.prev[g[j]] = g[j + 1] /\ d.next[g[j + 1]] = g[j]
    <3>1. j \in 1 .. n /\ j + 1 \in 1 .. n /\ j \in 0 .. n
      BY <1>4
    <3>2. g[j] = c[j] /\ g[j + 1] = c[j + 1] /\ c[j] \in Y /\ c[j + 1] \in Y
      BY <1>5, <3>1 DEF Y
    <3> QED BY <1>4, <1>6, <3>1, <3>2
  <2>5. \A j, l \in 1 .. n : g[j] = g[l] => j = l
    BY <1>4
  <2> HIDE DEF g, it, last
  <2> QED BY <1>9, <2>1, <2>2, <2>3, <2>4, <2>5 DEF OwnsAt
<1>11. Owns(d, it) /\ OwnSet(d, it) = Y
  <2>1. {g[j] : j \in 1 .. n} = Y
    BY DEF Y, Members
  <2> HIDE DEF g, it, n
  <2> QED BY <1>10, <2>1, OwnsThat
<1> HIDE DEF it, n
<1> DEFINE its == Append(iters, it)
<1>12. its \in Seq(Iterator) /\ DOMAIN its = {1} /\ its[1] = it
  BY <1>1, <1>9
<1> HIDE DEF its
<1>13. Loose(d, its) = Y
  BY <1>11, <1>12 DEF Loose
<1>14. GoneSide(d, its)
  BY <1>6, <1>9, <1>11, <1>12, <1>13 DEF GoneSide
<1>15. Safe(d, its, held)
  BY <1>1, <1>14, GoneSafe
<1> QED BY <1>1, <1>15 DEF its

(* Freeing nodes of one IntoIter leaves those of the others alone. *)
LEMMA FreedOthers ==
  ASSUME NEW m, NEW its, NEW i, NEW S, NEW d, FreedAt(m, its, i, S, d),
         NEW Y, Y = Loose(m, its) \ S
  PROVE  /\ m \in Map /\ d \in Map /\ Consumed(d, Y)
         /\ \A q \in Node \ S : d.next[q] = m.next[q] /\ d.prev[q] = m.prev[q]
         /\ \A j \in DOMAIN its : /\ its[j] \in Iterator
                                  /\ j # i => Owns(d, its[j]) /\ OwnSet(d, its[j]) = OwnSet(m, its[j])
<1>0. GoneSide(m, its) /\ i \in DOMAIN its /\ S \subseteq OwnSet(m, its[i]) /\ d = Freed(m, S)
  BY DEF FreedAt
<1> DEFINE X == Loose(m, its)
           c == Alone(Null)
<1>1. /\ Linked(m, c, 0, NoSpares, 0, X)
      /\ m.index = Index!new /\ m.head = Null /\ m.free = Null /\ m.present = FALSE
  BY <1>0 DEF GoneSide, Consumed
<1>2. S \subseteq X
  BY <1>0 DEF Loose
<1>3. \A j \in DOMAIN its : its[j] \in Iterator
  <2>1. its \in Seq(Iterator)
    BY <1>0 DEF GoneSide
  <2> QED BY <2>1
<1> HIDE DEF X, c
<1>4. m \in Map
  BY <1>1, LinkedFacts
<1>5. Linked(d, c, 0, NoSpares, 0, Y) /\ Outside(d, m, S) /\ d.head = m.head /\ d.free = m.free
  BY <1>0, <1>1, <1>2, FreeLinked DEF X
<1>6. Consumed(d, Y)
  BY <1>1, <1>5 DEF Consumed, Outside, c
<1>7. d \in Map /\ \A q \in Node \ S : d.next[q] = m.next[q] /\ d.prev[q] = m.prev[q]
  BY <1>0, <1>4, FreedIs
<1>8. ASSUME NEW j \in DOMAIN its, j # i
      PROVE  Owns(d, its[j]) /\ OwnSet(d, its[j]) = OwnSet(m, its[j])
  <2> DEFINE it == its[j]
  <2>1. it \in Iterator /\ it.type = "IntoIter" /\ Owns(m, it) /\ OwnSet(m, it) \cap OwnSet(m, its[i]) = {}
    BY <1>0, <1>3, <1>8 DEF GoneSide
  <2> HIDE DEF it
  <2>2. PICK g : OwnsAt(m, it, g, it.remaining) /\ Own(m, it) = g
    BY <1>4, <2>1, OwnFacts
  <2>3. OwnSet(m, it) = {g[l] : l \in 1 .. it.remaining} /\ \A l \in 1 .. it.remaining : g[l] \in Node
    <3>1. OwnSet(m, it) = {g[l] : l \in 1 .. it.remaining}
      BY <2>2, OwnsThat
    <3>2. g \in [1 .. it.remaining -> Node]
      BY <2>2 DEF OwnsAt
    <3> QED BY <3>1, <3>2
  <2>4. \A q \in OwnSet(m, it) : q \in Node \ S
    BY <1>0, <2>1, <2>3
  <2>5. KeptAt(m, it, d)
    BY <1>4, <1>7, <2>1, <2>4 DEF KeptAt
  <2>6. Owns(d, it) /\ OwnSet(d, it) = OwnSet(m, it)
    BY ONLY <2>5, KeptOwn
  <2> QED BY <2>6 DEF it
<1> QED BY <1>3, <1>4, <1>6, <1>7, <1>8

(* An IntoIter that freed the node it yielded. *)
LEMMA YieldedGone ==
  ASSUME NEW m, NEW its, NEW i, NEW S, NEW d, NEW jt, NEW js, YieldedAt(m, its, i, S, d, jt, js)
  PROVE  GoneSide(d, js)
<1>0. /\ FreedAt(m, its, i, S, d) /\ jt \in Iterator /\ jt.type = "IntoIter" /\ Owns(d, jt)
      /\ OwnSet(d, jt) = OwnSet(m, its[i]) \ S /\ js = [its EXCEPT ![i] = jt]
  BY DEF YieldedAt
<1>1. GoneSide(m, its) /\ i \in DOMAIN its /\ S \subseteq OwnSet(m, its[i])
  BY <1>0 DEF FreedAt
<1>2. /\ its \in Seq(Iterator)
      /\ \A j \in DOMAIN its : its[j].type = "IntoIter"
      /\ \A j, l \in DOMAIN its : j # l => OwnSet(m, its[j]) \cap OwnSet(m, its[l]) = {}
  BY <1>1 DEF GoneSide
<1>3. js \in Seq(Iterator) /\ DOMAIN js = DOMAIN its /\ js[i] = jt /\ \A j \in DOMAIN its : j # i => js[j] = its[j]
  BY <1>0, <1>1, <1>2
<1> DEFINE Y == Loose(m, its) \ S
<1>4. /\ Consumed(d, Y)
      /\ \A j \in DOMAIN its : j # i => Owns(d, its[j]) /\ OwnSet(d, its[j]) = OwnSet(m, its[j])
  <2>1. Y = Loose(m, its) \ S
    OBVIOUS
  <2> HIDE DEF Y
  <2> QED BY <1>0, <2>1, FreedOthers
<1>5. \A j \in DOMAIN its : OwnSet(d, js[j]) = OwnSet(m, its[j]) \ S
  <2>1. \A j \in DOMAIN its : j # i => OwnSet(m, its[j]) \cap S = {}
    BY <1>1, <1>2
  <2> QED BY <1>0, <1>3, <1>4, <2>1
<1>6. Loose(d, js) = Y
  <2>1. Loose(d, js) = UNION {OwnSet(d, js[j]) : j \in DOMAIN its}
    BY <1>3 DEF Loose
  <2>2. UNION {OwnSet(m, its[j]) \ S : j \in DOMAIN its} = Y
    BY DEF Loose
  <2>3. {OwnSet(d, js[j]) : j \in DOMAIN its} = {OwnSet(m, its[j]) \ S : j \in DOMAIN its}
    BY <1>5
  <2> QED BY <2>1, <2>2, <2>3
<1>7. \A j \in DOMAIN js : js[j].type = "IntoIter" /\ Owns(d, js[j])
  BY <1>0, <1>2, <1>3, <1>4
<1>8. \A j, l \in DOMAIN js : j # l => OwnSet(d, js[j]) \cap OwnSet(d, js[l]) = {}
  <2>1. \A j, l \in DOMAIN its : j # l => (OwnSet(m, its[j]) \ S) \cap (OwnSet(m, its[l]) \ S) = {}
    BY <1>2
  <2> QED BY <1>3, <1>5, <2>1
<1> HIDE DEF Y
<1> QED BY <1>3, <1>4, <1>6, <1>7, <1>8 DEF GoneSide

(* An IntoIter that freed its nodes and is dropped. *)
LEMMA DroppedGone ==
  ASSUME NEW m, NEW its, NEW i, NEW S, NEW d, FreedAt(m, its, i, S, d), S = OwnSet(m, its[i]),
         NEW js, js = RemoveAt(its, i)
  PROVE  GoneSide(d, js)
<1>1. GoneSide(m, its) /\ i \in DOMAIN its
  BY DEF FreedAt
<1>2. /\ its \in Seq(Iterator)
      /\ \A j \in DOMAIN its : its[j].type = "IntoIter"
      /\ \A j, l \in DOMAIN its : j # l => OwnSet(m, its[j]) \cap OwnSet(m, its[l]) = {}
  BY <1>1 DEF GoneSide
<1>3. DOMAIN its = 1 .. Len(its) /\ Len(its) \in Nat
  BY SMTT(60), <1>2
<1>4. /\ js \in Seq(Iterator) /\ Len(js) = Len(its) - 1
      /\ \A j \in 1 .. Len(its) - 1 : js[j] = IF j < i THEN its[j] ELSE its[j + 1]
  BY <1>1, <1>2, <1>3, RemoveAtIs
<1> DEFINE at == [j \in 1 .. Len(its) - 1 |-> IF j < i THEN j ELSE j + 1]
<1>5. /\ DOMAIN js = 1 .. Len(its) - 1
      /\ \A j \in DOMAIN js : at[j] \in DOMAIN its /\ at[j] # i /\ js[j] = its[at[j]]
      /\ \A j, l \in DOMAIN js : at[j] = at[l] => j = l
      /\ \A l \in DOMAIN its : l # i => \E j \in DOMAIN js : at[j] = l
  <2>1. DOMAIN js = 1 .. Len(its) - 1
    BY <1>4
  <2>2. ASSUME NEW j \in 1 .. Len(its) - 1 PROVE at[j] \in DOMAIN its /\ at[j] # i /\ js[j] = its[at[j]]
    BY <1>1, <1>3, <1>4
  <2>3. ASSUME NEW j \in 1 .. Len(its) - 1, NEW l \in 1 .. Len(its) - 1, at[j] = at[l] PROVE j = l
    BY <1>1, <1>3, <2>3
  <2>4. ASSUME NEW l \in DOMAIN its, l # i PROVE \E j \in 1 .. Len(its) - 1 : at[j] = l
    <3>1. CASE l < i
      <4>1. l \in 1 .. Len(its) - 1 /\ at[l] = l
        BY <1>1, <1>3, <3>1
      <4> QED BY <4>1
    <3>2. CASE ~(l < i)
      <4>1. l - 1 \in 1 .. Len(its) - 1 /\ ~(l - 1 < i) /\ (l - 1) + 1 = l
        BY <1>1, <1>3, <2>4, <3>2
      <4>2. at[l - 1] = l
        BY <4>1
      <4> QED BY <4>1, <4>2
    <3> QED BY <3>1, <3>2
  <2> HIDE DEF at
  <2> QED BY <2>1, <2>2, <2>3, <2>4
<1> HIDE DEF at
<1> DEFINE Y == Loose(m, its) \ S
<1>6. /\ Consumed(d, Y)
      /\ \A j \in DOMAIN its : j # i => Owns(d, its[j]) /\ OwnSet(d, its[j]) = OwnSet(m, its[j])
  <2>1. Y = Loose(m, its) \ S
    OBVIOUS
  <2> HIDE DEF Y
  <2> QED BY <2>1, FreedOthers
<1>7. Loose(d, js) = Y
  <2>1. ASSUME NEW q \in Loose(d, js) PROVE q \in Y
    <3>1. PICK j \in DOMAIN js : q \in OwnSet(d, js[j])
      BY <2>1 DEF Loose
    <3>2. at[j] \in DOMAIN its /\ at[j] # i /\ q \in OwnSet(m, its[at[j]])
      BY <1>5, <1>6, <3>1
    <3>3. q \notin S
      BY <1>1, <1>2, <3>2
    <3> QED BY <3>2, <3>3 DEF Loose
  <2>2. ASSUME NEW q \in Y PROVE q \in Loose(d, js)
    <3>1. PICK l \in DOMAIN its : q \in OwnSet(m, its[l])
      BY <2>2 DEF Loose
    <3>2. l # i
      BY <2>2, <3>1
    <3>3. PICK j \in DOMAIN js : at[j] = l
      BY <1>5, <3>2
    <3>4. q \in OwnSet(d, js[j])
      BY <1>5, <1>6, <3>1, <3>2, <3>3
    <3> QED BY <3>4 DEF Loose
  <2> QED BY <2>1, <2>2
<1>8. \A j \in DOMAIN js : js[j].type = "IntoIter" /\ Owns(d, js[j])
  BY <1>2, <1>5, <1>6
<1>9. \A j, l \in DOMAIN js : j # l => OwnSet(d, js[j]) \cap OwnSet(d, js[l]) = {}
  BY <1>2, <1>5, <1>6
<1> HIDE DEF Y
<1> QED BY <1>4, <1>6, <1>7, <1>8, <1>9 DEF GoneSide

(* next of an IntoIter gives up its first node. *)
LEMMA FrontGives ==
  ASSUME NEW m, NEW it, NEW p, NEW d, NEW jt, FrontAt(m, it, p, d, jt)
  PROVE  Gives(m, it, p, d, jt)
<1>0. /\ m \in Map /\ it \in Iterator /\ it.type = "IntoIter" /\ it.remaining # 0 /\ Owns(m, it)
      /\ p = it.head /\ d = Freed(m, {p})
      /\ jt = [[it EXCEPT !.head = m.prev[@]] EXCEPT !.remaining = @ - 1]
  BY DEF FrontAt
<1> DEFINE r == it.remaining
<1>1. PICK g : OwnsAt(m, it, g, r)
  BY <1>0, OwnFacts
<1>2. r \in Nat /\ it.head \in Node /\ it.tail \in Node
  BY <1>0 DEF Iterator
<1>3. /\ g \in [1 .. r -> Node] /\ g[1] = it.head /\ g[r] = it.tail
      /\ \A j \in 1 .. r - 1 : m.prev[g[j]] = g[j + 1]
      /\ \A j \in 1 .. r - 1 : m.next[g[j + 1]] = g[j]
      /\ \A j \in 1 .. r : g[j] # Null
      /\ \A j, l \in 1 .. r : g[j] = g[l] => j = l
  BY <1>0, <1>1 DEF OwnsAt
<1>4. OwnSet(m, it) = {g[j] : j \in 1 .. r}
  BY <1>1, OwnsThat
<1>5. d \in Map /\ \A q \in Node \ {p} : d.next[q] = m.next[q] /\ d.prev[q] = m.prev[q]
  BY <1>0, FreedIs
<1>6. m.prev[it.head] \in Node
  BY <1>0, <1>2, MapFacts
<1> DEFINE s == r - 1
<1>7. /\ jt \in Iterator /\ jt.type = "IntoIter" /\ jt.head = m.prev[it.head] /\ jt.tail = it.tail
      /\ jt.remaining = s
  <2>1. s \in Nat
    BY <1>0, <1>2
  <2> QED BY <1>0, <1>6, <2>1 DEF Iterator
<1>8. r # 0 /\ s \in Nat /\ s + 1 = r /\ 1 \in 1 .. r
  BY <1>0, <1>2
<1> HIDE DEF r
<1>9. \A j \in 1 .. s : j + 1 \in 1 .. r /\ j \in 1 .. r /\ j + 1 # 1
  BY <1>2, <1>8
<1> DEFINE h == [j \in 1 .. s |-> g[j + 1]]
<1>10. \A j \in 1 .. s : h[j] = g[j + 1] /\ h[j] # p /\ h[j] \in Node
  <2>1. \A j \in 1 .. s : g[j + 1] # p
    BY <1>0, <1>3, <1>8, <1>9
  <2> QED BY <1>3, <1>9, <2>1
<1>11. h \in [1 .. s -> Node]
  BY <1>10
<1> HIDE DEF h, s
<1>12. OwnsAt(d, jt, h, s)
  <2>1. s # 0 => h[1] = jt.head /\ h[s] = jt.tail
    <3>1. s # 0 => 1 \in 1 .. s /\ s \in 1 .. s /\ 1 \in 1 .. r - 1
      BY <1>8
    <3> QED BY <1>3, <1>7, <1>8, <1>10, <3>1
  <2>2. ASSUME NEW j \in 1 .. s - 1
        PROVE  d.prev[h[j]] = h[j + 1] /\ d.next[h[j + 1]] = h[j]
    <3>1. j \in 1 .. s /\ j + 1 \in 1 .. s /\ j + 1 \in 1 .. r - 1
      BY <1>8
    <3>2. h[j] = g[j + 1] /\ h[j + 1] = g[(j + 1) + 1] /\ h[j] \in Node \ {p} /\ h[j + 1] \in Node \ {p}
      BY <1>10, <3>1
    <3>3. m.prev[g[j + 1]] = g[(j + 1) + 1] /\ m.next[g[(j + 1) + 1]] = g[j + 1]
      BY <1>3, <3>1
    <3> QED BY <1>5, <3>2, <3>3
  <2>3. \A j \in 1 .. s : h[j] # Null
    BY <1>3, <1>9, <1>10
  <2>4. ASSUME NEW j \in 1 .. s, NEW l \in 1 .. s, h[j] = h[l] PROVE j = l
    <3>1. j + 1 = l + 1
      BY <1>3, <1>9, <1>10, <2>4
    <3> QED BY <3>1
  <2> QED BY <1>5, <1>7, <1>11, <2>1, <2>2, <2>3, <2>4 DEF OwnsAt
<1>13. {h[j] : j \in 1 .. s} = {g[j] : j \in 1 .. r} \ {p}
  <2>1. ASSUME NEW j \in 1 .. s PROVE h[j] \in {g[l] : l \in 1 .. r} \ {p}
    BY <1>9, <1>10
  <2>2. ASSUME NEW j \in 1 .. r, g[j] # p PROVE \E l \in 1 .. s : h[l] = g[j]
    <3>1. j # 1
      BY <1>0, <1>3, <2>2
    <3>2. j - 1 \in 1 .. s /\ (j - 1) + 1 = j
      BY <1>8, <3>1
    <3>3. h[j - 1] = g[j]
      BY <1>10, <3>2
    <3> QED BY <3>2, <3>3
  <2> QED BY <2>1, <2>2
<1>14. Owns(d, jt) /\ OwnSet(d, jt) = {h[j] : j \in 1 .. s}
  BY <1>12, OwnsThat
<1>15. p \in OwnSet(m, it)
  BY <1>0, <1>3, <1>4, <1>8
<1> QED BY <1>4, <1>7, <1>13, <1>14, <1>15 DEF Gives

(* next_back of an IntoIter gives up its last node. *)
LEMMA EndGives ==
  ASSUME NEW m, NEW it, NEW p, NEW d, NEW jt, EndAt(m, it, p, d, jt)
  PROVE  Gives(m, it, p, d, jt)
<1>0. /\ m \in Map /\ it \in Iterator /\ it.type = "IntoIter" /\ it.remaining # 0 /\ Owns(m, it)
      /\ p = it.tail /\ d = Freed(m, {p})
      /\ jt = [[it EXCEPT !.tail = m.next[it.tail]] EXCEPT !.remaining = @ - 1]
  BY DEF EndAt
<1> DEFINE r == it.remaining
<1>1. PICK g : OwnsAt(m, it, g, r)
  BY <1>0, OwnFacts
<1>2. r \in Nat /\ it.head \in Node /\ it.tail \in Node
  BY <1>0 DEF Iterator
<1>3. /\ g \in [1 .. r -> Node] /\ g[1] = it.head /\ g[r] = it.tail
      /\ \A j \in 1 .. r - 1 : m.prev[g[j]] = g[j + 1]
      /\ \A j \in 1 .. r - 1 : m.next[g[j + 1]] = g[j]
      /\ \A j \in 1 .. r : g[j] # Null
      /\ \A j, l \in 1 .. r : g[j] = g[l] => j = l
  BY <1>0, <1>1 DEF OwnsAt
<1>4. OwnSet(m, it) = {g[j] : j \in 1 .. r}
  BY <1>1, OwnsThat
<1>5. d \in Map /\ \A q \in Node \ {p} : d.next[q] = m.next[q] /\ d.prev[q] = m.prev[q]
  BY <1>0, FreedIs
<1>6. m.next[it.tail] \in Node
  BY <1>0, <1>2, MapFacts
<1> DEFINE s == r - 1
<1>7. /\ jt \in Iterator /\ jt.type = "IntoIter" /\ jt.tail = m.next[it.tail] /\ jt.head = it.head
      /\ jt.remaining = s
  <2>1. s \in Nat
    BY <1>0, <1>2
  <2> QED BY <1>0, <1>6, <2>1 DEF Iterator
<1>8. r # 0 /\ s \in Nat /\ s + 1 = r /\ 1 \in 1 .. r /\ r \in 1 .. r
  BY <1>0, <1>2
<1> HIDE DEF r
<1>9. \A j \in 1 .. s : j \in 1 .. r /\ j # r
  BY <1>2, <1>8
<1> DEFINE h == [j \in 1 .. s |-> g[j]]
<1>10. \A j \in 1 .. s : h[j] = g[j] /\ h[j] # p /\ h[j] \in Node
  <2>1. \A j \in 1 .. s : g[j] # p
    BY <1>0, <1>3, <1>8, <1>9
  <2> QED BY <1>3, <1>9, <2>1
<1>11. h \in [1 .. s -> Node]
  BY <1>10
<1> HIDE DEF h, s
<1>12. OwnsAt(d, jt, h, s)
  <2>1. s # 0 => h[1] = jt.head /\ h[s] = jt.tail
    <3>1. s # 0 => 1 \in 1 .. s /\ s \in 1 .. s /\ s \in 1 .. r - 1
      BY <1>8
    <3> QED BY <1>3, <1>7, <1>8, <1>10, <3>1
  <2>2. ASSUME NEW j \in 1 .. s - 1
        PROVE  d.prev[h[j]] = h[j + 1] /\ d.next[h[j + 1]] = h[j]
    <3>1. j \in 1 .. s /\ j + 1 \in 1 .. s /\ j \in 1 .. r - 1
      BY <1>8
    <3>2. h[j] = g[j] /\ h[j + 1] = g[j + 1] /\ h[j] \in Node \ {p} /\ h[j + 1] \in Node \ {p}
      BY <1>10, <3>1
    <3>3. m.prev[g[j]] = g[j + 1] /\ m.next[g[j + 1]] = g[j]
      BY <1>3, <3>1
    <3> QED BY <1>5, <3>2, <3>3
  <2>3. \A j \in 1 .. s : h[j] # Null
    BY <1>3, <1>9, <1>10
  <2>4. \A j, l \in 1 .. s : h[j] = h[l] => j = l
    BY <1>3, <1>9, <1>10
  <2> QED BY <1>5, <1>7, <1>11, <2>1, <2>2, <2>3, <2>4 DEF OwnsAt
<1>13. {h[j] : j \in 1 .. s} = {g[j] : j \in 1 .. r} \ {p}
  <2>1. ASSUME NEW j \in 1 .. s PROVE h[j] \in {g[l] : l \in 1 .. r} \ {p}
    BY <1>9, <1>10
  <2>2. ASSUME NEW j \in 1 .. r, g[j] # p PROVE \E l \in 1 .. s : h[l] = g[j]
    <3>1. j # r
      BY <1>0, <1>3, <2>2
    <3>2. j \in 1 .. s
      BY <1>8, <3>1
    <3> QED BY <1>10, <3>2
  <2> QED BY <2>1, <2>2
<1>14. Owns(d, jt) /\ OwnSet(d, jt) = {h[j] : j \in 1 .. s}
  BY <1>12, OwnsThat
<1>15. p \in OwnSet(m, it)
  BY <1>0, <1>3, <1>4, <1>8
<1> QED BY <1>4, <1>7, <1>13, <1>14, <1>15 DEF Gives

(* next and next_back of an IntoIter keep the invariant. *)
LEMMA YieldIntoIterSafe ==
  ASSUME Safe(map, iters, held), NEW i \in DOMAIN iters, iters[i].type = "IntoIter",
         next(i) \/ next_back(i)
  PROVE  Safe(map', iters', held')
<1>1. map.present = FALSE
  BY GoneAt
<1>2. GoneSide(map, iters) /\ held = {}
  BY <1>1, GoneIs
<1> DEFINE it == iters[i]
<1>3. it \in Iterator /\ it.type = "IntoIter" /\ Owns(map, it)
  <2>1. iters \in Seq(Iterator)
    BY <1>2 DEF GoneSide
  <2> QED BY <1>2, <2>1 DEF GoneSide
<1>4. map \in Map
  BY <1>2, LinkedFacts DEF GoneSide, Consumed
<1>5. \E p, jt : /\ Gives(map, it, p, map', jt) /\ iters' = [iters EXCEPT ![i] = jt]
                 /\ held' = held /\ map' = Freed(map, {p})
  <2>1. CASE next(i)
    <3> DEFINE p == it.head
               jt == [[it EXCEPT !.head = map.prev[@]] EXCEPT !.remaining = @ - 1]
               d == Freed(map, {p})
    <3>1. [it EXCEPT !.head = map.prev[@]].type = "IntoIter"
      BY <1>3 DEF Iterator
    <3>2. ~Ended(it) /\ iters' = [iters EXCEPT ![i] = jt] /\ map' = d /\ held' = held
      BY <1>3, <2>1, <3>1 DEF next, Yields, YieldNode, drop_empty_node
    <3>3. it.remaining # 0
      BY <1>3, <3>2 DEF Ended
    <3> DEFINE m == map
    <3>4. FrontAt(m, it, p, d, jt)
      BY <1>3, <1>4, <3>3 DEF FrontAt
    <3>5. d = Freed(map, {p})
      OBVIOUS
    <3> HIDE DEF p, d, jt, it
    <3>6. Gives(m, it, p, d, jt)
      <4> HIDE DEF m
      <4> QED BY ONLY <3>4, FrontGives
    <3> QED BY <3>2, <3>5, <3>6
  <2>2. CASE next_back(i)
    <3> DEFINE p == it.tail
               jt == [[it EXCEPT !.tail = map.next[it.tail]] EXCEPT !.remaining = @ - 1]
               d == Freed(map, {p})
    <3>1. [it EXCEPT !.tail = map.next[it.tail]].type = "IntoIter"
      BY <1>3 DEF Iterator
    <3>2. ~Ended(it) /\ iters' = [iters EXCEPT ![i] = jt] /\ map' = d /\ held' = held
      BY <1>3, <2>2, <3>1 DEF next_back, Yields, YieldNode, drop_empty_node
    <3>3. it.remaining # 0
      BY <1>3, <3>2 DEF Ended
    <3> DEFINE m == map
    <3>4. EndAt(m, it, p, d, jt)
      BY <1>3, <1>4, <3>3 DEF EndAt
    <3>5. d = Freed(map, {p})
      OBVIOUS
    <3> HIDE DEF p, d, jt, it
    <3>6. Gives(m, it, p, d, jt)
      <4> HIDE DEF m
      <4> QED BY ONLY <3>4, EndGives
    <3> QED BY <3>2, <3>5, <3>6
  <2> QED BY <2>1, <2>2
<1>6. PICK p, jt : /\ Gives(map, it, p, map', jt) /\ iters' = [iters EXCEPT ![i] = jt]
                   /\ held' = held /\ map' = Freed(map, {p})
  BY <1>5
<1> DEFINE S == {p}
           d == map'
           js == iters'
           m == map
           its == iters
<1>7. YieldedAt(m, its, i, S, d, jt, js)
  BY <1>2, <1>6 DEF YieldedAt, FreedAt, Gives
<1> HIDE DEF S, d, js, m, its
<1>8. GoneSide(d, js)
  BY ONLY <1>7, YieldedGone
<1>9. held' = {}
  BY <1>2, <1>6
<1>10. Safe(d, js, held')
  BY <1>8, <1>9, GoneSafe
<1> QED BY <1>10 DEF d, js

(* The nodes of an IntoIter from its tail. *)
LEMMA OwnBack ==
  ASSUME NEW m \in Map, NEW it \in Iterator, it.type = "IntoIter", Owns(m, it)
  PROVE  ToSet(Path(m.next, it.tail, it.remaining)) = OwnSet(m, it)
<1> DEFINE r == it.remaining
<1>1. PICK g : OwnsAt(m, it, g, r)
  BY OwnFacts
<1>2. r \in Nat /\ it.tail \in Node /\ m.next \in [Node -> Node]
  BY MapFacts DEF Iterator
<1>3. /\ g \in [1 .. r -> Node] /\ (r # 0 => g[r] = it.tail)
      /\ \A j \in 1 .. r - 1 : m.next[g[j + 1]] = g[j]
  BY <1>1 DEF OwnsAt
<1>4. OwnSet(m, it) = {g[j] : j \in 1 .. r}
  BY <1>1, OwnsThat
<1> HIDE DEF r
<1> DEFINE s == r + 1
           h == [j \in 1 .. r |-> g[s - j]]
<1>5. s \in Nat /\ s = r + 1
  BY <1>2
<1> HIDE DEF s
<1>6. \A j \in 1 .. r : s - j \in 1 .. r /\ s - (s - j) = j
  BY <1>2, <1>5
<1>7. h \in [1 .. r -> Node]
  BY <1>3, <1>6
<1>8. r # 0 => h[1] = it.tail
  BY <1>2, <1>3, <1>5
<1>9. ASSUME NEW j \in 1 .. r - 1 PROVE h[j + 1] = m.next[h[j]]
  <2>1. j \in 1 .. r /\ j + 1 \in 1 .. r /\ s - (j + 1) \in 1 .. r - 1 /\ (s - (j + 1)) + 1 = s - j
    BY <1>2, <1>5
  <2> QED BY <1>3, <2>1
<1>10. Path(m.next, it.tail, r) = h
  <2> DEFINE a == m.next
             p == it.tail
  <2>1. a \in [Node -> Node] /\ p \in Node /\ r \in Nat /\ h \in [1 .. r -> Node]
        /\ (r # 0 => h[1] = p) /\ \A j \in 1 .. r - 1 : h[j + 1] = a[h[j]]
    BY <1>2, <1>7, <1>8, <1>9
  <2> HIDE DEF a, p, h
  <2>2. Path(a, p, r) = h
    BY ONLY <2>1, PathIsThat
  <2> QED BY <2>2 DEF a, p
<1>11. ToSet(h) = {h[j] : j \in 1 .. r}
  BY DEF ToSet
<1>12. {h[j] : j \in 1 .. r} = {g[j] : j \in 1 .. r}
  <2>1. ASSUME NEW j \in 1 .. r PROVE h[j] \in {g[l] : l \in 1 .. r}
    BY <1>6
  <2>2. ASSUME NEW j \in 1 .. r PROVE \E l \in 1 .. r : h[l] = g[j]
    <3>1. h[s - j] = g[j]
      BY <1>6
    <3> QED BY <1>6, <3>1
  <2> HIDE DEF h
  <2> QED BY <2>1, <2>2
<1> QED BY <1>4, <1>10, <1>11, <1>12 DEF r

(* Dropping an IntoIter half way frees what remains, once. *)
LEMMA DropIntoIterSafe ==
  ASSUME Safe(map, iters, held), NEW i \in DOMAIN iters, iters[i].type = "IntoIter", DropIter(i)
  PROVE  Safe(map', iters', held')
<1>1. map.present = FALSE
  BY GoneAt
<1>2. GoneSide(map, iters) /\ held = {}
  BY <1>1, GoneIs
<1> DEFINE it == iters[i]
<1>3. it \in Iterator /\ it.type = "IntoIter" /\ Owns(map, it)
  <2>1. iters \in Seq(Iterator)
    BY <1>2 DEF GoneSide
  <2> QED BY <1>2, <2>1 DEF GoneSide
<1>4. map \in Map
  BY <1>2, LinkedFacts DEF GoneSide, Consumed
<1>5. /\ map' = Freed(map, ToSet(Path(map.next, it.tail, it.remaining)))
      /\ iters' = RemoveAt(iters, i) /\ held' = held
  BY DEF DropIter
<1>6. ToSet(Path(map.next, it.tail, it.remaining)) = OwnSet(map, it)
  <2> HIDE DEF it
  <2> QED BY <1>3, <1>4, OwnBack
<1> DEFINE S == OwnSet(map, iters[i])
           d == map'
           js == iters'
           m == map
           its == iters
<1>7. FreedAt(m, its, i, S, d) /\ S = OwnSet(m, its[i]) /\ js = RemoveAt(its, i)
  BY <1>2, <1>5, <1>6 DEF FreedAt
<1> HIDE DEF S, d, js, m, its
<1>8. GoneSide(d, js)
  BY ONLY <1>7, DroppedGone
<1>9. held' = {}
  BY <1>2, <1>5
<1>10. Safe(d, js, held')
  BY <1>8, <1>9, GoneSafe
<1> QED BY <1>10 DEF d, js

(* Writing a new node for a copy. *)
LEMMA NodeWrittenIs ==
  ASSUME NEW m, NEW p, NEW x, NEW v, NEW d, NodeWritten(m, p, x, v, d)
  PROVE  /\ d \in Map /\ WrittenOver(d, m, p, x, v) /\ d.free = m.free
         /\ d.live = m.live \cup {p}
         /\ \A a \in Node : a # p => d.next[a] = m.next[a] /\ d.prev[a] = m.prev[a]
<1>1. m \in Map /\ p \in Addr /\ x \in Keys \cup {NoKey} /\ v \in Values \cup {Null} /\ d = Written(m, p, x, v)
  BY DEF NodeWritten
<1>2. /\ d \in Map /\ WrittenOver(d, m, p, x, v) /\ d.free = m.free
      /\ d.live = m.live \cup {p}
      /\ d.next = [m.next EXCEPT ![p] = Null] /\ d.prev = [m.prev EXCEPT ![p] = Null]
  BY <1>1, WrittenIs
<1>3. m.next \in [Node -> Node] /\ m.prev \in [Node -> Node]
  BY <1>1, MapFacts
<1> QED BY <1>2, <1>3

(* Changing the pointers alone. *)
LEMMA RelinkedThat ==
  ASSUME NEW m, NEW a, NEW b, NEW d, RelinkedAt(m, a, b, d)
  PROVE  d \in Map /\ d.next = a /\ d.prev = b /\ Beside(d, m)
BY DEF RelinkedAt, Map, Beside

(* One iteration of the clone of an IntoIter adds one node to the copy. *)
LEMMA CopyStep ==
  ASSUME NEW m, NEW r, NEW g, NEW j, NEW acc, NEW h, NEW e, CopyAt(m, r, g, j, acc, h, e)
  PROVE  \E h1 : Copying(m, r, g, j + 1, e, h1)
<1>0. /\ m \in Map /\ r \in Nat /\ j \in Nat /\ j < r /\ r <= Free(m) /\ Copying(m, r, g, j, acc, h)
      /\ \A l \in 1 .. r : g[l] \in m.live
      /\ e = Copied(acc, g[j + 1])
  BY DEF CopyAt
<1> DEFINE s == acc.map
           it == acc.iter
           p == g[j + 1]
           x == s.key[p]
           v == s.value[p]
           q == Vacant(s.live, x)
           w == Written(s, q, x, v)
           t == it.tail
           z == [w EXCEPT !.prev[t] = q, !.next[q] = t]
           y == j + 1
           h1 == [l \in 1 .. y |-> IF l <= j THEN h[l] ELSE q]
<1>1. /\ s \in Map /\ it \in Iterator /\ it.type = "IntoIter" /\ it.remaining = r
      /\ h \in [1 .. j -> Addr]
      /\ \A l \in 1 .. j : h[l] \notin m.live
      /\ \A a, b \in 1 .. j : h[a] = h[b] => a = b
      /\ s.live = m.live \cup {h[l] : l \in 1 .. j}
      /\ j = 0 => it.head = Null
      /\ j # 0 => h[1] = it.head /\ h[j] = it.tail
      /\ Free(s) = Free(m) - j
  BY <1>0 DEF Copying
<1>2. /\ \A l \in 1 .. j - 1 : s.prev[h[l]] = h[l + 1]
      /\ \A l \in 1 .. j - 1 : s.next[h[l + 1]] = h[l]
      /\ \A l \in 1 .. j : s.key[h[l]] = m.key[g[l]] /\ s.value[h[l]] = m.value[g[l]]
      /\ \A a \in m.live : /\ s.next[a] = m.next[a] /\ s.prev[a] = m.prev[a]
                           /\ s.key[a] = m.key[a] /\ s.value[a] = m.value[a]
      /\ s.next[Null] = Null /\ s.prev[Null] = Null
      /\ s.head = Null /\ s.free = Null /\ s.index = Index!new /\ s.present = FALSE
  BY <1>0 DEF Copying
<1>3. y \in 1 .. r /\ y \in Nat /\ y = j + 1 /\ y # 0 /\ y - 1 = j
  BY <1>0
<1>4. p \in m.live /\ m.live \subseteq Addr /\ p \in Node
  <2>1. p \in m.live
    BY <1>0, <1>3
  <2>2. m.live \subseteq Addr
    BY <1>0, MapFacts
  <2> QED BY <2>1, <2>2 DEF Node
<1>5. x = m.key[p] /\ v = m.value[p] /\ x \in Keys \cup {NoKey} /\ v \in Values \cup {Null}
  <2>1. s.key \in [Node -> Keys \cup {NoKey}] /\ s.value \in [Node -> Values \cup {Null}]
    BY <1>1, MapFacts
  <2> QED BY <1>2, <1>4, <2>1
<1>6. Null \in Node /\ Null \notin Addr /\ Addr \subseteq Node /\ s.live \subseteq Addr
      /\ s.next \in [Node -> Node] /\ s.prev \in [Node -> Node]
  <2>1. Addr \subseteq Node
    BY DEF Node
  <2> QED BY <1>1, <2>1, MapFacts
<1>7. Free(m) \in Nat /\ Free(s) \in Nat /\ Free(s) # 0
  <2>1. Free(m) \in Nat /\ Free(s) \in Nat
    BY <1>0, <1>1, FreeIs
  <2> QED BY <1>0, <1>1, <2>1
<1> HIDE DEF x, v
<1>8. q \in Addr /\ q \notin s.live
  <2> HIDE DEF s
  <2> QED BY <1>1, <1>5, <1>7, VacantIs
<1>9. q \in Node /\ q # Null /\ q \notin m.live /\ \A l \in 1 .. j : h[l] # q /\ h[l] \in Node /\ h[l] # Null
  BY <1>1, <1>6, <1>8
<1> HIDE DEF q
<1>10. /\ w \in Map /\ WrittenOver(w, s, q, x, v) /\ w.free = s.free
       /\ w.live = s.live \cup {q}
       /\ \A a \in Node : a # q => w.next[a] = s.next[a] /\ w.prev[a] = s.prev[a]
  <2>1. NodeWritten(s, q, x, v, w)
    BY SMTT(60), <1>1, <1>5, <1>8 DEF NodeWritten
  <2> HIDE DEF w, s
  <2> QED BY ONLY <2>1, NodeWrittenIs
<1>11. e = IF it.head = Null THEN [map |-> w, iter |-> [it EXCEPT !.head = q, !.tail = q]]
           ELSE [map |-> z, iter |-> [it EXCEPT !.tail = q]]
  BY <1>0 DEF Copied, x, v, q
<1> HIDE DEF w
<1>12. /\ w.index = s.index /\ w.present = s.present /\ w.head = s.head
       /\ w.key[q] = x /\ w.value[q] = v
       /\ \A a \in Node : a # q => w.key[a] = s.key[a] /\ w.value[a] = s.value[a]
  BY <1>10 DEF WrittenOver
<1>13. \A a \in Node : a # q => w.next[a] = s.next[a] /\ w.prev[a] = s.prev[a]
  BY <1>10
<1>14. t \in Node /\ (it.head = Null <=> j = 0)
  <2>1. j # 0 => 1 \in 1 .. j
    BY <1>0
  <2> QED BY <1>1, <1>9, <2>1 DEF Iterator
<1>15. /\ e.map \in Map /\ e.map.live = s.live \cup {q}
       /\ e.map.index = s.index /\ e.map.present = s.present /\ e.map.head = s.head /\ e.map.free = s.free
       /\ e.map.key = w.key /\ e.map.value = w.value
       /\ \A a \in Node : a # q => e.map.next[a] = s.next[a]
       /\ \A a \in Node : a # q /\ (j = 0 \/ a # t) => e.map.prev[a] = s.prev[a]
       /\ j # 0 => e.map.prev[t] = q /\ e.map.next[q] = t
       /\ e.iter \in Iterator /\ e.iter.type = "IntoIter" /\ e.iter.remaining = r /\ e.iter.tail = q
       /\ j = 0 => e.iter.head = q
       /\ j # 0 => e.iter.head = it.head
  <2>1. CASE j = 0
    <3>1. e = [map |-> w, iter |-> [it EXCEPT !.head = q, !.tail = q]]
      BY <1>11, <1>14, <2>1
    <3>2. e.map = w /\ e.iter = [it EXCEPT !.head = q, !.tail = q]
      BY <3>1
    <3>3. e.iter \in Iterator /\ e.iter.type = "IntoIter" /\ e.iter.remaining = r /\ e.iter.tail = q /\ e.iter.head = q
      BY <1>1, <1>9, <3>2 DEF Iterator
    <3> QED BY <1>10, <1>12, <1>13, <2>1, <3>2, <3>3
  <2>2. CASE j # 0
    <3>1. e = [map |-> z, iter |-> [it EXCEPT !.tail = q]]
      BY <1>11, <1>14, <2>2
    <3>2. e.map = z /\ e.iter = [it EXCEPT !.tail = q]
      BY <3>1
    <3>3. e.iter \in Iterator /\ e.iter.type = "IntoIter" /\ e.iter.remaining = r /\ e.iter.tail = q /\ e.iter.head = it.head
      BY <1>1, <1>9, <3>2 DEF Iterator
    <3>4. w.next \in [Node -> Node] /\ w.prev \in [Node -> Node]
      BY <1>10, MapFacts
    <3>5. t \in Node
      BY <1>1 DEF Iterator
    <3> DEFINE na == [w.next EXCEPT ![q] = t]
               pa == [w.prev EXCEPT ![t] = q]
    <3>6. na \in [Node -> Node] /\ pa \in [Node -> Node]
      BY <1>9, <3>4, <3>5
    <3>7. z = [w EXCEPT !.next = na, !.prev = pa]
      BY <1>10 DEF Map
    <3>8. na[q] = t /\ pa[t] = q /\ (\A a \in Node : a # q => na[a] = w.next[a]) /\ (\A a \in Node : a # t => pa[a] = w.prev[a])
      BY <1>9, <3>4, <3>5
    <3>0. RelinkedAt(w, na, pa, z)
      BY <1>10, <3>6, <3>7 DEF RelinkedAt
    <3> HIDE DEF na, pa, z
    <3>9. z \in Map /\ z.next = na /\ z.prev = pa /\ Beside(z, w)
      BY ONLY <3>0, RelinkedThat
    <3>10. \A a \in Node : a # q => z.next[a] = s.next[a]
      BY <1>13, <3>8, <3>9
    <3>11. \A a \in Node : a # q /\ a # t => z.prev[a] = s.prev[a]
      BY <1>13, <3>8, <3>9
    <3>12. z.prev[t] = q /\ z.next[q] = t
      BY <3>8, <3>9
    <3> HIDE DEF t, s
    <3>13. /\ z.live = s.live \cup {q} /\ z.index = s.index /\ z.present = s.present /\ z.head = s.head /\ z.free = s.free
           /\ z.key = w.key /\ z.value = w.value
      BY <1>10, <1>12, <3>9 DEF Beside
    <3> QED BY <2>2, <3>2, <3>3, <3>9, <3>10, <3>11, <3>12, <3>13
  <2> QED BY <2>1, <2>2
<1>16. \A l \in 1 .. y : (l \in 1 .. j /\ l <= j /\ l # y) \/ (l = y /\ ~(l <= j))
  BY <1>0
<1>17. /\ \A l \in 1 .. j : l \in 1 .. y /\ h1[l] = h[l]
       /\ h1[y] = q /\ y \in 1 .. y
  BY <1>0
<1>18. h1 \in [1 .. y -> Addr]
  BY <1>1, <1>8, <1>16
<1> HIDE DEF h1
<1>19. \A l \in 1 .. y : h1[l] \notin m.live
  BY <1>1, <1>9, <1>16, <1>17
<1>20. \A a, b \in 1 .. y : h1[a] = h1[b] => a = b
  BY <1>1, <1>9, <1>16, <1>17
<1>21. e.map.live = m.live \cup {h1[l] : l \in 1 .. y}
  <2>1. {h1[l] : l \in 1 .. y} = {h[l] : l \in 1 .. j} \cup {q}
    <3>1. ASSUME NEW l \in 1 .. y PROVE h1[l] \in {h[b] : b \in 1 .. j} \cup {q}
      BY <1>16, <1>17
    <3>2. ASSUME NEW l \in 1 .. j PROVE h[l] \in {h1[b] : b \in 1 .. y}
      BY <1>17
    <3> QED BY <1>17, <3>1, <3>2
  <2> QED BY <1>1, <1>15, <2>1
<1>22. h1[1] = e.iter.head /\ h1[y] = e.iter.tail
  <2>1. CASE j = 0
    BY <1>3, <1>15, <1>17, <2>1
  <2>2. CASE j # 0
    <3>1. 1 \in 1 .. j
      BY <1>0, <2>2
    <3> QED BY <1>1, <1>15, <1>17, <2>2, <3>1
  <2> QED BY <2>1, <2>2
<1>23. ASSUME NEW l \in 1 .. y - 1
       PROVE  e.map.prev[h1[l]] = h1[l + 1] /\ e.map.next[h1[l + 1]] = h1[l]
  <2>1. l \in 1 .. j /\ h1[l] = h[l] /\ j # 0 /\ j \in 1 .. j
    BY <1>0, <1>3, <1>17
  <2>2. CASE l = j
    <3>1. h[l] = t /\ h1[l + 1] = q
      BY <1>1, <1>3, <1>17, <2>1, <2>2
    <3> QED BY <1>15, <2>1, <3>1
  <2>3. CASE l # j
    <3>1. l \in 1 .. j - 1 /\ l + 1 \in 1 .. j
      BY <1>0, <2>1, <2>3
    <3>2. h1[l + 1] = h[l + 1] /\ h[l] # q /\ h[l + 1] # q /\ h[l] \in Node /\ h[l + 1] \in Node
      BY <1>9, <1>17, <2>1, <3>1
    <3>3. h[l] # t
      BY <1>1, <2>1, <2>3
    <3> QED BY <1>2, <1>15, <2>1, <3>1, <3>2, <3>3
  <2> QED BY <2>2, <2>3
<1>24. \A l \in 1 .. y : e.map.key[h1[l]] = m.key[g[l]] /\ e.map.value[h1[l]] = m.value[g[l]]
  <2>1. e.map.key[q] = m.key[g[y]] /\ e.map.value[q] = m.value[g[y]]
    BY <1>5, <1>12, <1>15
  <2>2. \A l \in 1 .. j : e.map.key[h[l]] = m.key[g[l]] /\ e.map.value[h[l]] = m.value[g[l]]
    BY <1>2, <1>9, <1>12, <1>15
  <2> QED BY <1>16, <1>17, <2>1, <2>2
<1>25. ASSUME NEW a \in m.live
       PROVE  /\ e.map.next[a] = m.next[a] /\ e.map.prev[a] = m.prev[a]
              /\ e.map.key[a] = m.key[a] /\ e.map.value[a] = m.value[a]
  <2>1. a \in Node /\ a # q
    BY <1>4, <1>6, <1>9
  <2>2. j = 0 \/ a # t
    <3>1. j # 0 => j \in 1 .. j
      BY <1>0
    <3> QED BY <1>1, <3>1
  <2> QED BY <1>2, <1>12, <1>15, <2>1, <2>2
<1>26. e.map.next[Null] = Null /\ e.map.prev[Null] = Null
  <2>1. j = 0 \/ Null # t
    <3>1. j # 0 => j \in 1 .. j
      BY <1>0
    <3> QED BY <1>1, <1>9, <3>1
  <2> QED BY <1>2, <1>6, <1>9, <1>15, <2>1
<1>27. Free(e.map) = Free(m) - y
  <2>1. \A b \in Addr \ s.live, d \in Map : d.live = s.live \cup {b} => Free(d) = Free(s) - 1
    <3> HIDE DEF s
    <3> QED BY <1>1, FreeIs
  <2>2. Free(e.map) = Free(s) - 1
    BY <1>8, <1>15, <2>1
  <2>3. Free(m) \in Int
    BY <1>7
  <2> HIDE DEF s
  <2> QED BY <1>0, <1>1, <1>3, <2>2, <2>3
<1>28. Copying(m, r, g, y, e, h1)
  <2> HIDE DEF y, s
  <2> QED BY <1>2, <1>3, <1>15, <1>18, <1>19, <1>20, <1>21, <1>22, <1>23, <1>24, <1>25, <1>26, <1>27 DEF Copying
<1> QED BY <1>28

(* Before the first iteration the copy is empty. *)
LEMMA CopyBase ==
  ASSUME NEW m, NEW it, NEW r, NEW g, CopiesAt(m, it, r, g), NEW e, e = CopiedFrom(m, it)
  PROVE  \E h : Copying(m, r, g, 0, e, h)
<1>1. /\ m \in Map /\ it \in Iterator /\ it.type = "IntoIter" /\ r = it.remaining
      /\ m.next[Null] = Null /\ m.prev[Null] = Null
      /\ m.head = Null /\ m.free = Null /\ m.index = Index!new /\ m.present = FALSE
  BY DEF CopiesAt, OwnsAt
<1> DEFINE jt == [it EXCEPT !.head = Null, !.tail = Null]
<1>2. Null \in Node
  BY DEF Node
<1>3. jt \in Iterator /\ jt.type = "IntoIter" /\ jt.remaining = r /\ jt.head = Null
  BY <1>1, <1>2 DEF Iterator
<1>4. e.map = m /\ e.iter = jt
  BY DEF CopiedFrom
<1> HIDE DEF jt
<1> DEFINE h == [l \in 1 .. 0 |-> Null]
<1>5. 1 .. 0 = {} /\ 1 .. 0 - 1 = {}
  OBVIOUS
<1>6. h \in [1 .. 0 -> Addr]
  BY <1>5
<1>7. {h[l] : l \in 1 .. 0} = {}
  BY <1>5
<1>8. Free(m) \in Nat /\ Free(m) - 0 = Free(m)
  BY <1>1, FreeIs
<1> HIDE DEF h
<1>9. Copying(m, r, g, 0, e, h)
  BY <1>1, <1>3, <1>4, <1>5, <1>6, <1>7, <1>8 DEF Copying
<1> QED BY <1>9

(* The clone of an IntoIter has as many nodes of its own as remain. *)
LEMMA CopiesIs ==
  ASSUME NEW m, NEW it, NEW r, NEW g, CopiesAt(m, it, r, g), NEW e, e = Cloned(m, it)
  PROVE  \E h : Copying(m, r, g, r, e, h)
<1>1. /\ m \in Map /\ it \in Iterator /\ r = it.remaining /\ r \in Nat
      /\ r <= Free(m) /\ \A l \in 1 .. r : g[l] \in m.live
      /\ Path(m.prev, it.head, it.remaining) = g
  BY DEF CopiesAt, OwnsAt, Iterator, Own
<1> DEFINE base == CopiedFrom(m, it)
           Made(c) == c = [j \in 0 .. r |-> IF j = 0 THEN base ELSE Copied(c[j - 1], g[j])]
           c == CHOOSE x : Made(x)
           U == [map : Map, iter : Iterator]
           S == [j \in 0 .. r |-> {acc \in U : \E h : Copying(m, r, g, j, acc, h)}]
           step == [j \in 1 .. r |-> [acc \in U |-> Copied(acc, g[j])]]
<1>2. e = c[r]
  BY <1>1 DEF Cloned, CopiedFrom
<1>3. base \in S[0]
  <2>1. base.map \in Map /\ base.iter \in Iterator
    BY CopyBase DEF Copying
  <2>2. base \in U
    BY <2>1 DEF CopiedFrom
  <2> HIDE DEF base
  <2>3. \E h : Copying(m, r, g, 0, base, h)
    BY CopyBase DEF base
  <2>4. 0 \in 0 .. r
    BY <1>1
  <2> QED BY <2>2, <2>3, <2>4
<1> HIDE DEF base
<1>4. ASSUME NEW j \in 1 .. r, NEW acc \in S[j - 1] PROVE Copied(acc, g[j]) \in S[j] /\ acc \in U
  <2> DEFINE i == j - 1
             d == Copied(acc, g[j])
  <2>1. i \in Nat /\ i < r /\ i + 1 = j /\ i \in 0 .. r /\ j \in 0 .. r
    BY <1>1
  <2>2. acc \in U /\ \E h : Copying(m, r, g, i, acc, h)
    BY <2>1
  <2>3. PICK h : Copying(m, r, g, i, acc, h)
    BY <2>2
  <2>4. d = [map |-> d.map, iter |-> d.iter]
    BY DEF Copied
  <2>5. d = Copied(acc, g[i + 1])
    BY <2>1
  <2> HIDE DEF d, i
  <2>6. CopyAt(m, r, g, i, acc, h, d)
    BY <1>1, <2>1, <2>3, <2>5 DEF CopyAt
  <2>7. \E h1 : Copying(m, r, g, i + 1, d, h1)
    BY ONLY <2>6, CopyStep
  <2>8. \E h1 : Copying(m, r, g, j, d, h1)
    BY <2>1, <2>7
  <2>9. d \in U
    BY <2>4, <2>8 DEF Copying
  <2>10. d \in S[j]
    BY <2>1, <2>8, <2>9
  <2> QED BY <2>2, <2>10 DEF d
<1>5. \E x : Made(x)
  <2>1. S \in [0 .. r -> SUBSET U]
    OBVIOUS
  <2>2. \A k \in 1 .. r : \A s \in S[k - 1] : step[k][s] \in S[k]
    BY <1>4
  <2>3. PICK x : Loops(x, r, base, step) /\ \A k \in 0 .. r : x[k] \in S[k]
    <3> HIDE DEF S, step, U
    <3> QED BY <1>1, <1>3, <2>1, <2>2, LoopExists
  <2>4. x = [k \in 0 .. r |-> IF k = 0 THEN base ELSE step[k][x[k - 1]]]
    BY <2>3 DEF Loops
  <2>5. \A k \in 0 .. r : k # 0 => step[k][x[k - 1]] = Copied(x[k - 1], g[k])
    <3> SUFFICES ASSUME NEW k \in 0 .. r, k # 0 PROVE step[k][x[k - 1]] = Copied(x[k - 1], g[k])
      OBVIOUS
    <3>1. k \in 1 .. r /\ k - 1 \in 0 .. r
      BY <1>1
    <3>2. x[k - 1] \in S[k - 1]
      BY <2>3, <3>1
    <3>3. x[k - 1] \in U
      <4> HIDE DEF S
      <4> QED BY <1>4, <3>1, <3>2
    <3> QED BY <3>1, <3>3
  <2> HIDE DEF step
  <2>6. Made(x)
    BY <2>4, <2>5
  <2> QED BY <2>6
<1>6. Made(c)
  <2> HIDE DEF Made
  <2> QED BY <1>5
<1> HIDE DEF c
<1>7. c[0] = base /\ \A k \in 1 .. r : c[k] = Copied(c[k - 1], g[k])
  BY <1>1, <1>6
<1>8. c[0] \in S[0] /\ \A k \in 1 .. r : c[k - 1] \in S[k - 1] => c[k] \in S[k]
  <2> HIDE DEF S
  <2> QED BY <1>3, <1>4, <1>7
<1>9. \A k \in 0 .. r : c[k] \in S[k]
  <2> HIDE DEF S
  <2> QED BY <1>1, <1>8, LoopInvariant
<1>10. c[r] \in S[r] /\ r \in 0 .. r
  <2> HIDE DEF S
  <2> QED BY <1>1, <1>9
<1> QED BY <1>2, <1>10

(* A new owner of new nodes beside the others. *)
LEMMA OwnerAdded ==
  ASSUME NEW m, NEW its, NEW d, NEW jt, AddsOwner(m, its, d, jt), NEW e, e = Append(its, jt)
  PROVE  GoneSide(d, e)
<1>1. /\ GoneSide(m, its) /\ m.live = Loose(m, its)
      /\ Consumed(d, d.live)
      /\ \A q \in m.live : d.next[q] = m.next[q] /\ d.prev[q] = m.prev[q]
      /\ jt \in Iterator /\ jt.type = "IntoIter" /\ Owns(d, jt)
      /\ OwnSet(d, jt) \cap m.live = {} /\ d.live = m.live \cup OwnSet(d, jt)
  BY DEF AddsOwner
<1>2. /\ m \in Map /\ d \in Map /\ its \in Seq(Iterator)
      /\ \A i \in DOMAIN its : its[i].type = "IntoIter" /\ Owns(m, its[i])
      /\ \A i, j \in DOMAIN its : i # j => OwnSet(m, its[i]) \cap OwnSet(m, its[j]) = {}
  BY <1>1 DEF GoneSide, Consumed, Linked
<1> DEFINE n == Len(its)
           l == n + 1
<1>3. /\ n \in Nat /\ DOMAIN its = 1 .. n /\ e \in Seq(Iterator) /\ DOMAIN e = 1 .. l
      /\ \A i \in 1 .. n : e[i] = its[i] /\ i \in DOMAIN e
      /\ e[l] = jt /\ l \in DOMAIN e
      /\ \A i \in 1 .. l : i \in 1 .. n \/ i = l
      /\ l \notin 1 .. n
  BY <1>1, <1>2
<1> HIDE DEF l, n
<1>4. ASSUME NEW i \in 1 .. n
      PROVE  /\ Owns(d, its[i]) /\ OwnSet(d, its[i]) = OwnSet(m, its[i]) /\ OwnSet(m, its[i]) \subseteq m.live
             /\ its[i].type = "IntoIter"
  <2>1. OwnSet(m, its[i]) \subseteq m.live
    BY <1>1, <1>3 DEF Loose
  <2>2. its[i] \in Iterator
    BY <1>2, <1>3
  <2>3. KeptAt(m, its[i], d)
    BY <1>1, <1>2, <1>3, <2>1, <2>2 DEF KeptAt
  <2> QED BY <1>2, <1>3, <2>1, <2>3, KeptOwn
<1>5. \A i \in DOMAIN e : e[i].type = "IntoIter" /\ Owns(d, e[i])
  BY <1>1, <1>3, <1>4
<1>6. ASSUME NEW i \in DOMAIN e, NEW j \in DOMAIN e, i # j
      PROVE  OwnSet(d, e[i]) \cap OwnSet(d, e[j]) = {}
  <2>1. CASE i \in 1 .. n /\ j \in 1 .. n
    BY <1>2, <1>3, <1>4, <1>6, <2>1
  <2>2. CASE i = l /\ j \in 1 .. n
    BY <1>1, <1>3, <1>4, <2>2
  <2>3. CASE j = l /\ i \in 1 .. n
    BY <1>1, <1>3, <1>4, <2>3
  <2> QED BY <1>3, <1>6, <2>1, <2>2, <2>3
<1>7. Loose(d, e) = d.live
  <2>1. ASSUME NEW q \in Loose(d, e) PROVE q \in d.live
    <3>1. PICK i \in DOMAIN e : q \in OwnSet(d, e[i])
      BY <2>1 DEF Loose
    <3> QED BY <1>1, <1>3, <1>4, <3>1
  <2>2. ASSUME NEW q \in d.live PROVE \E i \in DOMAIN e : q \in OwnSet(d, e[i])
    <3>1. CASE q \in OwnSet(d, jt)
      BY <1>3, <3>1
    <3>2. CASE q \notin OwnSet(d, jt)
      <4>1. q \in Loose(m, its)
        BY <1>1, <2>2, <3>2
      <4>2. PICK i \in DOMAIN its : q \in OwnSet(m, its[i])
        BY <4>1 DEF Loose
      <4> QED BY <1>3, <1>4, <4>2
    <3> QED BY <3>1, <3>2
  <2> QED BY <2>1, <2>2 DEF Loose
<1> QED BY <1>1, <1>3, <1>5, <1>6, <1>7 DEF GoneSide

(* The copies are nodes of the clone. *)
LEMMA CopiesOwned ==
  ASSUME NEW m, NEW its, NEW it, NEW r, NEW g, NEW e, NEW h, CopiesAt(m, it, r, g),
         GoneSide(m, its), m.live = Loose(m, its), r # 0, Copying(m, r, g, r, e, h)
  PROVE  AddsOwner(m, its, e.map, e.iter)
<1>1. r \in Nat /\ r \in 1 .. r
  BY DEF CopiesAt, OwnsAt, Iterator
<1> DEFINE d == e.map
           jt == e.iter
<1>2. /\ d \in Map /\ jt \in Iterator /\ jt.type = "IntoIter" /\ jt.remaining = r
      /\ h \in [1 .. r -> Addr]
      /\ \A l \in 1 .. r : h[l] \notin m.live
      /\ \A a, b \in 1 .. r : h[a] = h[b] => a = b
      /\ d.live = m.live \cup {h[l] : l \in 1 .. r}
      /\ h[1] = jt.head /\ h[r] = jt.tail
      /\ \A l \in 1 .. r - 1 : d.prev[h[l]] = h[l + 1]
      /\ \A l \in 1 .. r - 1 : d.next[h[l + 1]] = h[l]
      /\ \A q \in m.live : d.next[q] = m.next[q] /\ d.prev[q] = m.prev[q]
      /\ d.next[Null] = Null /\ d.prev[Null] = Null
      /\ d.head = Null /\ d.free = Null /\ d.index = Index!new /\ d.present = FALSE
  BY DEF Copying
<1> HIDE DEF d, jt
<1>3. Null \notin Addr /\ Addr \subseteq Node
  BY <1>2, MapFacts DEF Node
<1>4. h \in [1 .. r -> Node] /\ \A l \in 1 .. r : h[l] # Null
  BY <1>2, <1>3
<1>5. OwnsAt(d, jt, h, r)
  BY <1>2, <1>4 DEF OwnsAt
<1>6. Owns(d, jt) /\ OwnSet(d, jt) = {h[l] : l \in 1 .. r}
  BY <1>5, OwnsThat
<1>7. d = [d EXCEPT !.index = Index!new, !.head = Null, !.present = FALSE]
  BY ZenonT(60), <1>2 DEF Map
<1>8. Consumed(d, d.live)
  <2> DEFINE a == d
  <2>1. d \in Map /\ d.free = Null /\ d.next[Null] = Null /\ d.prev[Null] = Null
        /\ a = [d EXCEPT !.index = Index!new, !.head = Null, !.present = FALSE]
    BY <1>2, <1>7
  <2> HIDE DEF a
  <2>2. Consumed(a, d.live)
    BY ONLY <2>1, ConsumedIs
  <2> QED BY <2>2 DEF a
<1>9. OwnSet(d, jt) \cap m.live = {} /\ d.live = m.live \cup OwnSet(d, jt)
  BY <1>2, <1>6
<1>10. AddsOwner(m, its, d, jt)
  BY <1>2, <1>6, <1>8, <1>9 DEF AddsOwner
<1> QED BY <1>10 DEF d, jt

(* What a clone of an IntoIter that has something left begins with. *)
LEMMA CloningIs ==
  ASSUME Safe(map, iters, held), NEW i \in DOMAIN iters, iters[i].type = "IntoIter", CloneIter(i)
  PROVE  /\ GoneSide(map, iters) /\ held = {} /\ map.live = Loose(map, iters) /\ held' = held
         /\ map' = clone(map, i).map /\ iters' = Append(iters, clone(map, i).iter)
         /\ iters[i] \in Iterator /\ iters[i].remaining \in Nat /\ Owns(map, iters[i])
         /\ \E g : /\ CopiesAt(map, iters[i], iters[i].remaining, g)
                   /\ OwnSet(map, iters[i]) = {g[j] : j \in 1 .. iters[i].remaining}
<1> DEFINE it == iters[i]
           r == it.remaining
<1>1. GoneSide(map, iters) /\ held = {} /\ map.live = Loose(map, iters)
  BY GoneAt, GoneIs
<1>2. /\ Room(r) /\ held' = held
      /\ map' = clone(map, i).map /\ iters' = Append(iters, clone(map, i).iter)
  BY DEF CloneIter, Begin
<1>3. it \in Iterator /\ it.type = "IntoIter" /\ Owns(map, it) /\ map \in Map /\ r \in Nat
      /\ map.next[Null] = Null /\ map.prev[Null] = Null
      /\ map.head = Null /\ map.free = Null /\ map.index = Index!new /\ map.present = FALSE
  <2>1. it \in Iterator
    BY <1>1 DEF GoneSide
  <2> QED BY <1>1, <2>1 DEF GoneSide, Consumed, Linked, Iterator
<1>4. PICK g : OwnsAt(map, it, g, r) /\ Own(map, it) = g
  BY <1>3, OwnFacts
<1>5. OwnSet(map, it) = {g[j] : j \in 1 .. r} /\ OwnSet(map, it) \subseteq map.live
  <2>1. OwnSet(map, it) = {g[j] : j \in 1 .. r}
    BY <1>4, OwnsThat
  <2> QED BY <1>1, <2>1 DEF Loose
<1>6. CopiesAt(map, it, r, g)
  <2>1. r <= Free(map)
    <3>1. Free(map) \in Nat
      BY <1>3, FreeIs
    <3> QED BY <1>2, <1>3, <3>1 DEF Room, Free
  <2> QED BY <1>3, <1>4, <1>5, <2>1 DEF CopiesAt
<1> QED BY <1>1, <1>2, <1>3, <1>5, <1>6

(* Cloning an IntoIter keeps the invariant. *)
LEMMA CloneIntoIterSafe ==
  ASSUME Safe(map, iters, held), NEW i \in DOMAIN iters, iters[i].type = "IntoIter", CloneIter(i)
  PROVE  Safe(map', iters', held')
<1> DEFINE it == iters[i]
           r == it.remaining
<1>1. /\ GoneSide(map, iters) /\ held = {} /\ map.live = Loose(map, iters) /\ held' = held
      /\ map' = clone(map, i).map /\ iters' = Append(iters, clone(map, i).iter)
      /\ it \in Iterator /\ it.type = "IntoIter" /\ r \in Nat /\ Owns(map, it)
  BY CloningIs
<1>2. PICK g : CopiesAt(map, it, r, g) /\ OwnSet(map, it) = {g[j] : j \in 1 .. r}
  BY CloningIs
<1>7. CASE r = 0
  <2>1. clone(map, i).map = map /\ clone(map, i).iter = it
    BY <1>7 DEF clone
  <2>2. OwnSet(map, it) = {}
    BY <1>2, <1>7
  <2>3. Consumed(map, map.live)
    BY <1>1 DEF GoneSide
  <2>4. AddsOwner(map, iters, map, it)
    BY <1>1, <2>2, <2>3 DEF AddsOwner
  <2> DEFINE e == Append(iters, it)
  <2>5. GoneSide(map, e)
    <3> HIDE DEF it
    <3> QED BY <2>4, OwnerAdded
  <2>6. map' = map /\ iters' = e /\ held' = {}
    BY <1>1, <2>1
  <2> HIDE DEF e
  <2> QED BY <2>5, <2>6, GoneSafe
<1>8. CASE r # 0
  <2> DEFINE b == Cloned(map, it)
  <2>1. clone(map, i) = b
    BY <1>1, <1>8 DEF clone, Cloned
  <2>2. PICK h : Copying(map, r, g, r, b, h)
    <3> HIDE DEF it, r, b
    <3> QED BY <1>2, CopiesIs DEF b
  <2> HIDE DEF b
  <2>3. AddsOwner(map, iters, b.map, b.iter)
    <3> HIDE DEF it, r
    <3> QED BY <1>1, <1>2, <1>8, <2>2, CopiesOwned
  <2> DEFINE d == b.map
             jt == b.iter
             e == Append(iters, jt)
  <2>4. AddsOwner(map, iters, d, jt)
    BY <2>3
  <2>5. map' = d /\ iters' = e /\ held' = {}
    BY <1>1, <2>1
  <2>6. e = Append(iters, jt)
    OBVIOUS
  <2> HIDE DEF d, jt, e
  <2>7. GoneSide(d, e)
    BY ONLY <2>4, <2>6, OwnerAdded
  <2> QED BY <2>5, <2>7, GoneSafe
<1> QED BY <1>7, <1>8

(* The first map satisfies the invariant. *)
LEMMA InitSafe ==
  ASSUME Init
  PROVE  Safe(map, iters, held)
<1> DEFINE d == new
           c == Alone(Null)
<1>1. map = d /\ iters = <<>> /\ held = {}
  BY DEF Init
<1>2. Null \in Node /\ Null \notin Addr /\ Index!new \in IndexMap
  BY LinkedVecMapAssumption, NewIndexIs DEF Node, Null
<1>3. /\ d.index = Index!new /\ d.head = Null /\ d.free = Null /\ d.live = {} /\ d.present = TRUE
      /\ d.next = [p \in Node |-> Null] /\ d.prev = [p \in Node |-> Null]
  BY DEF new
<1>4. d \in Map
  <2>1. Index!new \in [n : Nat, v : Seq(Node)]
    BY <1>2 DEF IndexMap
  <2> QED BY <1>2, <2>1 DEF new, Map
<1>5. c \in [0 .. 1 -> Node] /\ c[0] = Null /\ c[1] = Null
  BY <1>2 DEF Alone
<1> HIDE DEF d, c
<1>6. Ring(d, c, 0)
  <2>1. \A i \in 0 .. 0 : i = 0
    OBVIOUS
  <2>2. \A i \in 1 .. 0 : FALSE
    OBVIOUS
  <2> QED BY <1>2, <1>3, <1>5, <2>1, <2>2 DEF Ring
<1>7. Chain(d, NoSpares, 0)
  BY <1>2, <1>3 DEF Chain, NoSpares
<1>8. Members(c, 0) = {} /\ Spares(NoSpares, 0) = {} /\ Guard(d) = {}
  BY <1>3 DEF Members, Spares, Guard
<1>9. Linked(d, c, 0, NoSpares, 0, Nobody)
  BY <1>2, <1>3, <1>4, <1>6, <1>7, <1>8 DEF Linked, Nobody
<1>10. d.index.n = 0
  BY <1>3, NewIndexIs
<1>11. Tells(d, Members(c, 0))
  BY <1>3, <1>8, NewIndexIs DEF Tells
<1>12. Solid(d, c)
  BY <1>3, <1>9, <1>10, <1>11 DEF Solid
<1>13. Safe(d, iters, held)
  BY <1>1, <1>12, AloneSafe
<1> QED BY <1>1, <1>13

(* No call on an iterator breaks the invariant. *)
LEMMA IteratorsSafe ==
  ASSUME Safe(map, iters, held), Iterators
  PROVE  Safe(map', iters', held')
<1>1. CASE \E type \in Kind : iter(type)
  BY <1>1, IterSafe
<1>2. CASE drain
  BY <1>2, StartDrainSafe
<1>3. CASE into_iter
  BY <1>3, StartIntoIterSafe
<1>4. ASSUME NEW i \in DOMAIN iters, CloneIter(i) \/ next(i) \/ next_back(i) \/ Exhausted(i) \/ DropIter(i)
      PROVE  Safe(map', iters', held')
  <2>1. iters[i].type \in RingKind \/ iters[i].type = "Drain" \/ iters[i].type = "IntoIter"
    <3>1. iters[i] \in Iterator
      BY DEF Safe
    <3> QED BY <3>1 DEF Iterator, Kind, RingKind
  <2>2. CASE CloneIter(i)
    <3>1. iters[i].type = "Iter" \/ iters[i].type = "IntoIter"
      BY <2>2 DEF CloneIter
    <3> QED BY <2>2, <3>1, CloneSharedSafe, CloneIntoIterSafe
  <2>3. CASE next(i)
    BY <2>1, <2>3, NextRingSafe, NextDrainSafe, YieldIntoIterSafe
  <2>4. CASE next_back(i)
    BY <2>1, <2>4, BackRingSafe, NextDrainSafe, YieldIntoIterSafe
  <2>5. CASE Exhausted(i)
    BY <2>5 DEF Exhausted, Call
  <2>6. CASE DropIter(i)
    BY <2>1, <2>6, DropRingSafe, DropDrainSafe, DropIntoIterSafe
  <2> QED BY <1>4, <2>2, <2>3, <2>4, <2>5, <2>6
<1> QED BY <1>1, <1>2, <1>3, <1>4 DEF Iterators

(* No call breaks the invariant: it is inductive. *)
LEMMA StepSafe ==
  ASSUME Safe(map, iters, held), [Next]_vars
  PROVE  Safe(map', iters', held')
<1>1. ASSUME NEW k \in Keys, GetRefresh(k) \/ RemoveKey(k) \/ EntryOccupied(k)
      PROVE  Safe(map', iters', held')
  BY <1>1, GetRefreshSafe, RemoveKeySafe, EntryOccupiedSafe
<1>2. ASSUME NEW k \in Keys, NEW v \in Given[k], Insert(k, v) \/ GetMut(k, v) \/ OrInsert(k, v)
      PROVE  Safe(map', iters', held')
  BY <1>2, InsertSafe, GetMutSafe, OrInsertSafe
<1>3. ASSUME NEW p \in held, OccupiedRemove(p) \/ OccupiedDrop(p)
      PROVE  Safe(map', iters', held')
  BY <1>3, OccupiedRemoveSafe, OccupiedDropSafe
<1>4. ASSUME NEW p \in held, NEW v \in Given[map.key[p]], OccupiedInsert(p, v)
      PROVE  Safe(map', iters', held')
  BY <1>4, OccupiedInsertSafe
<1>5. CASE pop_front \/ pop_back
  BY <1>5, PopSafe DEF pop_front, pop_back
<1>6. CASE Clear \/ ShrinkToFit \/ DropMap \/ New
  BY <1>6, ClearSafe, ShrinkSafe, DropMapSafe, NewSafe
<1>7. CASE Iterators
  BY <1>7, IteratorsSafe
<1>8. CASE UNCHANGED vars
  BY <1>8 DEF vars
<1> QED BY <1>1, <1>2, <1>3, <1>4, <1>5, <1>6, <1>7, <1>8 DEF Next

(* The invariant holds in every state that the calls can reach. *)
THEOREM LinkedSafe == Spec => []Safe(map, iters, held)
<1>1. Init => Safe(map, iters, held)
  BY InitSafe
<1>2. Safe(map, iters, held) /\ [Next]_vars => Safe(map, iters, held)'
  BY StepSafe
<1> QED BY <1>1, <1>2, PTL DEF Spec

(* The invariant implies the types. *)
LEMMA SafeTypes ==
  ASSUME Safe(map, iters, held)
  PROVE  TypeOK
<1>1. PICK c, f, k : Sound(map, iters, held, c, f, k)
  BY DEF Safe
<1>2. map \in Map /\ held \subseteq Addr /\ iters \in Seq(Iterator)
  BY <1>1, SoundFacts DEF Safe
<1> QED BY <1>2 DEF TypeOK, Iterator

(* The types of the map of linked_vec_map.rs, of its nodes, iterators and  *)
(* held entries, in every state its calls can reach.                       *)
THEOREM LinkedTypes == Spec => []TypeOK
<1>1. Safe(map, iters, held) => TypeOK
  BY SafeTypes
<1> QED BY <1>1, LinkedSafe, PTL

(* What the list of a map is. *)
LEMMA NodesIs ==
  ASSUME NEW m, NEW c, NEW n, NEW f, NEW k, NEW X, Linked(m, c, n, f, k, X), n = m.index.n
  PROVE  /\ Nodes(m) = Onward(c, n) /\ Nodes(m) \in Seq(Node) /\ Len(Nodes(m)) = n
         /\ DOMAIN Nodes(m) = 1 .. n
         /\ IsInjective(Nodes(m)) /\ ToSet(Nodes(m)) = Members(c, n)
<1> DEFINE g == [i \in 1 .. n |-> c[i]]
<1>1. /\ n \in Nat /\ (m.head = Null => n = 0)
      /\ \A i \in 1 .. n : c[i] \in Node
      /\ \A i, j \in 1 .. n : c[i] = c[j] => i = j
  <2>1. Ring(m, c, n) /\ m \in Map
    BY LinkedFacts
  <2>2. \A i \in 1 .. n : i \in 0 .. n + 1
    BY <2>1 DEF Ring
  <2> QED BY <2>1, <2>2, RingFacts DEF Ring
<1>2. g \in Seq(Node) /\ Len(g) = n /\ DOMAIN g = 1 .. n /\ \A i \in 1 .. n : g[i] = c[i]
  BY <1>1
<1>3. Nodes(m) = g
  <2>1. CASE m.head = Null
    <3>1. g = <<>>
      <4> HIDE DEF g
      <4> QED BY <1>1, <1>2, <2>1, EmptySeq
    <3> QED BY <2>1, <3>1 DEF Nodes
  <2>2. CASE m.head # Null
    <3>1. Path(m.prev, m.prev[m.head], n) = g
      BY RingIs DEF Onward
    <3> HIDE DEF g
    <3> QED BY <2>2, <3>1 DEF Nodes
  <2> QED BY <2>1, <2>2
<1>4. IsInjective(g)
  BY <1>1, <1>2 DEF IsInjective
<1>5. ToSet(g) = Members(c, n)
  BY <1>2 DEF ToSet, Members
<1> HIDE DEF g
<1> QED BY <1>2, <1>3, <1>4, <1>5 DEF g, Onward

(* The free list as MemorySafe reads it. *)
LEMMA FreeListOnce ==
  ASSUME NEW m, NEW f, NEW k, m \in Map, Chain(m, f, k), NEW s, s = Until(m.next, m.free, Null)
  PROVE  s \in Seq(Node) /\ IsInjective(s) /\ ToSet(s) = Spares(f, k)
<1>1. /\ k \in Nat /\ f \in [0 .. k -> Node]
      /\ \A i, j \in 0 .. k - 1 : f[i] = f[j] => i = j
  BY DEF Chain
<1>2. s = [i \in 1 .. k |-> f[i - 1]] /\ ToSet(s) = Spares(f, k)
  BY FreeListIs
<1>3. \A i \in 1 .. k : i - 1 \in 0 .. k - 1 /\ i - 1 \in 0 .. k
  BY <1>1
<1>4. DOMAIN s = 1 .. k /\ \A i \in 1 .. k : s[i] = f[i - 1] /\ s[i] \in Node
  BY <1>1, <1>2, <1>3
<1>5. s \in Seq(Node)
  BY <1>1, <1>2, <1>4
<1>6. ASSUME NEW i \in 1 .. k, NEW j \in 1 .. k, s[i] = s[j] PROVE i = j
  <2>1. i - 1 = j - 1
    BY <1>1, <1>3, <1>4, <1>6
  <2> QED BY <1>1, <2>1
<1> QED BY <1>2, <1>4, <1>5, <1>6 DEF IsInjective

(* The nodes of an IntoIter, as MemorySafe reads them. *)
LEMMA OwnedIs ==
  ASSUME NEW it \in Iterator, map \in Map, it.type = "IntoIter" => Owns(map, it)
  PROVE  Owned(it) \in Seq(Node) /\ IsInjective(Owned(it)) /\ ToSet(Owned(it)) = OwnSet(map, it)
<1>1. CASE it.type = "IntoIter"
  <2>1. PICK g : OwnsAt(map, it, g, it.remaining) /\ Own(map, it) = g
    BY <1>1, OwnFacts
  <2>2. Owned(it) = g
    BY <1>1, <2>1 DEF Owned, Own
  <2>3. /\ it.remaining \in Nat /\ g \in [1 .. it.remaining -> Node]
        /\ \A i, j \in 1 .. it.remaining : g[i] = g[j] => i = j
    BY <2>1 DEF OwnsAt, Iterator
  <2>4. g \in Seq(Node) /\ DOMAIN g = 1 .. it.remaining
    BY <2>3
  <2>5. IsInjective(g)
    BY <2>3, <2>4 DEF IsInjective
  <2>6. ToSet(Owned(it)) = OwnSet(map, it)
    BY <1>1, <2>1, <2>2 DEF OwnSet
  <2> QED BY <2>2, <2>4, <2>5, <2>6
<1>2. CASE it.type # "IntoIter"
  <2>1. Owned(it) = <<>> /\ OwnSet(map, it) = {}
    BY <1>2 DEF Owned, OwnSet
  <2>2. <<>> \in Seq(Node) /\ DOMAIN <<>> = {}
    BY EmptySeq
  <2> QED BY <2>1, <2>2 DEF IsInjective, ToSet
<1> QED BY <1>1, <1>2

(* The invariant implies that each allocated node is owned once. *)
LEMMA SafeMemory ==
  ASSUME Safe(map, iters, held)
  PROVE  MemorySafe
<1>1. PICK c, f, k : Sound(map, iters, held, c, f, k)
  BY DEF Safe
<1> DEFINE n == map.index.n
           X == Loose(map, iters)
           guard == IF map.head = Null THEN <<>> ELSE <<map.head>>
           nodes == Nodes(map)
           spare == Until(map.next, map.free, Null)
           owned == [i \in DOMAIN iters |-> Owned(iters[i])]
           lists == <<guard, nodes, spare>> \o owned
<1>2. /\ Linked(map, c, n, f, k, X) /\ held \subseteq Members(c, n) /\ iters \in Seq(Iterator)
      /\ DOMAIN iters = 1 .. Len(iters) /\ Len(iters) \in Nat /\ \A i \in DOMAIN iters : iters[i] \in Iterator
  BY <1>1, SoundFacts DEF Safe
<1>3. /\ map \in Map /\ Chain(map, f, k)
      /\ Guard(map) \cap Members(c, n) = {} /\ Guard(map) \cap Spares(f, k) = {} /\ Guard(map) \cap X = {}
      /\ Members(c, n) \cap Spares(f, k) = {} /\ Members(c, n) \cap X = {} /\ Spares(f, k) \cap X = {}
      /\ map.live = Guard(map) \cup Members(c, n) \cup Spares(f, k) \cup X
  <2> HIDE DEF n, X
  <2> QED BY <1>2, LinkedFacts
<1>4. nodes \in Seq(Node) /\ IsInjective(nodes) /\ ToSet(nodes) = Members(c, n)
  BY <1>2, NodesIs
<1>5. spare \in Seq(Node) /\ IsInjective(spare) /\ ToSet(spare) = Spares(f, k)
  BY <1>3, FreeListOnce
<1>6. guard \in Seq(Node) /\ IsInjective(guard) /\ ToSet(guard) = Guard(map)
  <2>1. map.head \in Node
    BY <1>3, MapFacts
  <2>2. CASE map.head = Null
    <3>1. <<>> \in Seq(Node) /\ DOMAIN <<>> = {}
      BY EmptySeq
    <3> QED BY <2>2, <3>1 DEF IsInjective, ToSet, Guard
  <2>3. CASE map.head # Null
    <3> DEFINE p == map.head
    <3>1. <<p>> \in Seq(Node) /\ DOMAIN <<p>> = {1} /\ <<p>>[1] = p
      BY <2>1
    <3> QED BY <2>3, <3>1 DEF IsInjective, ToSet, Guard
  <2> QED BY <2>2, <2>3
<1>7. ASSUME NEW i \in DOMAIN iters
      PROVE  owned[i] \in Seq(Node) /\ IsInjective(owned[i]) /\ ToSet(owned[i]) = OwnSet(map, iters[i])
  <2>1. iters[i].type = "IntoIter" => Owns(map, iters[i])
    BY <1>1 DEF Sound, Stands
  <2>2. owned[i] = Owned(iters[i])
    OBVIOUS
  <2> QED BY <1>2, <1>3, <2>1, <2>2, OwnedIs
<1>8. owned \in Seq(Seq(Node)) /\ Len(owned) = Len(iters)
  <2>1. owned = [i \in 1 .. Len(iters) |-> Owned(iters[i])]
    BY <1>2
  <2>2. \A i \in 1 .. Len(iters) : Owned(iters[i]) \in Seq(Node)
    BY <1>2, <1>7
  <2> QED BY <1>2, <2>1, <2>2
<1> HIDE DEF n, X, guard, nodes, spare, owned
<1> DEFINE r == Len(iters)
<1>9. /\ DOMAIN lists = 1 .. 3 + r /\ lists[1] = guard /\ lists[2] = nodes /\ lists[3] = spare
      /\ \A i \in 1 .. r : lists[3 + i] = owned[i]
  <2> HIDE DEF lists
  <2> QED BY <1>4, <1>5, <1>6, <1>8, ListsIs DEF lists
<1> HIDE DEF lists
<1>10. \A i \in DOMAIN lists : \/ i = 1 \/ i = 2 \/ i = 3
                               \/ \E j \in 1 .. r : i = 3 + j
  <2>1. ASSUME NEW i \in 1 .. 3 + r, i # 1, i # 2, i # 3 PROVE i - 3 \in 1 .. r /\ i = 3 + (i - 3)
    BY <1>2, <2>1
  <2> QED BY <1>9, <2>1
<1>11. \A i \in DOMAIN lists : IsInjective(lists[i])
  <2>1. ASSUME NEW i \in DOMAIN lists PROVE IsInjective(lists[i])
    <3>1. CASE i = 1 \/ i = 2 \/ i = 3
      BY <1>4, <1>5, <1>6, <1>9, <3>1
    <3>2. ASSUME NEW j \in 1 .. r, i = 3 + j PROVE IsInjective(lists[i])
      <4>1. lists[i] = owned[j] /\ j \in DOMAIN iters
        BY <1>2, <1>9, <3>2
      <4> QED BY <1>7, <4>1
    <3> QED BY <1>10, <3>1, <3>2
  <2> QED BY <2>1
<1>12. \A i \in 1 .. r : ToSet(lists[3 + i]) = OwnSet(map, iters[i]) /\ OwnSet(map, iters[i]) \subseteq X
  <2>1. ASSUME NEW i \in 1 .. r PROVE OwnSet(map, iters[i]) \subseteq X
    BY <1>2 DEF X, Loose
  <2> QED BY <1>2, <1>7, <1>9, <2>1
<1>13. /\ ToSet(lists[1]) = Guard(map) /\ ToSet(lists[2]) = Members(c, n) /\ ToSet(lists[3]) = Spares(f, k)
  BY <1>4, <1>5, <1>6, <1>9
<1>14. ASSUME NEW i \in DOMAIN lists, NEW j \in DOMAIN lists, i # j
       PROVE  ToSet(lists[i]) \cap ToSet(lists[j]) = {}
  <2>1. \A a, b \in DOMAIN iters : a # b => OwnSet(map, iters[a]) \cap OwnSet(map, iters[b]) = {}
    BY <1>1 DEF Sound, Stands
  <2>2. CASE i \in {1, 2, 3} /\ j \in {1, 2, 3}
    BY <1>3, <1>13, <1>14, <2>2
  <2>3. ASSUME NEW a \in 1 .. r, i = 3 + a, j \in {1, 2, 3} PROVE ToSet(lists[i]) \cap ToSet(lists[j]) = {}
    BY <1>3, <1>12, <1>13, <2>3
  <2>4. ASSUME NEW b \in 1 .. r, j = 3 + b, i \in {1, 2, 3} PROVE ToSet(lists[i]) \cap ToSet(lists[j]) = {}
    BY <1>3, <1>12, <1>13, <2>4
  <2>5. ASSUME NEW a \in 1 .. r, NEW b \in 1 .. r, i = 3 + a, j = 3 + b
        PROVE  ToSet(lists[i]) \cap ToSet(lists[j]) = {}
    <3>1. a # b /\ a \in DOMAIN iters /\ b \in DOMAIN iters
      BY <1>2, <1>14, <2>5
    <3> QED BY <1>12, <2>1, <2>5, <3>1
  <2> QED BY <1>10, <2>2, <2>3, <2>4, <2>5
<1>15. UNION {ToSet(lists[i]) : i \in DOMAIN lists} = map.live
  <2>1. ASSUME NEW i \in DOMAIN lists, NEW q \in ToSet(lists[i]) PROVE q \in map.live
    <3>1. CASE i \in {1, 2, 3}
      BY <1>3, <1>13, <2>1, <3>1
    <3>2. ASSUME NEW a \in 1 .. r, i = 3 + a PROVE q \in map.live
      BY <1>3, <1>12, <2>1, <3>2
    <3> QED BY <1>10, <3>1, <3>2
  <2>2. ASSUME NEW q \in map.live PROVE \E i \in DOMAIN lists : q \in ToSet(lists[i])
    <3>1. 1 \in DOMAIN lists /\ 2 \in DOMAIN lists /\ 3 \in DOMAIN lists /\ \A a \in 1 .. r : 3 + a \in DOMAIN lists
      BY <1>2, <1>9
    <3>2. CASE q \in X
      <4>1. PICK a \in DOMAIN iters : q \in OwnSet(map, iters[a])
        BY <3>2 DEF X, Loose
      <4> QED BY <1>2, <1>12, <3>1, <4>1
    <3>3. CASE q \notin X
      BY <1>3, <1>13, <2>2, <3>1, <3>3
    <3> QED BY <3>2, <3>3
  <2> QED BY <2>1, <2>2
<1>16. held \subseteq ToSet(nodes)
  BY <1>2, <1>4
<1> QED BY <1>11, <1>14, <1>15, <1>16 DEF MemorySafe, lists, guard, nodes, spare, owned

(* No order of calls on the unsafe lists of linked_vec_map.rs leaks a      *)
(* node, frees one twice or leaves a pointer to a freed one: each          *)
(* allocated node has exactly one owner.                                   *)
THEOREM LinkedMemory == Spec => []MemorySafe
<1>1. Safe(map, iters, held) => MemorySafe
  BY SafeMemory
<1> QED BY <1>1, LinkedSafe, PTL

(* The items of a ring, front to back. *)
LEMMA ItemsIs ==
  ASSUME NEW m, NEW c, NEW n, RingAt(m, c, n)
  PROVE  /\ DOMAIN ItemsOf(m) = 1 .. n /\ ItemsOf(m) \in Seq(Range(ItemsOf(m))) /\ Len(ItemsOf(m)) = n
         /\ \A i \in 1 .. n : ItemsOf(m)[i] = <<m.key[c[i]], m.value[c[i]]>>
<1>1. n \in Nat /\ DOMAIN Nodes(m) = 1 .. n /\ Nodes(m) = Onward(c, n)
  <2>1. PICK f, k, X : Linked(m, c, n, f, k, X)
    BY DEF RingAt
  <2>2. n = m.index.n
    BY DEF RingAt
  <2>3. n \in Nat
    BY ONLY <2>1, LinkedFacts
  <2>4. DOMAIN Nodes(m) = 1 .. n /\ Nodes(m) = Onward(c, n)
    BY ONLY <2>1, <2>2, NodesIs
  <2> QED BY <2>3, <2>4
<1> DEFINE s == [i \in 1 .. n |-> <<m.key[c[i]], m.value[c[i]]>>]
<1>2. ItemsOf(m) = s
  <2>1. \A i \in 1 .. n : Nodes(m)[i] = c[i]
    BY <1>1 DEF Onward
  <2> QED BY <1>1, <2>1 DEF ItemsOf, Item
<1>3. DOMAIN s = 1 .. n /\ \A i \in 1 .. n : s[i] = <<m.key[c[i]], m.value[c[i]]>>
  OBVIOUS
<1> HIDE DEF s
<1>4. s \in [1 .. n -> Range(s)]
  <2>1. \A i \in 1 .. n : s[i] \in Range(s)
    BY <1>3 DEF Range
  <2>2. s = [i \in 1 .. n |-> s[i]]
    BY <1>3 DEF s
  <2> QED BY <2>1, <2>2
<1>5. s \in Seq(Range(s)) /\ Len(s) = n
  BY <1>1, <1>4
<1> QED BY <1>2, <1>3, <1>5

(* Rings with the same keys and values in the same order have the same items. *)
LEMMA SameItems ==
  ASSUME NEW m, NEW c, NEW n, NEW d, NEW e, SameAt(m, c, n, d, e)
  PROVE  ItemsOf(d) = ItemsOf(m)
<1>1. RingAt(m, c, n) /\ RingAt(d, e, n)
      /\ \A i \in 1 .. n : d.key[e[i]] = m.key[c[i]] /\ d.value[e[i]] = m.value[c[i]]
  BY DEF SameAt
<1> DEFINE s == ItemsOf(m)
           t == ItemsOf(d)
<1>2. DOMAIN s = 1 .. n /\ s \in Seq(Range(s)) /\ Len(s) = n
      /\ \A i \in 1 .. n : s[i] = <<m.key[c[i]], m.value[c[i]]>>
  BY <1>1, ItemsIs
<1>3. DOMAIN t = 1 .. n /\ t \in Seq(Range(t)) /\ Len(t) = n
      /\ \A i \in 1 .. n : t[i] = <<d.key[e[i]], d.value[e[i]]>>
  BY <1>1, ItemsIs
<1>4. \A i \in 1 .. n : s[i] = t[i]
  BY <1>1, <1>2, <1>3
<1> HIDE DEF s, t
<1>5. s = t
  BY <1>2, <1>3, <1>4
<1> QED BY <1>5 DEF s, t

-----------------------------------------------------------------------------
(* One iteration of extend adds the next item to the copy. *)
LEMMA CloneStep ==
  ASSUME NEW m, NEW c, NEW n, NEW X, NEW j, NEW acc, NEW e, NEW d, CloneAt(m, c, n, X, j, acc, e, d)
  PROVE  d \in Map /\ \E e1 : CloneOf(m, c, n, X, j + 1, d, e1)
<1>1. /\ CloneOf(m, c, n, X, j, acc, e) /\ n \in Nat /\ j \in Nat /\ j < n
      /\ \A a, b \in 1 .. n : c[a] = c[b] => a = b
      /\ Tells(m, Members(c, n))
      /\ d = insert(acc, m.key[c[j + 1]], m.value[c[j + 1]])
  BY DEF CloneAt
<1> DEFINE y == j + 1
           x == m.key[c[y]]
           v == m.value[c[y]]
<1>2. PICK f, k : Linked(acc, e, j, f, k, X)
  BY <1>1 DEF CloneOf
<1>3. /\ acc.index.n = j /\ Tells(acc, Members(e, j)) /\ Spare(acc) >= n - j
      /\ \A l \in 1 .. j : acc.key[e[l]] = m.key[c[l]] /\ acc.value[e[l]] = m.value[c[l]]
  BY <1>1 DEF CloneOf
<1>4. /\ y \in 1 .. n /\ \A l \in 1 .. j : l \in 1 .. n /\ l # y
      /\ \A l \in 1 .. n : c[l] \in Members(c, n)
  BY <1>1 DEF Members
<1>5. x \in Keys /\ v \in Values /\ x \in Nat
      /\ \A l \in 1 .. n : Index!get(m.index, m.key[c[l]]) = c[l]
  <2>1. \A p \in Members(c, n) :
          m.key[p] \in Keys /\ m.value[p] \in Values /\ Index!get(m.index, m.key[p]) = p
    BY <1>1 DEF Tells
  <2>2. c[y] \in Members(c, n)
    BY <1>4
  <2>3. x \in Keys /\ v \in Values
    BY <2>1, <2>2
  <2>4. x \in Nat
    BY <2>3, LinkedVecMapAssumption
  <2>5. \A l \in 1 .. n : Index!get(m.index, m.key[c[l]]) = c[l]
    BY <1>4, <2>1
  <2> QED BY <2>3, <2>4, <2>5
<1>6. Index!get(acc.index, x) = Null
  <2> SUFFICES ASSUME Index!get(acc.index, x) # Null PROVE FALSE
    OBVIOUS
  <2>1. Index!get(acc.index, x) \in Members(e, j) /\ acc.key[Index!get(acc.index, x)] = x
    BY <1>3, <1>5 DEF Tells
  <2>2. PICK l \in 1 .. j : Index!get(acc.index, x) = e[l]
    BY <2>1 DEF Members
  <2>3. m.key[c[l]] = x /\ l \in 1 .. n /\ l # y
    BY <1>3, <1>4, <2>1, <2>2
  <2>4. c[l] = c[y]
    BY <1>4, <1>5, <2>3
  <2> QED BY <1>1, <1>4, <2>3, <2>4
<1>7. acc \in Map /\ Spare(acc) >= 1 /\ Spare(acc) \in Int
  <2>1. acc \in Map
    BY <1>2, LinkedFacts
  <2>2. Spare(acc) \in Int
    BY SMTT(60), <2>1, FreeIs
  <2> QED BY <1>1, <1>3, <2>1, <2>2
<1>8. d = Indexed(acc, x, v)
  BY <1>1, <1>6 DEF insert, Indexed
<1> HIDE DEF x, v
<1>9. PICK e1 : Added(acc, e, j, X, x, v, d, e1)
  BY <1>2, <1>3, <1>5, <1>6, <1>7, <1>8, AddedIs
<1>10. /\ \E f1, k1 : Linked(d, e1, y, f1, k1, X)
       /\ d.index.n = y /\ Tells(d, Members(e1, y))
       /\ \A l \in 1 .. j : e1[l] = e[l] /\ d.key[e[l]] = acc.key[e[l]] /\ d.value[e[l]] = acc.value[e[l]]
       /\ d.key[e1[y]] = x /\ d.value[e1[y]] = v
       /\ Spare(d) >= Spare(acc) - 1
  BY <1>9 DEF Added
<1>11. \A l \in 1 .. y : l \in 1 .. j \/ l = y
  BY <1>1
<1>12. \A l \in 1 .. y : d.key[e1[l]] = m.key[c[l]] /\ d.value[e1[l]] = m.value[c[l]]
  <2>1. \A l \in 1 .. j : d.key[e1[l]] = m.key[c[l]] /\ d.value[e1[l]] = m.value[c[l]]
    BY <1>3, <1>10
  <2>2. d.key[e1[y]] = m.key[c[y]] /\ d.value[e1[y]] = m.value[c[y]]
    BY <1>10 DEF x, v
  <2> QED BY <1>11, <2>1, <2>2
<1>13. d \in Map
  BY SMTT(60), <1>10, LinkedFacts
<1>14. Spare(d) >= n - y
  <2>1. Spare(d) \in Int
    BY <1>13, FreeIs
  <2> QED BY SMTT(60), <1>1, <1>3, <1>7, <1>10, <2>1
<1>15. CloneOf(m, c, n, X, y, d, e1)
  <2> HIDE DEF y
  <2> QED BY <1>10, <1>12, <1>14 DEF CloneOf
<1> QED BY <1>13, <1>15

(* Before the first iteration the copy is empty. *)
LEMMA CloneBase ==
  ASSUME NEW m, NEW c, NEW n, NEW f, NEW k, NEW X, Linked(m, c, n, f, k, X), Free(m) >= n + 1,
         NEW Y, Y = m.live, NEW d, d = Emptied(m)
  PROVE  d \in Map /\ CloneOf(m, c, n, Y, 0, d, Alone(Null))
<1>1. /\ m \in Map /\ m.next[Null] = Null /\ m.prev[Null] = Null /\ n \in Nat
  BY LinkedFacts
<1>2. Null \in Node /\ Index!new \in IndexMap /\ Y \subseteq Addr /\ m.next \in [Node -> Node]
  BY <1>1, NewIndexIs, MapFacts
<1>3. /\ d.index = Index!new /\ d.head = Null /\ d.free = Null /\ d.live = Y
      /\ d.next = m.next /\ d.prev = m.prev
  BY <1>1 DEF Map, Emptied
<1>4. d \in Map
  <2>1. Index!new \in [n : Nat, v : Seq(Node)]
    BY <1>2 DEF IndexMap
  <2> QED BY <1>1, <1>2, <2>1 DEF Map, Emptied
<1> DEFINE e == Alone(Null)
<1>5. e \in [0 .. 1 -> Node] /\ e[0] = Null /\ e[1] = Null
  BY <1>2 DEF Alone
<1> HIDE DEF e
<1>6. Ring(d, e, 0)
  <2>1. \A i \in 0 .. 0 : i = 0
    OBVIOUS
  <2>2. \A i \in 1 .. 0 : FALSE
    OBVIOUS
  <2> QED BY <1>1, <1>3, <1>5, <2>1, <2>2 DEF Ring
<1>7. Chain(d, NoSpares, 0) /\ Spares(NoSpares, 0) = {}
  BY <1>3, NoSparesIs
<1>8. Members(e, 0) = {} /\ Guard(d) = {}
  BY <1>3 DEF Members, Guard
<1>9. Linked(d, e, 0, NoSpares, 0, Y)
  BY <1>1, <1>2, <1>3, <1>4, <1>6, <1>7, <1>8 DEF Linked
<1>10. d.index.n = 0
  BY <1>3, NewIndexIs
<1>11. Tells(d, Members(e, 0))
  BY <1>3, <1>8, NewIndexIs DEF Tells
<1>12. Spare(d) >= n - 0
  <2>1. Free(d) = Free(m) /\ Spare(d) = Free(d) - 1
    BY <1>3 DEF Free, Spare
  <2>2. Free(m) \in Nat
    BY <1>1, FreeIs
  <2> QED BY <1>1, <2>1, <2>2
<1>13. CloneOf(m, c, n, Y, 0, d, e)
  BY <1>9, <1>10, <1>11, <1>12 DEF CloneOf
<1> QED BY <1>4, <1>13 DEF e

(* The clone of a map by extend has the items of the map, in their order. *)
LEMMA CloneIs ==
  ASSUME NEW m, NEW c, NEW n, NEW f, NEW k, NEW X, Linked(m, c, n, f, k, X), n = m.index.n,
         Tells(m, Members(c, n)), Free(m) >= n + 1
  PROVE  ItemsOf(extend(Emptied(m), ItemsOf(m))) = ItemsOf(m)
<1> DEFINE items == ItemsOf(m)
           base == Emptied(m)
           Y == m.live
<1>1. /\ n \in Nat /\ \A a, b \in 1 .. n : c[a] = c[b] => a = b
  <2>1. m \in Map /\ Ring(m, c, n)
    BY LinkedFacts
  <2> QED BY <2>1, RingFacts
<1>2. Len(items) = n /\ \A i \in 1 .. n : items[i][1] = m.key[c[i]] /\ items[i][2] = m.value[c[i]]
  <2>1. RingAt(m, c, n)
    BY DEF RingAt
  <2> QED BY <2>1, ItemsIs
<1>3. base \in Map /\ CloneOf(m, c, n, Y, 0, base, Alone(Null))
  <2> HIDE DEF base, Y
  <2> QED BY CloneBase DEF base, Y
<1> HIDE DEF items, base, Y
<1> DEFINE Made(g) == g = [j \in 0 .. n |-> IF j = 0 THEN base ELSE insert(g[j - 1], items[j][1], items[j][2])]
           g == CHOOSE h : Made(h)
           S == [j \in 0 .. n |-> {acc \in Map : \E e : CloneOf(m, c, n, Y, j, acc, e)}]
           step == [j \in 1 .. n |-> [acc \in Map |-> insert(acc, items[j][1], items[j][2])]]
<1>4. extend(base, items) = g[n]
  BY <1>2 DEF extend
<1>5. base \in S[0]
  <2>1. 0 \in 0 .. n
    BY <1>1
  <2> QED BY <1>3, <2>1
<1>6. ASSUME NEW j \in 1 .. n, NEW acc \in S[j - 1]
      PROVE  insert(acc, items[j][1], items[j][2]) \in S[j] /\ acc \in Map
  <2> DEFINE i == j - 1
             d == insert(acc, items[j][1], items[j][2])
  <2>1. i \in Nat /\ i < n /\ i + 1 = j /\ i \in 0 .. n /\ j \in 0 .. n
    BY <1>1
  <2>2. acc \in Map /\ \E e : CloneOf(m, c, n, Y, i, acc, e)
    BY <2>1
  <2>3. PICK e : CloneOf(m, c, n, Y, i, acc, e)
    BY <2>2
  <2>4. d = insert(acc, m.key[c[i + 1]], m.value[c[i + 1]])
    BY <1>2, <2>1
  <2> HIDE DEF d, i
  <2>5. CloneAt(m, c, n, Y, i, acc, e, d)
    BY <1>1, <2>1, <2>3, <2>4 DEF CloneAt
  <2>6. d \in Map /\ \E e1 : CloneOf(m, c, n, Y, i + 1, d, e1)
    BY ONLY <2>5, CloneStep
  <2>7. d \in S[j]
    BY <2>1, <2>6
  <2> QED BY <2>2, <2>7 DEF d
<1>7. \E h : Made(h)
  <2>1. S \in [0 .. n -> SUBSET Map]
    OBVIOUS
  <2>2. \A j \in 1 .. n : \A s \in S[j - 1] : step[j][s] \in S[j]
    BY <1>6
  <2>3. PICK h : Loops(h, n, base, step) /\ \A j \in 0 .. n : h[j] \in S[j]
    <3> HIDE DEF S, step
    <3> QED BY <1>1, <1>5, <2>1, <2>2, LoopExists
  <2>4. h = [j \in 0 .. n |-> IF j = 0 THEN base ELSE step[j][h[j - 1]]]
    BY <2>3 DEF Loops
  <2>5. \A j \in 0 .. n : j # 0 => step[j][h[j - 1]] = insert(h[j - 1], items[j][1], items[j][2])
    <3> SUFFICES ASSUME NEW j \in 0 .. n, j # 0
                 PROVE  step[j][h[j - 1]] = insert(h[j - 1], items[j][1], items[j][2])
      OBVIOUS
    <3>1. j \in 1 .. n /\ j - 1 \in 0 .. n
      BY <1>1
    <3>2. h[j - 1] \in S[j - 1]
      BY <2>3, <3>1
    <3>3. h[j - 1] \in Map
      <4> HIDE DEF S
      <4> QED BY <1>6, <3>1, <3>2
    <3> QED BY <3>1, <3>3
  <2> HIDE DEF step
  <2>6. Made(h)
    BY <2>4, <2>5
  <2> QED BY <2>6
<1>8. Made(g)
  <2> HIDE DEF Made
  <2> QED BY <1>7
<1> HIDE DEF g
<1>9. g[0] = base /\ \A j \in 1 .. n : g[j] = insert(g[j - 1], items[j][1], items[j][2])
  BY <1>1, <1>8
<1>10. g[0] \in S[0] /\ \A j \in 1 .. n : g[j - 1] \in S[j - 1] => g[j] \in S[j]
  <2> HIDE DEF S
  <2> QED BY <1>5, <1>6, <1>9
<1>11. \A j \in 0 .. n : g[j] \in S[j]
  <2> HIDE DEF S
  <2> QED BY <1>1, <1>10, LoopInvariant
<1>12. g[n] \in S[n] /\ n \in 0 .. n
  <2> HIDE DEF S
  <2> QED BY <1>1, <1>11
<1> DEFINE d == g[n]
<1>13. PICK e : CloneOf(m, c, n, Y, n, d, e)
  BY <1>12
<1> HIDE DEF d
<1>14. PICK f1, k1 : Linked(d, e, n, f1, k1, Y)
  BY <1>13 DEF CloneOf
<1>15. /\ n = d.index.n
       /\ \A l \in 1 .. n : d.key[e[l]] = m.key[c[l]] /\ d.value[e[l]] = m.value[c[l]]
  BY <1>13 DEF CloneOf
<1>16. ItemsOf(d) = ItemsOf(m)
  <2>1. SameAt(m, c, n, d, e)
    BY <1>14, <1>15 DEF SameAt, RingAt
  <2> QED BY <2>1, SameItems
<1> QED BY <1>4, <1>16 DEF d, base, items

(* The ring in the other direction. *)
LEMMA BackwardIs ==
  ASSUME NEW c, NEW n \in Nat, NEW s \in Seq(Node), s = Onward(c, n)
  PROVE  Reverse(s) = Backward(c, n)
<1>1. Len(s) = n /\ DOMAIN s = 1 .. n /\ \A i \in 1 .. n : s[i] = c[i]
  BY DEF Onward
<1>2. \A i \in 1 .. n : (n - i) + 1 \in 1 .. n /\ (n - i) + 1 = n + 1 - i
  OBVIOUS
<1>3. \A i \in 1 .. n : s[(Len(s) - i) + 1] = c[n + 1 - i]
  BY <1>1, <1>2
<1> QED BY <1>1, <1>3 DEF Reverse, Backward

(* The invariant implies that index and list agree. *)
LEMMA SafeIndex ==
  ASSUME Safe(map, iters, held)
  PROVE  IndexAgrees
<1>1. PICK c0, f, k : Sound(map, iters, held, c0, f, k)
  BY DEF Safe
<1> DEFINE n == map.index.n
           X == Loose(map, iters)
           nodes == Nodes(map)
           items == ItemsOf(map)
<1>2. PICK c : c = c0
  OBVIOUS
<1>3. /\ Linked(map, c, n, f, k, X) /\ Tells(map, Members(c, n)) /\ map \in Map
  BY <1>1, <1>2, SoundFacts DEF Safe
<1>4. /\ n \in Nat
      /\ c[0] = map.head /\ c[n + 1] = map.head
      /\ \A i \in 0 .. n : map.prev[c[i]] = c[i + 1] /\ map.next[c[i + 1]] = c[i]
      /\ \A i \in 1 .. n : c[i] # Null /\ c[i] \in Members(c, n)
      /\ (map.head = Null => n = 0)
  <2>1. Ring(map, c, n)
    BY <1>3 DEF Linked
  <2>2. n \in Nat
    BY <2>1 DEF Ring
  <2> HIDE DEF n
  <2> QED BY <2>1, <2>2 DEF Ring, Members
<1>5. \A i \in 1 .. n : map.key[c[i]] \in Keys /\ Index!get(map.index, map.key[c[i]]) = c[i]
  BY <1>3, <1>4 DEF Tells
<1>6. /\ DOMAIN items = 1 .. n /\ items \in Seq(Range(items)) /\ Len(items) = n
      /\ \A i \in 1 .. n : items[i] = <<map.key[c[i]], map.value[c[i]]>>
  <2>1. RingAt(map, c, n)
    BY <1>3 DEF RingAt
  <2> HIDE DEF n
  <2> QED BY <2>1, ItemsIs
<1>7. /\ map.head # Null => nodes = Until(map.prev, map.prev[map.head], map.head)
      /\ map.head # Null => Reverse(nodes) = Until(map.next, map.next[map.head], map.head)
  <2>1. nodes = Onward(c, n) /\ nodes \in Seq(Node)
    BY <1>3, NodesIs
  <2>2. Reverse(nodes) = Backward(c, n)
    <3> HIDE DEF n, nodes
    <3> QED BY <1>4, <2>1, BackwardIs
  <2>3. /\ map.head # Null => Until(map.next, map.next[map.head], map.head) = Backward(c, n)
        /\ map.head # Null => Until(map.prev, map.prev[map.head], map.head) = Onward(c, n)
    <3> HIDE DEF n
    <3> QED BY <1>3, RingIs
  <2> HIDE DEF n, nodes
  <2> QED BY <2>1, <2>2, <2>3
<1>8. \A i \in DOMAIN items : Found(items[i][1]) = <<items[i][2]>>
  <2> SUFFICES ASSUME NEW i \in 1 .. n PROVE Found(items[i][1]) = <<items[i][2]>>
    BY <1>6
  <2>1. items[i][1] = map.key[c[i]] /\ items[i][2] = map.value[c[i]]
    BY <1>6
  <2>2. At(items[i][1]) = c[i] /\ c[i] # Null
    BY <1>4, <1>5, <2>1 DEF At
  <2> HIDE DEF items, n
  <2> QED BY <2>1, <2>2 DEF Found
<1>9. ASSUME NEW x \in Keys, Found(x) # <<>> PROVE \E i \in DOMAIN items : items[i][1] = x
  <2>1. At(x) # Null
    BY <1>9 DEF Found
  <2>2. At(x) \in Members(c, n) /\ map.key[At(x)] = x
    BY <1>3, <2>1, LinkedVecMapAssumption DEF Tells, At
  <2>3. PICK i \in 1 .. n : At(x) = c[i]
    BY <2>2 DEF Members
  <2>4. items[i][1] = x /\ i \in DOMAIN items
    BY <1>6, <2>2, <2>3
  <2> QED BY <2>4
<1>10. ASSUME NEW i \in 1 .. n PROVE Peek(c[i]) = items[i]
  <2>1. At(map.key[c[i]]) = c[i] /\ c[i] # Null
    BY <1>4, <1>5 DEF At
  <2>2. n # 0
    BY <1>4
  <2>3. Peek(c[i]) = <<map.key[c[i]], map.value[c[i]]>>
    BY <2>1, <2>2 DEF Peek, Item
  <2> HIDE DEF items, n
  <2> QED BY <1>6, <2>3
<1>11. ASSUME n = 0
       PROVE  front = (IF items = <<>> THEN <<>> ELSE Head(items)) /\ back = (IF items = <<>> THEN <<>> ELSE Last(items))
  <2>1. items = <<>>
    <3> HIDE DEF items, n
    <3> QED BY <1>6, <1>11, EmptySeq
  <2>2. front = <<>> /\ back = <<>>
    BY <1>11 DEF front, back, Peek
  <2> QED BY <2>1, <2>2
<1>12. ASSUME n # 0
       PROVE  front = (IF items = <<>> THEN <<>> ELSE Head(items)) /\ back = (IF items = <<>> THEN <<>> ELSE Last(items))
  <2>1. 1 \in 1 .. n /\ n \in 1 .. n /\ 0 \in 0 .. n /\ n \in 0 .. n
    BY <1>4, <1>12
  <2>2. map.prev[map.head] = c[1] /\ map.next[map.head] = c[n]
    <3>1. map.prev[c[0]] = c[0 + 1] /\ map.next[c[n + 1]] = c[n]
      BY <1>4, <2>1
    <3> QED BY <1>4, <3>1
  <2>3. front = items[1] /\ back = items[n]
    BY <1>10, <2>1, <2>2 DEF front, back
  <2>4. items # <<>> /\ Head(items) = items[1] /\ Last(items) = items[n]
    <3> HIDE DEF items, n
    <3> QED BY <1>4, <1>6, <1>12 DEF Last
  <2> QED BY <2>3, <2>4
<1>13. front = (IF items = <<>> THEN <<>> ELSE Head(items)) /\ back = (IF items = <<>> THEN <<>> ELSE Last(items))
  BY <1>11, <1>12
<1>14. ASSUME Room(n + 1) PROVE ItemsOf(Clone) = items
  <2>1. Free(map) >= n + 1
    BY <1>14 DEF Room, Free
  <2>2. Clone = extend(Emptied(map), items)
    BY DEF Clone, Emptied
  <2>3. n = map.index.n
    OBVIOUS
  <2>4. ItemsOf(extend(Emptied(map), ItemsOf(map))) = ItemsOf(map)
    <3> HIDE DEF n, X
    <3> QED BY ONLY <1>3, <2>1, <2>3, CloneIs
  <2> QED BY <2>2, <2>4
<1> QED BY <1>7, <1>8, <1>9, <1>13, <1>14 DEF IndexAgrees

(* get, front, back and the iterators of linked_vec_map.rs tell the same,  *)
(* in either direction, and a clone has the entries of its original in     *)
(* their order.                                                            *)
THEOREM LinkedIndex == Spec => []IndexAgrees
<1>1. Safe(map, iters, held) => IndexAgrees
  BY SafeIndex
<1> QED BY <1>1, LinkedSafe, PTL

-----------------------------------------------------------------------------
(* The items of a map that is in the hands of its owner. *)
LEMMA EntriesIs ==
  ASSUME NEW m, NEW c, NEW n, SolidOf(m, c, n)
  PROVE  /\ n \in Nat /\ m \in Map
         /\ ItemsOf(m) \in Seq(Pair) /\ Len(ItemsOf(m)) = n /\ DOMAIN ItemsOf(m) = 1 .. n
         /\ \A i \in 1 .. n : ItemsOf(m)[i] = <<m.key[c[i]], m.value[c[i]]>>
         /\ \A i \in 1 .. n : c[i] \in Members(c, n) /\ c[i] \in Node /\ c[i] # Null
         /\ \A i \in 1 .. n : m.key[c[i]] \in Keys /\ m.value[c[i]] \in Values
                              /\ Index!get(m.index, m.key[c[i]]) = c[i]
         /\ \A i, j \in 1 .. n : c[i] = c[j] => i = j
<1>1. /\ n \in Nat /\ m \in Map /\ Members(c, n) \subseteq Addr /\ Tells(m, Members(c, n))
      /\ \A i \in 1 .. n : c[i] \in Members(c, n)
      /\ \A i, j \in 1 .. n : c[i] = c[j] => i = j
      /\ n = m.index.n
  <2>1. Solid(m, c) /\ n = m.index.n
    BY DEF SolidOf
  <2> DEFINE r == m.index.n
  <2>2. /\ r \in Nat /\ m \in Map /\ Members(c, r) \subseteq Addr /\ Tells(m, Members(c, r))
        /\ \A i \in 1 .. r : c[i] \in Members(c, r)
        /\ \A i, j \in 1 .. r : c[i] = c[j] => i = j
    BY ZenonT(60), <2>1, SolidFacts
  <2>3. n = r
    BY <2>1
  <2> HIDE DEF r
  <2> QED BY <2>1, <2>2, <2>3
<1>2. RingAt(m, c, n)
  <2>1. \E f, k : Linked(m, c, n, f, k, Nobody)
    BY <1>1 DEF SolidOf, Solid
  <2> QED BY <1>1, <2>1 DEF RingAt
<1>3. /\ DOMAIN ItemsOf(m) = 1 .. n /\ ItemsOf(m) \in Seq(Range(ItemsOf(m))) /\ Len(ItemsOf(m)) = n
      /\ \A i \in 1 .. n : ItemsOf(m)[i] = <<m.key[c[i]], m.value[c[i]]>>
  BY <1>2, ItemsIs
<1>4. \A i \in 1 .. n : /\ m.key[c[i]] \in Keys /\ m.value[c[i]] \in Values
                        /\ Index!get(m.index, m.key[c[i]]) = c[i]
  BY <1>1 DEF Tells
<1>5. \A i \in 1 .. n : c[i] \in Node /\ c[i] # Null
  BY <1>1, MapFacts DEF Node
<1> DEFINE s == ItemsOf(m)
<1>6. \A i \in 1 .. n : s[i] \in Pair
  <2>1. \A i \in 1 .. n : s[i] = <<m.key[c[i]], m.value[c[i]]>>
    BY <1>3
  <2> HIDE DEF s
  <2> QED BY <1>4, <2>1 DEF Pair
<1>7. s \in Seq(Pair)
  <2>1. s = [i \in 1 .. n |-> s[i]]
    BY <1>3
  <2> HIDE DEF s
  <2> QED BY <1>1, <1>6, <2>1
<1> QED BY <1>1, <1>3, <1>4, <1>5, <1>7

-----------------------------------------------------------------------------
(* What a call does to the list, as a sequence of items. *)
LEMMA AddedItems ==
  ASSUME NEW m, NEW c, NEW n, SolidOf(m, c, n), NEW x, NEW v, NEW d, NEW e,
         Added(m, c, n, Nobody, x, v, d, e)
  PROVE  ItemsOf(d) = Append(ItemsOf(m), <<x, v>>)
<1> DEFINE s == ItemsOf(m)
           t == ItemsOf(d)
           u == Append(s, <<x, v>>)
<1>1. Solid(d, e) /\ d.index.n = n + 1
  BY AddedSolid DEF SolidOf
<1>2. /\ n \in Nat /\ s \in Seq(Pair) /\ Len(s) = n
      /\ \A i \in 1 .. n : s[i] = <<m.key[c[i]], m.value[c[i]]>>
  BY EntriesIs
<1>3. /\ t \in Seq(Pair) /\ Len(t) = n + 1
      /\ \A i \in 1 .. n + 1 : t[i] = <<d.key[e[i]], d.value[e[i]]>>
  <2>1. SolidOf(d, e, n + 1)
    BY <1>1 DEF SolidOf
  <2> QED BY <2>1, EntriesIs
<1>4. \A i \in 1 .. n + 1 : t[i] = IF i <= n THEN s[i] ELSE <<x, v>>
  <2>0. /\ \A i \in 1 .. n : e[i] = c[i] /\ d.key[c[i]] = m.key[c[i]] /\ d.value[c[i]] = m.value[c[i]]
        /\ d.key[e[n + 1]] = x /\ d.value[e[n + 1]] = v
    BY DEF Added
  <2> HIDE DEF s, t
  <2>1. \A i \in 1 .. n : t[i] = s[i]
    <3>1. \A i \in 1 .. n : i \in 1 .. n + 1
      BY <1>2
    <3>2. ASSUME NEW i \in 1 .. n PROVE t[i] = s[i]
      <4>1. t[i] = <<d.key[e[i]], d.value[e[i]]>>
        BY <1>3, <3>1
      <4>2. e[i] = c[i] /\ d.key[c[i]] = m.key[c[i]] /\ d.value[c[i]] = m.value[c[i]]
        BY <2>0
      <4>3. s[i] = <<m.key[c[i]], m.value[c[i]]>>
        BY <1>2
      <4> QED BY <4>1, <4>2, <4>3
    <3> QED BY <3>2
  <2>2. t[n + 1] = <<x, v>>
    BY <1>2, <1>3, <2>0
  <2> QED BY <1>2, <2>1, <2>2
<1> HIDE DEF s, t
<1>5. <<x, v>> \in Pair
  <2>1. n + 1 \in 1 .. n + 1 /\ ~(n + 1 <= n)
    BY <1>2
  <2>2. t[n + 1] = <<x, v>>
    BY <1>4, <2>1
  <2>3. t[n + 1] \in Pair
    BY <1>3, <2>1
  <2> QED BY <2>2, <2>3
<1>6. u \in Seq(Pair) /\ Len(u) = n + 1 /\ \A i \in 1 .. n + 1 : u[i] = IF i <= n THEN s[i] ELSE <<x, v>>
  BY <1>2, <1>5
<1> HIDE DEF u
<1>7. t = u
  BY <1>3, <1>4, <1>6, SeqIs
<1> QED BY <1>7 DEF s, t, u

(* A removed entry leaves the sequence of items. *)
LEMMA LostItems ==
  ASSUME NEW m, NEW c, NEW n, SolidOf(m, c, n), NEW i \in 1 .. n, NEW d,
         Lost(m, c, n, Nobody, i, d)
  PROVE  ItemsOf(d) = RemoveAt(ItemsOf(m), i) /\ SolidOf(d, Cut(c, n, i), n - 1)
<1> DEFINE s == ItemsOf(m)
           t == ItemsOf(d)
           u == RemoveAt(s, i)
           e == Cut(c, n, i)
<1>1. Solid(d, e) /\ d.index.n = n - 1
  BY LostSolid DEF SolidOf
<1>2. /\ n \in Nat /\ s \in Seq(Pair) /\ Len(s) = n
      /\ \A j \in 1 .. n : s[j] = <<m.key[c[j]], m.value[c[j]]>>
      /\ \A j \in 1 .. n : c[j] \in Members(c, n)
      /\ \A j, l \in 1 .. n : c[j] = c[l] => j = l
  BY EntriesIs
<1>3. SolidOf(d, e, n - 1)
  BY <1>1 DEF SolidOf
<1>4. /\ t \in Seq(Pair) /\ Len(t) = n - 1
      /\ \A j \in 1 .. n - 1 : t[j] = <<d.key[e[j]], d.value[e[j]]>>
  BY <1>3, EntriesIs
<1>5. \A j \in 1 .. n - 1 : t[j] = IF j < i THEN s[j] ELSE s[j + 1]
  <2>1. \A j \in 1 .. n - 1 : e[j] = IF j < i THEN c[j] ELSE c[j + 1]
    <3>1. \A j \in 1 .. n - 1 : j \in 0 .. n
      BY <1>2
    <3> QED BY <3>1 DEF Cut
  <2>2. \A j \in 1 .. n : j # i => <<d.key[c[j]], d.value[c[j]]>> = s[j]
    BY <1>2 DEF Lost
  <2> HIDE DEF s, t, e
  <2>3. ASSUME NEW j \in 1 .. n - 1
        PROVE  t[j] = IF j < i THEN s[j] ELSE s[j + 1]
    <3>1. j \in 1 .. n /\ j + 1 \in 1 .. n /\ (j < i => j # i) /\ (~(j < i) => j + 1 # i)
      BY <1>2
    <3>2. CASE j < i
      BY <1>4, <2>1, <2>2, <3>1, <3>2
    <3>3. CASE ~(j < i)
      BY <1>4, <2>1, <2>2, <3>1, <3>3
    <3> QED BY <3>2, <3>3
  <2> QED BY <2>3
<1>6. u \in Seq(Pair) /\ Len(u) = n - 1 /\ \A j \in 1 .. n - 1 : u[j] = IF j < i THEN s[j] ELSE s[j + 1]
  <2> HIDE DEF s
  <2> QED BY <1>2, RemoveAtIs
<1> HIDE DEF s, t, u
<1>7. t = u
  BY <1>4, <1>5, <1>6, SeqIs
<1> QED BY <1>3, <1>7 DEF s, t, u, e

(* A rewritten entry goes to the back of the sequence of items. *)
LEMMA RenewedItems ==
  ASSUME NEW m, NEW c, NEW n, SolidOf(m, c, n), NEW i \in 1 .. n, NEW v \in Values, NEW d,
         Renewed(m, c, n, i, v, d)
  PROVE  ItemsOf(d) = Append(RemoveAt(ItemsOf(m), i), <<m.key[c[i]], v>>)
<1> DEFINE s == ItemsOf(m)
           t == ItemsOf(d)
           u == RemoveAt(s, i)
           e == Moved(c, n, i)
           x == <<m.key[c[i]], v>>
           w == Append(u, x)
<1>1. SolidOf(d, e, n) /\ d.key = m.key
  BY DEF Renewed, SolidOf
<1>2. /\ n \in Nat /\ s \in Seq(Pair) /\ Len(s) = n
      /\ \A j \in 1 .. n : s[j] = <<m.key[c[j]], m.value[c[j]]>>
      /\ \A j \in 1 .. n : c[j] \in Node
      /\ \A j, l \in 1 .. n : c[j] = c[l] => j = l
      /\ m.key[c[i]] \in Keys
  BY EntriesIs
<1>3. /\ t \in Seq(Pair) /\ Len(t) = n
      /\ \A j \in 1 .. n : t[j] = <<d.key[e[j]], d.value[e[j]]>>
  BY <1>1, EntriesIs
<1>4. \A j \in 1 .. n : e[j] = IF j < i THEN c[j] ELSE IF j < n THEN c[j + 1] ELSE c[i]
  <2>1. c \in [0 .. n + 1 -> Node]
    <3>1. PICK f, k : Linked(m, c, n, f, k, Nobody)
      BY DEF Solid, SolidOf
    <3>2. m \in Map /\ Ring(m, c, n)
      BY <3>1, LinkedFacts
    <3> QED BY <3>2 DEF Ring
  <2> QED BY <1>2, <2>1, MovedIs
<1>5. x \in Pair
  BY <1>2 DEF Pair
<1>6. u \in Seq(Pair) /\ Len(u) = n - 1 /\ \A j \in 1 .. n - 1 : u[j] = IF j < i THEN s[j] ELSE s[j + 1]
  <2> HIDE DEF s
  <2> QED BY <1>2, RemoveAtIs
<1>7. \A j \in 1 .. n : d.key[c[j]] = m.key[c[j]] /\ d.value[c[j]] = IF j = i THEN v ELSE m.value[c[j]]
  BY <1>1, <1>2 DEF Renewed
<1> HIDE DEF s, t, u, e
<1>8. w \in Seq(Pair) /\ Len(w) = n /\ \A j \in 1 .. n : w[j] = IF j < n THEN u[j] ELSE x
  <2> HIDE DEF x
  <2> QED BY <1>2, <1>5, <1>6
<1>9. \A j \in 1 .. n : t[j] = w[j]
  <2>1. ASSUME NEW j \in 1 .. n
        PROVE  t[j] = w[j]
    <3>1. CASE j < i
      <4>1. j \in 1 .. n - 1 /\ j < n /\ j # i
        BY <1>2, <3>1
      <4>2. t[j] = <<m.key[c[j]], m.value[c[j]]>>
        BY <1>3, <1>4, <1>7, <3>1, <4>1
      <4>3. w[j] = s[j]
        BY <1>6, <1>8, <3>1, <4>1
      <4> QED BY <1>2, <4>2, <4>3
    <3>2. CASE ~(j < i) /\ j < n
      <4>1. j + 1 \in 1 .. n /\ j \in 1 .. n - 1 /\ j + 1 # i
        BY <1>2, <3>2
      <4>2. t[j] = <<m.key[c[j + 1]], m.value[c[j + 1]]>>
        BY <1>3, <1>4, <1>7, <3>2, <4>1
      <4> QED BY <1>2, <1>6, <1>8, <3>2, <4>1, <4>2
    <3>3. CASE ~(j < i) /\ ~(j < n)
      BY <1>3, <1>4, <1>7, <1>8, <3>3
    <3> QED BY <3>1, <3>2, <3>3
  <2> QED BY <2>1
<1> HIDE DEF w
<1>10. t = w
  BY <1>3, <1>8, <1>9, SeqIs
<1> QED BY <1>10 DEF s, t, u, w, x

(* OrderedMap sees the same operators on sequences. *)
LEMMA AbsRemoveAt ==
  ASSUME NEW s, NEW i
  PROVE  Abs!RemoveAt(s, i) = RemoveAt(s, i)
BY DEF Abs!RemoveAt, RemoveAt

(* The ends of a sequence, as OrderedMap reads them. *)
LEMMA AbsEnds ==
  ASSUME NEW s
  PROVE  Abs!Front(s) = Front(s) /\ Abs!Last(s) = Last(s)
BY DEF Abs!Front, Front, Abs!Last, Last

(* Keys that are not in the map, and those that are, as OrderedMap sees them. *)
LEMMA AbsAbsent ==
  ASSUME NEW c, NEW n, SolidOf(map, c, n), NEW k \in Keys, At(k) = Null
  PROVE  /\ ~Abs!Has(k) /\ Found(k) = <<>> /\ Abs!Found(k) = <<>> /\ Abs!Others(k) = ItemsOf(map)
         /\ \A v : Abs!Updated(k, v) = ItemsOf(map)
<1> DEFINE s == ItemsOf(map)
<1>1. /\ n \in Nat /\ s \in Seq(Pair) /\ DOMAIN s = 1 .. n
      /\ \A i \in 1 .. n : s[i] = <<map.key[c[i]], map.value[c[i]]>>
      /\ \A i \in 1 .. n : c[i] # Null
      /\ \A i \in 1 .. n : Index!get(map.index, map.key[c[i]]) = c[i]
  BY EntriesIs
<1>2. \A i \in DOMAIN s : s[i][1] # k
  <2> HIDE DEF s
  <2> QED BY <1>1 DEF At
<1>3. s = [i \in DOMAIN s |-> s[i]]
  BY <1>1
<1>4. ~Abs!Has(k)
  BY <1>2 DEF Abs!Has
<1>5. \A v : Abs!Updated(k, v) = s
  <2>1. \A v : Abs!Updated(k, v) = [i \in DOMAIN s |-> IF s[i][1] = k THEN <<k, v>> ELSE s[i]]
    BY DEF Abs!Updated
  <2> HIDE DEF s
  <2> QED BY <1>2, <1>3, <2>1
<1> QED BY <1>4, <1>5 DEF Abs!Found, Abs!Others, Found

(* A key that is in the map has one place in the sequence of items. *)
LEMMA AbsPresent ==
  ASSUME NEW c, NEW n, SolidOf(map, c, n), NEW k \in Keys, NEW i \in 1 .. n, c[i] = At(k)
  PROVE  /\ At(k) # Null /\ map.key[c[i]] = k /\ Abs!Has(k) /\ Abs!Place(k) = i
         /\ Found(k) = <<map.value[c[i]]>> /\ Abs!Found(k) = <<map.value[c[i]]>>
         /\ Abs!Others(k) = RemoveAt(ItemsOf(map), i)
<1> DEFINE s == ItemsOf(map)
<1>1. /\ n \in Nat /\ s \in Seq(Pair) /\ DOMAIN s = 1 .. n
      /\ \A j \in 1 .. n : s[j] = <<map.key[c[j]], map.value[c[j]]>>
      /\ \A j \in 1 .. n : c[j] # Null
      /\ \A j \in 1 .. n : Index!get(map.index, map.key[c[j]]) = c[j]
      /\ \A j, l \in 1 .. n : c[j] = c[l] => j = l
      /\ Tells(map, Members(c, n))
  <2>1. Tells(map, Members(c, n))
    BY SolidFacts DEF SolidOf
  <2> QED BY <2>1, EntriesIs
<1>2. map.key[c[i]] = k /\ At(k) # Null
  <2>1. k \in Nat
    BY LinkedVecMapAssumption
  <2> QED BY <1>1, <2>1 DEF At, Tells
<1>3. \A j \in DOMAIN s : s[j][1] = k <=> j = i
  <2> HIDE DEF s
  <2>1. \A j \in 1 .. n : map.key[c[j]] = k => c[j] = c[i]
    BY <1>1 DEF At
  <2> QED BY <1>1, <1>2, <2>1
<1>4. Abs!Has(k) /\ Abs!Place(k) = i
  <2>1. i \in DOMAIN s
    BY <1>1
  <2> QED BY <1>3, <2>1 DEF Abs!Has, Abs!Place
<1>5. s[i][2] = map.value[c[i]]
  <2> HIDE DEF s
  <2> QED BY <1>1
<1>6. Abs!Others(k) = RemoveAt(s, i)
  <2>1. Abs!Others(k) = RemoveAt(s, Abs!Place(k))
    BY <1>4, AbsRemoveAt DEF Abs!Others
  <2> HIDE DEF s
  <2> QED BY <1>4, <2>1, Zenon
<1>7. Abs!Found(k) = <<map.value[c[i]]>>
  BY <1>4, <1>5 DEF Abs!Found
<1>8. Found(k) = <<map.value[c[i]]>>
  BY <1>2 DEF Found
<1> QED BY <1>2, <1>4, <1>6, <1>7, <1>8

(* A value written in place. *)
LEMMA AbsUpdated ==
  ASSUME NEW c, NEW n, SolidOf(map, c, n), NEW i \in 1 .. n, NEW v \in Values,
         NEW d, SolidOf(d, c, n), d.key = map.key, d.value[c[i]] = v,
         \A q \in Node : q # c[i] => d.value[q] = map.value[q]
  PROVE  ItemsOf(d) = Abs!Updated(map.key[c[i]], v)
<1> DEFINE s == ItemsOf(map)
           t == ItemsOf(d)
           k == map.key[c[i]]
           u == Abs!Updated(k, v)
<1>1. /\ n \in Nat /\ s \in Seq(Pair) /\ DOMAIN s = 1 .. n
      /\ \A j \in 1 .. n : s[j] = <<map.key[c[j]], map.value[c[j]]>>
      /\ \A j \in 1 .. n : c[j] \in Node
      /\ \A j \in 1 .. n : Index!get(map.index, map.key[c[j]]) = c[j]
      /\ \A j, l \in 1 .. n : c[j] = c[l] => j = l
  BY EntriesIs
<1>2. /\ t \in Seq(Pair) /\ DOMAIN t = 1 .. n
      /\ \A j \in 1 .. n : t[j] = <<d.key[c[j]], d.value[c[j]]>>
  BY EntriesIs
<1>3. u = [j \in DOMAIN s |-> IF s[j][1] = k THEN <<k, v>> ELSE s[j]]
  BY DEF Abs!Updated
<1>4. \A j \in 1 .. n : s[j][1] = k <=> j = i
  <2> HIDE DEF s
  <2>1. \A j \in 1 .. n : map.key[c[j]] = k => c[j] = c[i]
    BY <1>1
  <2> HIDE DEF k
  <2>2. map.key[c[i]] = k
    BY DEF k
  <2> QED BY <1>1, <2>1, <2>2
<1> HIDE DEF s, t, u
<1>5. \A j \in 1 .. n : t[j] = IF s[j][1] = k THEN <<k, v>> ELSE s[j]
  <2>1. t[i] = <<k, v>>
    BY <1>2
  <2>2. \A j \in 1 .. n : j # i => t[j] = s[j]
    <3>1. ASSUME NEW j \in 1 .. n, j # i PROVE t[j] = s[j]
      <4>1. c[j] # c[i] /\ c[j] \in Node
        BY <1>1, <3>1
      <4>2. d.value[c[j]] = map.value[c[j]] /\ d.key[c[j]] = map.key[c[j]]
        BY <4>1
      <4>3. s[j] = <<map.key[c[j]], map.value[c[j]]>>
        BY <1>1
      <4>4. t[j] = <<d.key[c[j]], d.value[c[j]]>>
        BY <1>2
      <4> QED BY <4>2, <4>3, <4>4
    <3> QED BY <3>1
  <2> HIDE DEF k
  <2> QED BY <1>4, <2>1, <2>2
<1>6. t = [j \in 1 .. n |-> t[j]]
  BY <1>2
<1> HIDE DEF k
<1>7. t = u
  BY <1>1, <1>3, <1>5, <1>6
<1> QED BY <1>7 DEF t, u, k

-----------------------------------------------------------------------------
(* A call beside no iterator and no entry. *)
LEMMA AbsWrite ==
  ASSUME Writable, UNCHANGED <<iters, held>>, map'.present = map.present
  PROVE  Abs!Write
<1>1. iters = <<>> /\ held = {} /\ map.present /\ iters' = <<>> /\ held' = {}
  BY DEF Writable
<1>2. /\ AllPending(map, iters) = <<>> /\ HeldKeys(map, held) = {}
      /\ AllPending(map', iters') = <<>> /\ HeldKeys(map', held') = {}
  BY <1>1 DEF AllPending, HeldKeys
<1> QED BY <1>1, <1>2 DEF Abs!Write, Abs!Writable

(* Beside no borrow the map has a ring, and what the index gives is in it. *)
LEMMA WritableEntry ==
  ASSUME Safe(map, iters, held), Writable
  PROVE  /\ \E c, n : SolidOf(map, c, n)
         /\ \A c, n, k : SolidOf(map, c, n) /\ k \in Keys /\ At(k) # Null => \E i \in 1 .. n : c[i] = At(k)
<1>1. \E c : Solid(map, c)
  BY WritableIs
<1>2. ASSUME NEW c, NEW n, NEW k, SolidOf(map, c, n) /\ k \in Keys /\ At(k) # Null
      PROVE  \E i \in 1 .. n : c[i] = At(k)
  BY <1>2, EntryIs DEF SolidOf, At
<1> QED BY <1>1, <1>2 DEF SolidOf

(* insert: the item of the key goes, and a new one is at the back. *)
LEMMA InsertAbs ==
  ASSUME Safe(map, iters, held), NEW k \in Keys, NEW v \in Given[k], Insert(k, v)
  PROVE  Abs!Insert(k, v)
<1>1. /\ Writable /\ Room(2) /\ map' = insert(map, k, v) /\ UNCHANGED <<iters, held>>
      /\ returned' = Found(k)
  BY DEF Insert, Call
<1>2. PICK c, n : SolidOf(map, c, n)
  BY <1>1, WritableEntry
<1>3. Spare(map) >= 1 /\ map.present = TRUE
  BY <1>1, <1>2, SolidFacts, RoomIs, 1 + 1 = 2 DEF SolidOf
<1>4. /\ Index!get(map.index, k) = Null => \E e : Added(map, c, n, Nobody, k, v, map', e)
      /\ \A i \in 1 .. n : c[i] = Index!get(map.index, k) => Renewed(map, c, n, i, v, map')
  <2>1. n = map.index.n /\ v \in Values /\ Solid(map, c)
    BY <1>2, GivenIs DEF SolidOf
  <2> QED BY <1>1, <1>3, <2>1, InsertIs
<1>5. CASE At(k) = Null
  <2>1. PICK e : Added(map, c, n, Nobody, k, v, map', e)
    BY <1>4, <1>5 DEF At
  <2>2. ItemsOf(map') = Append(Abs!Others(k), <<k, v>>) /\ returned' = Abs!Found(k)
    BY <1>1, <1>2, <1>5, <2>1, AddedItems, AbsAbsent
  <2>3. map'.present = map.present
    BY <2>1 DEF Added
  <2> QED BY <1>1, <2>2, <2>3, AbsWrite DEF Abs!Insert
<1>6. CASE At(k) # Null
  <2>1. PICK i \in 1 .. n : c[i] = At(k)
    BY <1>1, <1>2, <1>6, WritableEntry
  <2>2. Renewed(map, c, n, i, v, map') /\ v \in Values
    BY <1>4, <2>1, GivenIs DEF At
  <2>3. ItemsOf(map') = Append(RemoveAt(ItemsOf(map), i), <<map.key[c[i]], v>>)
    BY <1>2, <2>2, RenewedItems
  <2>4. ItemsOf(map') = Append(Abs!Others(k), <<k, v>>) /\ returned' = Abs!Found(k)
    BY <1>1, <1>2, <2>1, <2>3, AbsPresent
  <2>5. map'.present = map.present
    BY <1>3, <2>2, SolidFacts DEF Renewed
  <2> QED BY <1>1, <2>4, <2>5, AbsWrite DEF Abs!Insert
<1> QED BY <1>5, <1>6

(* or_insert: an entry is added at the back or left alone. *)
LEMMA OrInsertAbs ==
  ASSUME Safe(map, iters, held), NEW k \in Keys, NEW v \in Given[k], OrInsert(k, v)
  PROVE  Abs!OrInsert(k, v)
<1>1. /\ Writable /\ Room(2) /\ UNCHANGED <<iters, held>>
      /\ At(k) # Null => map' = map /\ returned' = Found(k)
      /\ At(k) = Null => map' = Attached(map, k, v) /\ returned' = <<v>>
  BY DEF OrInsert, Call, Attached
<1>2. PICK c, n : SolidOf(map, c, n)
  BY <1>1, WritableEntry
<1>3. Spare(map) >= 1 /\ map.present = TRUE
  BY <1>1, <1>2, SolidFacts, RoomIs, 1 + 1 = 2 DEF SolidOf
<1>4. CASE At(k) = Null
  <2>1. PICK e : Added(map, c, n, Nobody, k, v, map', e)
    <3> DEFINE d == map'
    <3>1. PICK f1, k1 : Linked(map, c, n, f1, k1, Nobody) /\ Tells(map, Members(c, n))
      BY <1>2 DEF Solid, SolidOf
    <3>2. v \in Values /\ Index!get(map.index, k) = Null /\ d = Attached(map, k, v) /\ n = map.index.n
      BY <1>1, <1>2, <1>4, GivenIs DEF At, SolidOf
    <3> HIDE DEF d, Nobody
    <3>3. \E e : Added(map, c, n, Nobody, k, v, d, e)
      BY <1>3, <3>1, <3>2, AddedIs
    <3> QED BY <3>3 DEF d
  <2>2. /\ ItemsOf(map') = Append(ItemsOf(map), <<k, v>>) /\ ~Abs!Has(k)
    BY <1>2, <1>4, <2>1, AddedItems, AbsAbsent
  <2>3. map'.present = map.present
    BY <2>1 DEF Added
  <2> QED BY <1>1, <1>4, <2>2, <2>3, AbsWrite DEF Abs!OrInsert
<1>5. CASE At(k) # Null
  <2>1. PICK i \in 1 .. n : c[i] = At(k)
    BY <1>1, <1>2, <1>5, WritableEntry
  <2>2. Abs!Has(k) /\ returned' = Abs!Found(k)
    BY <1>1, <1>2, <1>5, <2>1, AbsPresent
  <2> QED BY <1>1, <1>5, <2>2, AbsWrite DEF Abs!OrInsert
<1> QED BY <1>4, <1>5

(* get_mut: the item keeps its place. *)
LEMMA GetMutAbs ==
  ASSUME Safe(map, iters, held), NEW k \in Keys, NEW v \in Given[k], GetMut(k, v)
  PROVE  Abs!GetMut(k, v)
<1>1. /\ Writable /\ UNCHANGED <<iters, held>> /\ returned' = Found(k)
      /\ At(k) = Null => map' = map
      /\ At(k) # Null => map' = [map EXCEPT !.value[At(k)] = v]
  BY DEF GetMut, Call
<1>2. PICK c, n : SolidOf(map, c, n)
  BY <1>1, WritableEntry
<1>3. CASE At(k) = Null
  <2>1. returned' = Abs!Found(k) /\ ItemsOf(map') = Abs!Updated(k, v) /\ map' = map
    BY <1>1, <1>2, <1>3, AbsAbsent
  <2> QED BY <1>1, <2>1, AbsWrite DEF Abs!GetMut
<1>4. CASE At(k) # Null
  <2>1. PICK i \in 1 .. n : c[i] = At(k)
    BY <1>1, <1>2, <1>4, WritableEntry
  <2>2. /\ Solid(map', c) /\ map'.index = map.index /\ map'.key = map.key
        /\ map'.value[c[i]] = v /\ \A q \in Node : q # c[i] => map'.value[q] = map.value[q]
    <3> DEFINE d == map'
    <3>1. WroteAt(map, c, n, i, v, d)
      BY <1>1, <1>2, <1>4, <2>1, GivenIs DEF SolidOf, WroteAt
    <3> HIDE DEF d
    <3>2. /\ Solid(d, c) /\ d.index = map.index /\ d.key = map.key
          /\ d.value[c[i]] = v /\ \A q \in Node : q # c[i] => d.value[q] = map.value[q]
      BY ONLY <3>1, WroteIs
    <3> QED BY <3>2 DEF d
  <2>3. SolidOf(map', c, n) /\ v \in Values
    BY <1>2, <2>2, GivenIs DEF SolidOf
  <2>4. ItemsOf(map') = Abs!Updated(map.key[c[i]], v)
    <3> DEFINE d == map'
    <3>1. /\ SolidOf(d, c, n) /\ d.key = map.key /\ d.value[c[i]] = v
          /\ \A q \in Node : q # c[i] => d.value[q] = map.value[q]
      BY <2>2, <2>3
    <3> HIDE DEF d
    <3>2. ItemsOf(d) = Abs!Updated(map.key[c[i]], v)
      BY <1>2, <2>3, <3>1, AbsUpdated
    <3> QED BY <3>2 DEF d
  <2>5. map.key[c[i]] = k /\ returned' = Abs!Found(k)
    BY <1>1, <1>2, <2>1, AbsPresent
  <2>6. map'.present = map.present
    BY <1>1, <1>2, <2>2, SolidFacts DEF SolidOf
  <2> QED BY <1>1, <2>4, <2>5, <2>6, AbsWrite DEF Abs!GetMut
<1> QED BY <1>3, <1>4

(* get_refresh: the item goes to the back. *)
LEMMA GetRefreshAbs ==
  ASSUME Safe(map, iters, held), NEW k \in Keys, GetRefresh(k)
  PROVE  Abs!GetRefresh(k)
<1>1. /\ Writable /\ UNCHANGED <<iters, held>> /\ returned' = Found(k)
      /\ At(k) = Null => map' = map
      /\ At(k) # Null => map' = Refreshed(map, At(k))
  BY DEF GetRefresh, Call
<1>2. PICK c, n : SolidOf(map, c, n)
  BY <1>1, WritableEntry
<1>3. CASE At(k) = Null
  <2>1. returned' = Abs!Found(k) /\ ~Abs!Has(k) /\ map' = map
    BY <1>1, <1>2, <1>3, AbsAbsent
  <2> QED BY <1>1, <2>1, AbsWrite DEF Abs!GetRefresh
<1>4. CASE At(k) # Null
  <2>1. PICK i \in 1 .. n : c[i] = At(k)
    BY <1>1, <1>2, <1>4, WritableEntry
  <2>2. Renewed(map, c, n, i, map.value[c[i]], map')
    <3>1. map' = Refreshed(map, c[i]) /\ Solid(map, c) /\ n = map.index.n
      BY <1>1, <1>2, <1>4, <2>1 DEF SolidOf
    <3> QED BY <3>1, RefreshIs
  <2>3. ItemsOf(map') = Append(RemoveAt(ItemsOf(map), i), <<map.key[c[i]], map.value[c[i]]>>)
    <3>1. map.value[c[i]] \in Values
      BY <1>2, EntriesIs
    <3> QED BY <1>2, <2>2, <3>1, RenewedItems
  <2>4. /\ Abs!Has(k) /\ Abs!Found(k) = <<map.value[c[i]]>> /\ returned' = Abs!Found(k)
        /\ ItemsOf(map') = Append(Abs!Others(k), <<k, map.value[c[i]]>>)
    BY <1>1, <1>2, <2>1, <2>3, AbsPresent
  <2>5. Abs!Found(k)[1] = map.value[c[i]]
    BY <2>4
  <2>6. map'.present = map.present
    BY <1>2, <2>2, SolidFacts DEF SolidOf, Renewed
  <2> QED BY <1>1, <2>4, <2>5, <2>6, AbsWrite DEF Abs!GetRefresh
<1> QED BY <1>3, <1>4

(* remove: the item of the key goes. *)
LEMMA RemoveKeyAbs ==
  ASSUME Safe(map, iters, held), NEW k \in Keys, RemoveKey(k)
  PROVE  Abs!RemoveKey(k)
<1>1. /\ Writable /\ UNCHANGED <<iters, held>> /\ map' = remove(map, k) /\ returned' = Found(k)
  BY DEF RemoveKey, Call
<1>2. PICK c, n : SolidOf(map, c, n)
  BY <1>1, WritableEntry
<1>3. CASE At(k) = Null
  <2>1. map' = map
    BY <1>1, <1>2, <1>3, SolidFacts, RemoveAbsent DEF At, SolidOf
  <2>2. returned' = Abs!Found(k) /\ ItemsOf(map') = Abs!Others(k)
    BY <1>1, <1>2, <1>3, <2>1, AbsAbsent
  <2> QED BY <1>1, <2>1, <2>2, AbsWrite DEF Abs!RemoveKey
<1>4. CASE At(k) # Null
  <2>1. PICK i \in 1 .. n : c[i] = At(k)
    BY <1>1, <1>2, <1>4, WritableEntry
  <2>2. /\ map.key[c[i]] = k /\ returned' = Abs!Found(k) /\ Abs!Others(k) = RemoveAt(ItemsOf(map), i)
    BY <1>1, <1>2, <2>1, AbsPresent
  <2>3. Lost(map, c, n, Nobody, i, map')
    <3>1. map' = remove(map, map.key[c[i]]) /\ Solid(map, c) /\ n = map.index.n
      BY <1>1, <1>2, <2>2 DEF SolidOf
    <3> QED BY <3>1, RemoveIs
  <2>4. ItemsOf(map') = Abs!Others(k)
    BY <1>2, <2>2, <2>3, LostItems
  <2>5. map'.present = map.present
    BY <2>3 DEF Lost
  <2> QED BY <1>1, <2>2, <2>4, <2>5, AbsWrite DEF Abs!RemoveKey
<1> QED BY <1>3, <1>4

(* An empty ring has no items. *)
LEMMA EmptyItems ==
  ASSUME NEW m, NEW c, RingAt(m, c, 0)
  PROVE  ItemsOf(m) = <<>>
<1>1. Len(ItemsOf(m)) = 0 /\ ItemsOf(m) \in Seq(Range(ItemsOf(m)))
  BY ItemsIs
<1> QED BY <1>1

(* A consumed map has no items. *)
LEMMA GoneItems ==
  ASSUME NEW m, NEW X, Consumed(m, X)
  PROVE  ItemsOf(m) = <<>>
<1>1. Linked(m, Alone(Null), 0, NoSpares, 0, X) /\ m.index.n = 0
  BY NewIndexIs DEF Consumed
<1>2. RingAt(m, Alone(Null), 0)
  BY <1>1 DEF RingAt
<1> QED BY <1>2, EmptyItems

(* The same ring with the same content has the same items. *)
LEMMA SolidItems ==
  ASSUME NEW m, NEW c, NEW n, SolidOf(m, c, n), NEW d, SolidOf(d, c, n),
         \A p \in Members(c, n) : d.key[p] = m.key[p] /\ d.value[p] = m.value[p]
  PROVE  ItemsOf(d) = ItemsOf(m)
<1>1. RingAt(m, c, n) /\ RingAt(d, c, n)
  BY DEF RingAt, SolidOf, Solid
<1>2. \A i \in 1 .. n : c[i] \in Members(c, n)
  BY EntriesIs
<1>3. SameAt(m, c, n, d, c)
  BY <1>1, <1>2 DEF SameAt
<1> QED BY <1>3, SameItems

(* The node at either end of the list, and its item. *)
LEMMA PopAbs ==
  ASSUME Safe(map, iters, held)
  PROVE  (pop_front => Abs!PopFront) /\ (pop_back => Abs!PopBack)
<1> DEFINE s == ItemsOf(map)
<1>1. ASSUME NEW p, Pop(p), NEW c, NEW n, SolidOf(map, c, n), NEW i \in 1 .. n, c[i] = p
      PROVE  ItemsOf(map') = RemoveAt(s, i) /\ returned' = s[i] /\ map'.present = map.present
  <2>1. n = map.index.n /\ Solid(map, c) /\ n # 0
    BY <1>1, EntriesIs DEF SolidOf
  <2>2. /\ At(map.key[p]) = p /\ p # Null /\ s[i] = <<map.key[p], map.value[p]>>
    BY <1>1, EntriesIs DEF At
  <2>3. map' = Popped(map, p) /\ returned' = Item(map, p)
    BY <1>1, <2>1, <2>2 DEF Pop, Call, Popped
  <2>4. Lost(map, c, n, Nobody, i, map')
    BY <1>1, <2>1, <2>3, RemoveIs
  <2> QED BY <1>1, <2>2, <2>3, <2>4, LostItems DEF Lost, Item
<1>2. ASSUME NEW p, Pop(p)
      PROVE  Writable /\ UNCHANGED <<iters, held>>
  BY <1>2 DEF Pop, Call
<1>3. ASSUME NEW p, Pop(p), map.index.n = 0
      PROVE  map' = map /\ returned' = <<>>
  BY <1>3 DEF Pop, Call
<1>4. ASSUME NEW c, NEW n, SolidOf(map, c, n)
      PROVE  /\ n \in Nat /\ s \in Seq(Pair) /\ Len(s) = n
             /\ n = map.index.n
             /\ map.prev[map.head] = c[1] /\ map.next[map.head] = c[n]
  <2>1. /\ n \in Nat /\ c[0] = map.head /\ c[n + 1] = map.head
        /\ \A i \in 0 .. n : map.prev[c[i]] = c[i + 1]
        /\ \A i \in 0 .. n : map.next[c[i + 1]] = c[i]
    BY ONLY <1>4, SolidRing
  <2>2. 0 \in 0 .. n /\ n \in 0 .. n /\ 0 + 1 = 1
    BY <2>1
  <2>3. s \in Seq(Pair) /\ Len(s) = n
    BY <1>4, EntriesIs
  <2> QED BY <1>4, <2>1, <2>2, <2>3 DEF SolidOf
<1>5. ASSUME pop_front
      PROVE  Abs!PopFront
  <2>1. Pop(map.prev[map.head])
    BY <1>5 DEF pop_front
  <2>2. Writable /\ UNCHANGED <<iters, held>>
    BY <1>2, <2>1
  <2>3. PICK c, n : SolidOf(map, c, n)
    BY <2>2, WritableEntry
  <2>4. /\ n \in Nat /\ s \in Seq(Pair) /\ Len(s) = n /\ n = map.index.n /\ map.prev[map.head] = c[1]
    BY <1>4, <2>3
  <2>5. CASE n = 0
    <3>1. map' = map /\ returned' = <<>>
      BY <1>3, <2>1, <2>4, <2>5
    <3>2. s = <<>>
      BY <2>4, <2>5
    <3> QED BY <2>2, <3>1, <3>2, AbsWrite DEF Abs!PopFront
  <2>6. CASE n # 0
    <3>1. 1 \in 1 .. n
      BY <2>4, <2>6
    <3>2. ItemsOf(map') = RemoveAt(s, 1) /\ returned' = s[1] /\ map'.present = map.present
      BY <1>1, <2>1, <2>3, <2>4, <3>1
    <3>3. s # <<>>
      BY <2>4, <2>6
    <3>4. RemoveAt(s, 1) = Tail(s) /\ Head(s) = s[1]
      BY <2>4, <3>3, RemoveEnds, TailIs
    <3> QED BY <2>2, <3>2, <3>3, <3>4, AbsWrite DEF Abs!PopFront
  <2> QED BY <2>5, <2>6
<1>6. ASSUME pop_back
      PROVE  Abs!PopBack
  <2>1. Pop(map.next[map.head])
    BY <1>6 DEF pop_back
  <2>2. Writable /\ UNCHANGED <<iters, held>>
    BY <1>2, <2>1
  <2>3. PICK c, n : SolidOf(map, c, n)
    BY <2>2, WritableEntry
  <2>4. /\ n \in Nat /\ s \in Seq(Pair) /\ Len(s) = n /\ n = map.index.n /\ map.next[map.head] = c[n]
    BY <1>4, <2>3
  <2>5. CASE n = 0
    <3>1. map' = map /\ returned' = <<>>
      BY <1>3, <2>1, <2>4, <2>5
    <3>2. s = <<>>
      BY <2>4, <2>5
    <3> QED BY <2>2, <3>1, <3>2, AbsWrite DEF Abs!PopBack
  <2>6. CASE n # 0
    <3>1. n \in 1 .. n
      BY <2>4, <2>6
    <3>2. ItemsOf(map') = RemoveAt(s, n) /\ returned' = s[n] /\ map'.present = map.present
      BY <1>1, <2>1, <2>3, <2>4, <3>1
    <3>3. s # <<>>
      BY <2>4, <2>6
    <3>4. RemoveAt(s, n) = Abs!Front(s) /\ Abs!Last(s) = s[n]
      BY <2>4, <3>3, RemoveEnds, AbsEnds DEF Last
    <3> QED BY <2>2, <3>2, <3>3, <3>4, AbsWrite DEF Abs!PopBack
  <2> QED BY <2>5, <2>6
<1> QED BY <1>5, <1>6

(* clear: no item is left. *)
LEMMA ClearAbs ==
  ASSUME Safe(map, iters, held), Clear
  PROVE  Abs!Clear
<1>1. Writable /\ returned' = <<>> /\ UNCHANGED <<iters, held>>
  BY DEF Clear, Call
<1>2. PICK e : SolidOf(map', e, 0)
  BY ClearIs
<1>3. ItemsOf(map') = <<>>
  <2>1. RingAt(map', e, 0)
    BY <1>2 DEF RingAt, SolidOf, Solid
  <2> QED BY <2>1, EmptyItems
<1>4. map'.present = map.present
  <2>1. PICK c, n : SolidOf(map, c, n)
    BY <1>1, WritableEntry
  <2> QED BY <1>2, <2>1, SolidFacts DEF SolidOf
<1> QED BY <1>1, <1>3, <1>4, AbsWrite DEF Abs!Clear

(* shrink_to_fit: the items stay. *)
LEMMA ShrinkAbs ==
  ASSUME Safe(map, iters, held), ShrinkToFit
  PROVE  Abs!ShrinkToFit
<1>1. Writable /\ returned' = <<>> /\ UNCHANGED <<iters, held>>
  BY DEF ShrinkToFit, Call
<1>2. PICK c, n : /\ SolidOf(map, c, n) /\ SolidOf(map', c, n)
                  /\ \A p \in Members(c, n) : map'.key[p] = map.key[p] /\ map'.value[p] = map.value[p]
  BY ShrinkIs
<1>3. ItemsOf(map') = ItemsOf(map)
  BY <1>2, SolidItems
<1>4. map'.present = map.present
  BY <1>2, SolidFacts DEF SolidOf
<1> QED BY <1>1, <1>3, <1>4, AbsWrite DEF Abs!ShrinkToFit

(* Drop::drop: the map is gone, and so are its items. *)
LEMMA DropMapAbs ==
  ASSUME Safe(map, iters, held), DropMap
  PROVE  Abs!Drop
<1>1. Writable /\ returned' = <<>> /\ UNCHANGED <<iters, held>> /\ iters = <<>> /\ held = {} /\ map.present
  BY DEF DropMap, Call, Writable
<1>2. Consumed(map', Nobody)
  BY DropMapIs
<1>3. ItemsOf(map') = <<>> /\ map'.present = FALSE
  BY <1>2, GoneItems DEF Consumed
<1>4. /\ AllPending(map, iters) = <<>> /\ HeldKeys(map, held) = {}
      /\ AllPending(map', iters') = <<>> /\ HeldKeys(map', held') = {}
  BY <1>1 DEF AllPending, HeldKeys
<1> QED BY <1>1, <1>3, <1>4 DEF Abs!Drop, Abs!Writable

(* A new map has no items. *)
LEMMA NewAbs ==
  ASSUME Safe(map, iters, held), New
  PROVE  Abs!New
<1>1. /\ ~map.present /\ iters = <<>> /\ map' = [map EXCEPT !.present = TRUE]
      /\ iters' = iters /\ held' = held /\ returned' = <<>>
  BY DEF New, Call
<1>2. map \in Map
  BY SoundFacts DEF Safe
<1>3. map'.present = TRUE /\ map'.key = map.key /\ ItemsOf(map') = ItemsOf(map)
  <2>1. /\ map'.present = TRUE /\ map'.key = map.key /\ map'.value = map.value /\ map'.prev = map.prev
        /\ map'.head = map.head /\ map'.index = map.index
    BY <1>1, <1>2 DEF Map
  <2>2. Nodes(map') = Nodes(map)
    BY <2>1 DEF Nodes
  <2> QED BY <2>1, <2>2 DEF ItemsOf, Item
<1>4. AllPending(map, iters) = <<>> /\ AllPending(map', iters') = <<>> /\ HeldKeys(map', held') = HeldKeys(map, held)
  BY <1>1, <1>3 DEF AllPending, HeldKeys
<1> QED BY <1>1, <1>3, <1>4 DEF Abs!New

-----------------------------------------------------------------------------
(* The items that an iterator has still to yield are those of its nodes. *)
LEMMA PendingIs ==
  ASSUME NEW m, NEW it, NEW g, Yet(m, it, g)
  PROVE  /\ it.remaining \in Nat
         /\ \E s \in Seq(Pair) :
               /\ Len(s) = it.remaining
               /\ \A j \in 1 .. it.remaining : s[j] = <<m.key[g[j]], m.value[g[j]]>>
               /\ Pending(m, it) = [type |-> it.type, items |-> s]
<1> DEFINE r == it.remaining
           t == [j \in 1 .. r |-> <<m.key[g[j]], m.value[g[j]]>>]
           path == Path(m.prev, it.head, r)
<1>1. r \in Nat /\ it.head \in Node /\ m.prev \in [Node -> Node] /\ m \in Map
  BY MapFacts DEF Yet, Iterator
<1>2. path = g
  <2>1. g \in [1 .. r -> Node] /\ (r # 0 => g[1] = it.head) /\ \A j \in 1 .. r - 1 : g[j + 1] = m.prev[g[j]]
    BY DEF Yet
  <2> HIDE DEF r
  <2> QED BY <1>1, <2>1, PathIsThat
<1>3. DOMAIN g = 1 .. r /\ \A j \in 1 .. r : g[j] \in Node
  BY DEF Yet
<1>4. Pending(m, it) = [type |-> it.type, items |-> t]
  <2>1. Pending(m, it) = [type |-> it.type, items |-> [j \in DOMAIN path |-> Item(m, path[j])]]
    BY DEF Pending
  <2>2. [j \in DOMAIN path |-> Item(m, path[j])] = t
    <3> HIDE DEF path
    <3> QED BY <1>2, <1>3 DEF Item
  <2> HIDE DEF t, path
  <2> QED BY <2>1, <2>2
<1>5. t \in Seq(Pair) /\ Len(t) = r /\ \A j \in 1 .. r : t[j] = <<m.key[g[j]], m.value[g[j]]>>
  <2>1. \A j \in 1 .. r : m.key[g[j]] \in Keys \cup {NoKey} /\ m.value[g[j]] \in Values \cup {Null}
    BY <1>1, <1>3, MapFacts
  <2>2. \A j \in 1 .. r : <<m.key[g[j]], m.value[g[j]]>> \in Pair
    BY <2>1 DEF Pair
  <2> HIDE DEF r
  <2> QED BY <1>1, <2>2
<1> HIDE DEF t
<1> QED BY <1>1, <1>4, <1>5

(* A sequence with the content of those nodes is what is to be yielded. *)
LEMMA PendingThat ==
  ASSUME NEW m, NEW it, NEW g, Yet(m, it, g), NEW s \in Seq(Pair), Len(s) = it.remaining,
         \A j \in 1 .. it.remaining : s[j] = <<m.key[g[j]], m.value[g[j]]>>
  PROVE  Pending(m, it) = [type |-> it.type, items |-> s]
<1>1. PICK t \in Seq(Pair) :
      /\ Len(t) = it.remaining
      /\ \A j \in 1 .. it.remaining : t[j] = <<m.key[g[j]], m.value[g[j]]>>
      /\ Pending(m, it) = [type |-> it.type, items |-> t]
  BY PendingIs
<1>2. \A j \in 1 .. Len(s) : s[j] = t[j]
  BY <1>1
<1>3. s = t
  BY <1>1, <1>2, SeqIs
<1> QED BY <1>1, <1>3

(* An iterator has the items it had while the content of its nodes stays. *)
LEMMA YetKept ==
  ASSUME NEW m, NEW it, NEW g, NEW d, YetKeptAt(m, it, g, d)
  PROVE  Yet(d, it, g) /\ Pending(d, it) = Pending(m, it)
<1>1. Yet(m, it, g) /\ Yet(d, it, g)
  BY DEF YetKeptAt, Yet
<1>2. PICK s \in Seq(Pair) :
      /\ Len(s) = it.remaining
      /\ \A j \in 1 .. it.remaining : s[j] = <<m.key[g[j]], m.value[g[j]]>>
      /\ Pending(m, it) = [type |-> it.type, items |-> s]
  BY <1>1, PendingIs
<1>3. \A j \in 1 .. it.remaining : s[j] = <<d.key[g[j]], d.value[g[j]]>>
  BY <1>2 DEF YetKeptAt
<1>4. Pending(d, it) = [type |-> it.type, items |-> s]
  BY <1>1, <1>2, <1>3, PendingThat
<1> QED BY <1>1, <1>2, <1>4

(* An iterator in the ring has the nodes from its head on. *)
LEMMA WindowYet ==
  ASSUME NEW m, NEW c, NEW n, NEW it, NEW a, WindowAt(m, c, n, it, a)
  PROVE  /\ Yet(m, it, Onto(c, a, it.remaining))
         /\ \A j \in 1 .. it.remaining : /\ a + j - 1 \in 1 .. n
                                         /\ Onto(c, a, it.remaining)[j] = c[a + j - 1]
<1> DEFINE r == it.remaining
           g == Onto(c, a, r)
<1>1. /\ m \in Map /\ n \in Nat /\ \A i \in 0 .. n : m.prev[c[i]] = c[i + 1]
      /\ \A i \in 0 .. n + 1 : c[i] \in Node
  BY SolidRing DEF WindowAt
<1>2. /\ r \in Nat /\ it \in Iterator /\ a \in 1 .. n + 1 /\ a + r <= n + 1 /\ (r # 0 => it.head = c[a])
  BY DEF WindowAt, Iterator
<1> HIDE DEF r
<1>3. \A j \in 1 .. r : a + j - 1 \in 1 .. n /\ g[j] = c[a + j - 1]
  BY <1>1, <1>2 DEF Onto
<1>4. g \in [1 .. r -> Node]
  <2>1. \A j \in 1 .. r : c[a + j - 1] \in Node
    BY <1>1, <1>2
  <2> QED BY <2>1 DEF Onto
<1> HIDE DEF g
<1>5. r # 0 => g[1] = it.head
  <2>1. r # 0 => 1 \in 1 .. r /\ a + 1 - 1 = a
    BY <1>1, <1>2
  <2> QED BY <1>2, <1>3, <2>1
<1>6. ASSUME NEW j \in 1 .. r - 1
      PROVE  m.prev[g[j]] = g[j + 1]
  <2>1. j \in 1 .. r /\ j + 1 \in 1 .. r /\ a + (j + 1) - 1 = (a + j - 1) + 1 /\ a + j - 1 \in 0 .. n
    BY <1>1, <1>2
  <2>2. g[j] = c[a + j - 1] /\ g[j + 1] = c[(a + j - 1) + 1]
    BY <1>3, <2>1
  <2> QED BY <1>1, <2>1, <2>2
<1>7. Yet(m, it, g)
  BY <1>1, <1>2, <1>4, <1>5, <1>6 DEF Yet, r
<1> QED BY <1>3, <1>7 DEF g, r

(* What entries() has yielded can change without a change of what is to come. *)
LEMMA SeenPending ==
  ASSUME NEW m, NEW c, NEW n, NEW i, NEW h, NEW d, NEW e, NEW it, SeenAt(m, c, n, i, h, d, e, it)
  PROVE  Pending(d, it) = Pending(m, it)
<1> DEFINE r == it.remaining
<1>1. /\ SolidOf(m, c, n) /\ i \in 1 .. n /\ c[i] \in h /\ it \in Iterator /\ r \in Nat /\ n \in Nat
      /\ \A j \in 1 .. n - 1 : e[j] = IF j < i THEN c[j] ELSE c[j + 1]
  BY EntriesIs DEF SeenAt, Iterator, Shifted
<1>2. PICK a \in 1 .. n + 1 : /\ a + r <= n + 1 /\ (r # 0 => it.head = c[a])
                              /\ \A j \in a .. a + r - 1 : c[j] \notin h
  BY DEF InRing, SeenAt
<1>3. i < a \/ i >= a + r
  <2>1. i \in a .. a + r - 1 => FALSE
    BY <1>1, <1>2
  <2> QED BY <1>1, <2>1
<1> HIDE DEF r
<1>4. PICK b \in 1 .. n : b + r <= n /\ (i < a => b = a - 1) /\ (~(i < a) => b = a)
  <2>1. CASE i < a
    <3>1. a - 1 \in 1 .. n /\ (a - 1) + r <= n
      BY <1>1, <1>2, <2>1
    <3> QED BY <2>1, <3>1
  <2>2. CASE ~(i < a)
    <3>1. a \in 1 .. n /\ a + r <= n
      BY <1>1, <1>2, <1>3, <2>2
    <3> QED BY <2>2, <3>1
  <2> QED BY <2>1, <2>2
<1>5. ASSUME NEW j \in 1 .. r
      PROVE  /\ a + j - 1 \in 1 .. n /\ e[b + j - 1] = c[a + j - 1] /\ c[a + j - 1] # c[i]
  <2>0. a + j - 1 \in a .. a + r - 1 /\ a + j - 1 \in 1 .. n /\ b + j - 1 \in 1 .. n - 1
    BY <1>1, <1>2, <1>4
  <2>1. c[a + j - 1] # c[i]
    BY <1>1, <1>2, <2>0
  <2>2. CASE i < a
    <3>1. b + j - 1 = a + j - 2 /\ ~(a + j - 2 < i) /\ (a + j - 2) + 1 = a + j - 1
      BY <1>1, <1>2, <1>4, <2>2
    <3> QED BY <1>1, <2>0, <2>1, <3>1
  <2>3. CASE ~(i < a)
    <3>1. b + j - 1 = a + j - 1 /\ a + j - 1 < i
      BY <1>1, <1>2, <1>3, <1>4, <2>3
    <3> QED BY <1>1, <2>0, <2>1, <3>1
  <2> QED BY <2>2, <2>3
<1>6. r # 0 => it.head = e[b]
  <2>1. r # 0 => 1 \in 1 .. r /\ a + 1 - 1 = a /\ b + 1 - 1 = b
    BY <1>1, <1>2, <1>4
  <2> QED BY <1>2, <1>5, <2>1
<1>7. /\ Yet(m, it, Onto(c, a, r)) /\ \A j \in 1 .. r : Onto(c, a, r)[j] = c[a + j - 1]
  <2>1. WindowAt(m, c, n, it, a)
    BY <1>1, <1>2 DEF WindowAt, r
  <2> QED BY ONLY <2>1, WindowYet DEF r
<1>8. /\ Yet(d, it, Onto(e, b, r)) /\ \A j \in 1 .. r : Onto(e, b, r)[j] = e[b + j - 1]
  <2>1. PICK w : SolidOf(d, e, w) /\ (w = n \/ w = n - 1)
    BY DEF SeenAt
  <2>2. WindowAt(d, e, w, it, b)
    <3>1. b \in 1 .. w + 1 /\ b + r <= w + 1
      BY <1>1, <1>4, <2>1
    <3> QED BY <1>1, <1>6, <2>1, <3>1 DEF WindowAt, r
  <2> QED BY ONLY <2>2, WindowYet DEF r
<1> DEFINE g == Onto(c, a, r)
<1>9. Onto(e, b, r) = g
  BY <1>5 DEF Onto
<1>10. \A j \in 1 .. r : d.key[g[j]] = m.key[g[j]] /\ d.value[g[j]] = m.value[g[j]]
  <2>1. \A j \in 1 .. n : c[j] \in Members(c, n)
    BY DEF Members
  <2>2. \A q \in Members(c, n) : q # c[i] => d.key[q] = m.key[q] /\ d.value[q] = m.value[q]
    BY DEF SeenAt
  <2> HIDE DEF g
  <2> QED BY <1>5, <1>7, <2>1, <2>2 DEF g
<1> HIDE DEF g
<1>11. YetKeptAt(m, it, g, d)
  <2>1. Yet(m, it, g) /\ Yet(d, it, g)
    BY <1>7, <1>8, <1>9 DEF g
  <2> QED BY <1>10, <2>1 DEF YetKeptAt, Yet, r
<1> QED BY <1>11, YetKept

(* The same for every iterator and for the keys of the entries held. *)
LEMMA HeldKept ==
  ASSUME NEW c, NEW n, NEW i, NEW d, NEW e, NEW g, HeldAbsAt(c, n, i, d, e, g)
  PROVE  /\ AllPending(d, iters) = AllPending(map, iters)
         /\ g = held => HeldKeys(d, g) = HeldKeys(map, held)
         /\ g = held \ {c[i]} => HeldKeys(d, g) = HeldKeys(map, held) \ {map.key[c[i]]}
         /\ map.key[c[i]] \in HeldKeys(map, held)
<1>1. /\ SolidOf(map, c, n) /\ i \in 1 .. n /\ c[i] \in held
      /\ held \subseteq Members(c, n) /\ iters \in Seq(Iterator)
  BY DEF HeldAbsAt, HeldSide, SolidOf
<1>2. AllPending(d, iters) = AllPending(map, iters)
  <2>1. CASE iters = <<>>
    BY <2>1 DEF AllPending
  <2>2. CASE Len(iters) = 1 /\ iters[1].type = "Entries" /\ InRing(c, n, iters[1], held)
    <3> DEFINE it == iters[1]
               h == held
               m == map
    <3>1. it \in Iterator /\ DOMAIN iters = 1 .. 1
      <4>1. DOMAIN iters = 1 .. Len(iters) /\ \A j \in DOMAIN iters : iters[j] \in Iterator
        BY <1>1
      <4> QED BY <2>2, <4>1
    <3>2. SeenAt(m, c, n, i, h, d, e, it)
      BY <2>2, <3>1 DEF HeldAbsAt, SeenAt
    <3> HIDE DEF it, h, m
    <3>3. Pending(d, it) = Pending(m, it)
      BY ONLY <3>2, SeenPending
    <3> QED BY <3>1, <3>3 DEF AllPending, it, m
  <2> QED BY <1>1, <2>1, <2>2 DEF HeldAbsAt, HeldSide, SolidOf
<1>3. \A q \in held : q # c[i] => d.key[q] = map.key[q] /\ map.key[q] # map.key[c[i]]
  <2>1. \A q \in Members(c, n) : Index!get(map.index, map.key[q]) = q
    BY EntriesIs, <1>1 DEF Members
  <2>2. \A q \in Members(c, n) : q # c[i] => d.key[q] = map.key[q]
    BY DEF HeldAbsAt
  <2>3. c[i] \in Members(c, n)
    BY <1>1
  <2>4. ASSUME NEW q \in held, q # c[i]
        PROVE  d.key[q] = map.key[q] /\ map.key[q] # map.key[c[i]]
    BY <1>1, <2>1, <2>2, <2>3, <2>4
  <2> QED BY <2>4
<1>4. g = held \ {c[i]} => HeldKeys(d, g) = HeldKeys(map, held) \ {map.key[c[i]]}
  BY <1>1, <1>3 DEF HeldKeys
<1>5. g = held => HeldKeys(d, g) = HeldKeys(map, held)
  <2>1. g = held => d.key = map.key
    BY <1>1 DEF HeldAbsAt
  <2> QED BY <2>1 DEF HeldKeys
<1> QED BY <1>1, <1>2, <1>4, <1>5 DEF HeldKeys

(* An entry that is held is in the ring, at a key of the map. *)
LEMMA HeldSolid ==
  ASSUME Safe(map, iters, held), NEW p \in held
  PROVE  \E c, n : /\ HeldSide(map, c, iters, held) /\ SolidOf(map, c, n)
                   /\ map.key[p] \in Keys /\ \E i \in 1 .. n : c[i] = p
<1>1. PICK c : HeldSide(map, c, iters, held)
  BY HeldIs
<1> QED BY <1>1, HeldEntry DEF SolidOf

(* OccupiedEntry::insert: the item goes to the back with its new value. *)
LEMMA OccupiedInsertAbs ==
  ASSUME Safe(map, iters, held), NEW p \in held, NEW v \in Given[map.key[p]], OccupiedInsert(p, v)
  PROVE  Abs!HeldInsert(map.key[p], v)
<1>1. /\ map' = Refreshed([ensure_guard_node(map) EXCEPT !.value[p] = v], p)
      /\ iters' = iters /\ held' = held /\ returned' = <<map.value[p]>>
  BY DEF OccupiedInsert, Call
<1>2. PICK c, n : /\ HeldSide(map, c, iters, held) /\ SolidOf(map, c, n)
                  /\ map.key[p] \in Keys /\ \E i \in 1 .. n : c[i] = p
  BY HeldSolid
<1>3. PICK i \in 1 .. n : c[i] = p
  BY <1>2
<1> DEFINE d == map'
           e == Moved(c, n, i)
           k == map.key[p]
<1>4. v \in Values
  BY <1>2, GivenIs
<1>5. Renewed(map, c, n, i, v, d)
  <2>1. d = Refreshed([ensure_guard_node(map) EXCEPT !.value[c[i]] = v], c[i]) /\ Solid(map, c) /\ n = map.index.n
    BY <1>1, <1>2, <1>3 DEF SolidOf
  <2> HIDE DEF d
  <2> QED BY <1>4, <2>1, RewriteIs
<1>6. ItemsOf(d) = Append(RemoveAt(ItemsOf(map), i), <<map.key[c[i]], v>>)
  <2> HIDE DEF d
  <2> QED BY <1>2, <1>4, <1>5, RenewedItems
<1>7. c[i] = At(k)
  BY <1>2, <1>3, EntriesIs DEF At
<1>8. Abs!Found(k) = <<map.value[p]>> /\ Abs!Others(k) = RemoveAt(ItemsOf(map), i)
  <2> HIDE DEF k
  <2>1. k \in Keys
    BY <1>2 DEF k
  <2> QED BY <1>2, <1>3, <1>7, <2>1, AbsPresent
<1>9. SolidOf(d, e, n) /\ d.key = map.key /\ \A q \in Node : q # c[i] => d.value[q] = map.value[q]
  BY <1>2, <1>5 DEF Renewed, SolidOf
<1>10. Shifted(c, e, n, i)
  BY <1>2, MovedShifted
<1>11. HeldAbsAt(c, n, i, d, e, held)
  <2>1. \A q \in Members(c, n) : q \in Node
    BY <1>2, SolidFacts DEF SolidOf
  <2> HIDE DEF d, e
  <2> QED BY <1>2, <1>3, <1>9, <1>10, <2>1 DEF HeldAbsAt
<1>12. /\ AllPending(d, iters) = AllPending(map, iters)
       /\ HeldKeys(d, held) = HeldKeys(map, held) /\ k \in HeldKeys(map, held)
  <2> DEFINE g == held
  <2>1. HeldAbsAt(c, n, i, d, e, g)
    BY <1>11
  <2> HIDE DEF d, e, g, k
  <2>2. /\ AllPending(d, iters) = AllPending(map, iters)
        /\ g = held => HeldKeys(d, g) = HeldKeys(map, held)
        /\ map.key[c[i]] \in HeldKeys(map, held)
    BY ONLY <2>1, HeldKept
  <2> QED BY <1>3, <2>2 DEF g, k
<1>13. d.present = map.present
  BY <1>2, <1>9, SolidFacts DEF SolidOf
<1> QED BY <1>1, <1>3, <1>6, <1>8, <1>12, <1>13 DEF Abs!HeldInsert

(* OccupiedEntry::remove: the item goes, and the entry is no longer held. *)
LEMMA OccupiedRemoveAbs ==
  ASSUME Safe(map, iters, held), NEW p \in held, OccupiedRemove(p)
  PROVE  Abs!HeldRemove(map.key[p])
<1>1. /\ map' = remove(map, map.key[p])
      /\ iters' = iters /\ held' = held \ {p} /\ returned' = Found(map.key[p])
  BY DEF OccupiedRemove
<1>2. PICK c, n : /\ HeldSide(map, c, iters, held) /\ SolidOf(map, c, n)
                  /\ map.key[p] \in Keys /\ \E i \in 1 .. n : c[i] = p
  BY HeldSolid
<1>3. PICK i \in 1 .. n : c[i] = p
  BY <1>2
<1> DEFINE d == map'
           e == Cut(c, n, i)
           k == map.key[p]
<1>4. Lost(map, c, n, Nobody, i, d)
  <2>1. d = remove(map, map.key[c[i]]) /\ Solid(map, c) /\ n = map.index.n
    BY <1>1, <1>2, <1>3 DEF SolidOf
  <2> HIDE DEF d
  <2> QED BY <2>1, RemoveIs
<1>5. ItemsOf(d) = RemoveAt(ItemsOf(map), i) /\ SolidOf(d, e, n - 1)
  <2> HIDE DEF d
  <2> QED BY <1>2, <1>4, LostItems
<1>6. c[i] = At(k)
  BY <1>2, <1>3, EntriesIs DEF At
<1>7. Abs!Found(k) = Found(k) /\ Abs!Others(k) = RemoveAt(ItemsOf(map), i)
  <2> HIDE DEF k
  <2>1. k \in Keys
    BY <1>2 DEF k
  <2> QED BY <1>2, <1>3, <1>6, <2>1, AbsPresent
<1>8. Shifted(c, e, n, i)
  BY <1>2, CutShifted
<1> DEFINE g == held \ {c[i]}
<1>9. HeldAbsAt(c, n, i, d, e, g)
  <2>1. \A q \in Members(c, n) : q # c[i] => d.key[q] = map.key[q] /\ d.value[q] = map.value[q]
    BY <1>4 DEF Lost
  <2> HIDE DEF d, e
  <2> QED BY <1>2, <1>3, <1>5, <1>8, <2>1 DEF HeldAbsAt
<1>10. /\ AllPending(d, iters) = AllPending(map, iters)
       /\ HeldKeys(d, g) = HeldKeys(map, held) \ {k} /\ k \in HeldKeys(map, held)
  <2>1. g = held \ {c[i]}
    OBVIOUS
  <2> HIDE DEF d, e, g, k
  <2>2. /\ AllPending(d, iters) = AllPending(map, iters)
        /\ g = held \ {c[i]} => HeldKeys(d, g) = HeldKeys(map, held) \ {map.key[c[i]]}
        /\ map.key[c[i]] \in HeldKeys(map, held)
    BY ONLY <1>9, HeldKept
  <2> QED BY <1>3, <2>1, <2>2 DEF k
<1>11. d.present = map.present
  BY <1>4 DEF Lost
<1>12. held' = g
  BY <1>1, <1>3
<1> HIDE DEF g
<1> QED BY <1>1, <1>5, <1>7, <1>10, <1>11, <1>12 DEF Abs!HeldRemove

(* An entry is given up: the other keys held are those of other nodes. *)
LEMMA OccupiedDropAbs ==
  ASSUME Safe(map, iters, held), NEW p \in held, OccupiedDrop(p)
  PROVE  Abs!HeldDrop(map.key[p])
<1>1. map' = map /\ iters' = iters /\ held' = held \ {p} /\ returned' = <<>>
  BY DEF OccupiedDrop
<1>2. PICK c, n : HeldSide(map, c, iters, held) /\ SolidOf(map, c, n)
  BY HeldSolid
<1>3. \A q \in held : q # p => map.key[q] # map.key[p]
  <2>1. held \subseteq Members(c, n)
    BY <1>2 DEF HeldSide, SolidOf
  <2>2. \A q \in Members(c, n) : Index!get(map.index, map.key[q]) = q
    BY <1>2, EntriesIs DEF Members
  <2> QED BY <2>1, <2>2
<1>4. HeldKeys(map, held') = HeldKeys(map, held) \ {map.key[p]} /\ map.key[p] \in HeldKeys(map, held)
  BY <1>1, <1>3 DEF HeldKeys
<1> QED BY <1>1, <1>4 DEF Abs!HeldDrop

(* entry: the caller holds the entry of a key that is in the map. *)
LEMMA EntryOccupiedAbs ==
  ASSUME Safe(map, iters, held), NEW k \in Keys, EntryOccupied(k)
  PROVE  Abs!HoldEntry(k)
<1>1. /\ Writable /\ At(k) # Null /\ held' = {At(k)} /\ map' = map /\ iters' = iters /\ returned' = <<>>
  BY DEF EntryOccupied
<1>2. PICK c, n : SolidOf(map, c, n)
  BY <1>1, WritableEntry
<1>3. PICK i \in 1 .. n : c[i] = At(k)
  BY <1>1, <1>2, WritableEntry
<1>4. Abs!Has(k) /\ map.key[At(k)] = k
  BY <1>2, <1>3, AbsPresent
<1>5. HeldKeys(map, held') = {k}
  BY <1>1, <1>4 DEF HeldKeys
<1>6. Abs!Writable
  <2>1. iters = <<>> /\ held = {} /\ map.present
    BY <1>1 DEF Writable
  <2>2. AllPending(map, iters) = <<>> /\ HeldKeys(map, held) = {}
    BY <2>1 DEF AllPending, HeldKeys
  <2> QED BY <2>1, <2>2 DEF Abs!Writable
<1> QED BY <1>1, <1>4, <1>5, <1>6 DEF Abs!HoldEntry

(* The path from the head of an iterator goes over the nodes it has left. *)
LEMMA YetPath ==
  ASSUME NEW m, NEW it, NEW g, Yet(m, it, g)
  PROVE  Path(m.prev, it.head, it.remaining) = g
<1> DEFINE r == it.remaining
<1>1. r \in Nat /\ it.head \in Node /\ m.prev \in [Node -> Node]
  BY MapFacts DEF Yet, Iterator
<1>2. g \in [1 .. r -> Node] /\ (r # 0 => g[1] = it.head) /\ \A j \in 1 .. r - 1 : g[j + 1] = m.prev[g[j]]
  BY DEF Yet
<1> HIDE DEF r
<1>3. Path(m.prev, it.head, r) = g
  BY <1>1, <1>2, PathIsThat
<1> QED BY <1>3 DEF r

(* The items to be yielded, as one predicate. *)
LEMMA YetItemsAre ==
  ASSUME NEW m, NEW it, NEW g, Yet(m, it, g), NEW s, Pending(m, it) = [type |-> it.type, items |-> s]
  PROVE  YetItems(m, it, g, s)
<1>0. Yet(m, it, g)
  OBVIOUS
<1>1. PICK t \in Seq(Pair) :
      /\ Len(t) = it.remaining
      /\ \A j \in 1 .. it.remaining : t[j] = <<m.key[g[j]], m.value[g[j]]>>
      /\ Pending(m, it) = [type |-> it.type, items |-> t]
  BY ONLY <1>0, PendingIs
<1>2. s = t
  BY <1>1
<1> QED BY <1>1, <1>2 DEF YetItems

(* And back. *)
LEMMA YetItemsThat ==
  ASSUME NEW m, NEW it, NEW g, NEW s, YetItems(m, it, g, s)
  PROVE  Pending(m, it) = [type |-> it.type, items |-> s]
BY PendingThat DEF YetItems

(* An item that leaves at the front leaves the rest to be yielded. *)
LEMMA YetFront ==
  ASSUME NEW m, NEW it, NEW g, NEW d, NEW jt, NEW s, NEW u, FrontLeaves(m, it, g, d, jt, s, u)
  PROVE  s # <<>> /\ Item(m, g[1]) = Head(s) /\ Pending(d, jt) = [type |-> it.type, items |-> u]
<1> DEFINE r == it.remaining
<1>0. /\ Leaves(m, it, g, 1, d) /\ jt = [[it EXCEPT !.head = m.prev[@]] EXCEPT !.remaining = @ - 1]
      /\ s \in Seq(Pair) /\ Pending(m, it) = [type |-> it.type, items |-> s] /\ u = Tail(s)
  BY DEF FrontLeaves
<1>1. /\ Yet(m, it, g) /\ m \in Map /\ it \in Iterator /\ r \in Nat /\ 1 \in 1 .. r /\ d \in Map
      /\ g \in [1 .. r -> Node] /\ it.head = g[1]
      /\ \A j \in 1 .. r - 1 : m.prev[g[j]] = g[j + 1]
      /\ \A a, b \in 1 .. r : g[a] = g[b] => a = b
      /\ \A q \in Node : q # g[1] => d.prev[q] = m.prev[q] /\ d.key[q] = m.key[q] /\ d.value[q] = m.value[q]
  BY <1>0 DEF Leaves, Yet, Iterator
<1>2. Len(s) = r /\ \A j \in 1 .. r : s[j] = <<m.key[g[j]], m.value[g[j]]>>
  <2>1. Yet(m, it, g) /\ Pending(m, it) = [type |-> it.type, items |-> s]
    BY <1>0, <1>1
  <2>2. YetItems(m, it, g, s)
    BY ONLY <2>1, YetItemsAre
  <2> QED BY <2>2 DEF YetItems
<1>3. /\ jt \in Iterator /\ jt.type = it.type /\ jt.remaining = r - 1 /\ jt.head = m.prev[g[1]]
  <2>1. m.prev[it.head] \in Node /\ r - 1 \in Nat
    BY <1>1, MapFacts DEF Iterator
  <2> QED BY <1>0, <1>1, <2>1 DEF Iterator
<1> HIDE DEF r
<1> DEFINE h == [j \in 1 .. r - 1 |-> g[j + 1]]
<1>4. /\ h \in [1 .. r - 1 -> Node]
      /\ \A j \in 1 .. r - 1 : h[j] = g[j + 1] /\ j + 1 \in 1 .. r /\ g[j + 1] # g[1] /\ g[j + 1] \in Node
  <2>1. \A j \in 1 .. r - 1 : j + 1 \in 1 .. r /\ j + 1 # 1
    BY <1>1
  <2> QED BY <1>1, <2>1
<1> HIDE DEF h
<1>5. Yet(d, jt, h)
  <2>1. r - 1 # 0 => h[1] = jt.head
    <3>1. r - 1 # 0 => 1 \in 1 .. r - 1 /\ 1 + 1 = 2
      BY <1>1
    <3> QED BY <1>1, <1>3, <1>4, <3>1
  <2>2. ASSUME NEW j \in 1 .. (r - 1) - 1
        PROVE  d.prev[h[j]] = h[j + 1]
    <3>1. j \in 1 .. r - 1 /\ j + 1 \in 1 .. r - 1
      BY <1>1
    <3>2. h[j] = g[j + 1] /\ h[j + 1] = g[(j + 1) + 1] /\ d.prev[g[j + 1]] = m.prev[g[j + 1]]
      BY <1>1, <1>4, <3>1
    <3> QED BY <1>1, <3>1, <3>2
  <2> QED BY <1>1, <1>3, <1>4, <2>1, <2>2 DEF Yet
<1>6. s # <<>> /\ Head(s) = s[1] /\ Tail(s) \in Seq(Pair) /\ Len(Tail(s)) = r - 1
      /\ \A j \in 1 .. r - 1 : Tail(s)[j] = s[j + 1]
  <2>1. s # <<>>
    BY <1>1, <1>2
  <2>2. s \in Seq(Pair)
    BY <1>0
  <2> QED BY <1>2, <2>1, <2>2, TailIs
<1>7. \A j \in 1 .. r - 1 : Tail(s)[j] = <<d.key[h[j]], d.value[h[j]]>>
  <2>1. ASSUME NEW j \in 1 .. r - 1
        PROVE  Tail(s)[j] = <<d.key[h[j]], d.value[h[j]]>>
    <3>1. h[j] = g[j + 1] /\ d.key[g[j + 1]] = m.key[g[j + 1]] /\ d.value[g[j + 1]] = m.value[g[j + 1]]
      BY <1>1, <1>4
    <3>2. Tail(s)[j] = <<m.key[g[j + 1]], m.value[g[j + 1]]>>
      BY <1>2, <1>4, <1>6
    <3> QED BY <3>1, <3>2
  <2> QED BY <2>1
<1>8. Pending(d, jt) = [type |-> jt.type, items |-> u]
  <2>1. u \in Seq(Pair) /\ Len(u) = jt.remaining /\ \A j \in 1 .. jt.remaining : u[j] = <<d.key[h[j]], d.value[h[j]]>>
    BY <1>0, <1>3, <1>6, <1>7
  <2>2. YetItems(d, jt, h, u)
    BY <1>5, <2>1 DEF YetItems
  <2> QED BY ONLY <2>2, YetItemsThat
<1> QED BY <1>1, <1>2, <1>3, <1>6, <1>8 DEF Item

(* An item that leaves at the back leaves the rest to be yielded. *)
LEMMA YetBack ==
  ASSUME NEW m, NEW it, NEW g, NEW d, NEW t, NEW jt, NEW s, NEW u, BackLeaves(m, it, g, d, t, jt, s, u)
  PROVE  s # <<>> /\ Item(m, g[it.remaining]) = Last(s) /\ Pending(d, jt) = [type |-> it.type, items |-> u]
<1> DEFINE r == it.remaining
<1>0. /\ Leaves(m, it, g, it.remaining, d) /\ t \in Node
      /\ jt = [[it EXCEPT !.tail = t] EXCEPT !.remaining = @ - 1]
      /\ s \in Seq(Pair) /\ Pending(m, it) = [type |-> it.type, items |-> s] /\ u = Front(s)
  BY DEF BackLeaves
<1>1. /\ Yet(m, it, g) /\ m \in Map /\ it \in Iterator /\ r \in Nat /\ r \in 1 .. r /\ d \in Map
      /\ g \in [1 .. r -> Node] /\ it.head = g[1]
      /\ \A j \in 1 .. r - 1 : m.prev[g[j]] = g[j + 1]
      /\ \A a, b \in 1 .. r : g[a] = g[b] => a = b
      /\ \A q \in Node : q # g[r] => d.prev[q] = m.prev[q] /\ d.key[q] = m.key[q] /\ d.value[q] = m.value[q]
  BY <1>0 DEF Leaves, Yet, Iterator
<1>2. Len(s) = r /\ \A j \in 1 .. r : s[j] = <<m.key[g[j]], m.value[g[j]]>>
  <2>1. Yet(m, it, g) /\ Pending(m, it) = [type |-> it.type, items |-> s]
    BY <1>0, <1>1
  <2>2. YetItems(m, it, g, s)
    BY ONLY <2>1, YetItemsAre
  <2> QED BY <2>2 DEF YetItems
<1>3. /\ jt \in Iterator /\ jt.type = it.type /\ jt.remaining = r - 1 /\ jt.head = g[1]
  <2>1. r - 1 \in Nat
    BY <1>1
  <2> QED BY <1>0, <1>1, <2>1 DEF Iterator
<1> HIDE DEF r
<1> DEFINE h == [j \in 1 .. r - 1 |-> g[j]]
<1>4. /\ h \in [1 .. r - 1 -> Node]
      /\ \A j \in 1 .. r - 1 : h[j] = g[j] /\ j \in 1 .. r /\ g[j] # g[r] /\ g[j] \in Node
  <2>1. \A j \in 1 .. r - 1 : j \in 1 .. r /\ j # r
    BY <1>1
  <2> QED BY <1>1, <2>1
<1> HIDE DEF h
<1>5. Yet(d, jt, h)
  <2>1. r - 1 # 0 => h[1] = jt.head
    <3>1. r - 1 # 0 => 1 \in 1 .. r - 1
      BY <1>1
    <3> QED BY <1>3, <1>4, <3>1
  <2>2. ASSUME NEW j \in 1 .. (r - 1) - 1
        PROVE  d.prev[h[j]] = h[j + 1]
    <3>1. j \in 1 .. r - 1 /\ j + 1 \in 1 .. r - 1
      BY <1>1
    <3>2. h[j] = g[j] /\ h[j + 1] = g[j + 1] /\ d.prev[g[j]] = m.prev[g[j]]
      BY <1>1, <1>4, <3>1
    <3> QED BY <1>1, <3>1, <3>2
  <2> QED BY <1>1, <1>3, <1>4, <2>1, <2>2 DEF Yet
<1>6. s # <<>> /\ Last(s) = s[r] /\ u \in Seq(Pair) /\ Len(u) = r - 1
      /\ \A j \in 1 .. r - 1 : u[j] = s[j]
  BY <1>0, <1>1, <1>2 DEF Front, Last
<1>7. \A j \in 1 .. r - 1 : u[j] = <<d.key[h[j]], d.value[h[j]]>>
  <2>1. ASSUME NEW j \in 1 .. r - 1
        PROVE  u[j] = <<d.key[h[j]], d.value[h[j]]>>
    <3>1. h[j] = g[j] /\ d.key[g[j]] = m.key[g[j]] /\ d.value[g[j]] = m.value[g[j]]
      BY <1>1, <1>4
    <3>2. u[j] = <<m.key[g[j]], m.value[g[j]]>>
      BY <1>2, <1>4, <1>6
    <3> QED BY <3>1, <3>2
  <2> QED BY <2>1
<1>8. Pending(d, jt) = [type |-> jt.type, items |-> u]
  <2>1. YetItems(d, jt, h, u)
    BY <1>3, <1>5, <1>6, <1>7 DEF YetItems
  <2> QED BY ONLY <2>1, YetItemsThat
<1>9. Item(m, g[r]) = Last(s)
  BY <1>1, <1>2, <1>6 DEF Item
<1> QED BY <1>3, <1>6, <1>8, <1>9 DEF r

(* Iter, IterMut and entries() stand on nodes of the ring. *)
LEMMA RingStands ==
  ASSUME NEW m, NEW c, NEW n, NEW it, NEW h, RingPlace(m, c, n, it, h)
  PROVE  \E g : StandsOn(m, it, g) /\ \A j \in 1 .. it.remaining : \E i \in 1 .. n : g[j] = c[i]
<1> DEFINE r == it.remaining
<1>1. SolidOf(m, c, n) /\ it \in Iterator /\ it.type \in RingKind /\ InRing(c, n, it, h) /\ r \in Nat
  BY DEF RingPlace, Iterator
<1>2. PICK a \in 1 .. n + 1 :
      /\ a + r <= n + 1 /\ (it.type \in {"Iter", "IterMut"} => it.head = c[a] /\ it.tail = c[a + r])
      /\ (it.type = "Entries" /\ r # 0 => it.head = c[a])
  BY <1>1 DEF InRing
<1>3. /\ m \in Map /\ n \in Nat /\ \A i \in 0 .. n : m.next[c[i + 1]] = c[i]
      /\ \A i, j \in 1 .. n + 1 : c[i] = c[j] => i = j
  <2>1. PICK f, k : Linked(m, c, n, f, k, Nobody)
    BY <1>1 DEF SolidOf, Solid
  <2>2. Ring(m, c, n) /\ m \in Map
    BY <2>1 DEF Linked
  <2> QED BY <2>2, RingFacts
<1>4. WindowAt(m, c, n, it, a)
  BY <1>1, <1>2 DEF WindowAt, RingKind
<1> DEFINE g == Onto(c, a, r)
<1>5. /\ Yet(m, it, g) /\ \A j \in 1 .. r : a + j - 1 \in 1 .. n /\ g[j] = c[a + j - 1]
  BY ONLY <1>4, WindowYet
<1> HIDE DEF g
<1>6. Ended(it) <=> r = 0
  <2>1. CASE it.type \in {"Iter", "IterMut"}
    <3>1. Ended(it) <=> c[a] = c[a + r]
      BY <1>2, <2>1 DEF Ended
    <3>2. a \in 1 .. n + 1 /\ a + r \in 1 .. n + 1 /\ (a = a + r <=> r = 0)
      BY <1>1, <1>2, <1>3
    <3> QED BY <1>3, <3>1, <3>2
  <2>2. CASE it.type \notin {"Iter", "IterMut"}
    BY <2>2 DEF Ended
  <2> QED BY <2>1, <2>2
<1>7. it.type # "Entries" /\ r # 0 => BackNode(m, it) = g[r]
  <2> SUFFICES ASSUME it.type # "Entries", r # 0 PROVE BackNode(m, it) = g[r]
    OBVIOUS
  <2>1. it.type \in {"Iter", "IterMut"} /\ it.tail = c[a + r]
    BY <1>1, <1>2 DEF RingKind
  <2>2. r \in 1 .. r /\ a + r - 1 \in 0 .. n /\ (a + r - 1) + 1 = a + r
    BY <1>1, <1>2, <1>3
  <2>3. m.next[c[(a + r - 1) + 1]] = c[a + r - 1] /\ g[r] = c[a + r - 1]
    BY <1>3, <1>5, <2>2
  <2> QED BY <2>1, <2>2, <2>3 DEF BackNode
<1>8. \A b, d \in 1 .. r : g[b] = g[d] => b = d
  <2> SUFFICES ASSUME NEW b \in 1 .. r, NEW d \in 1 .. r, g[b] = g[d] PROVE b = d
    OBVIOUS
  <2>1. a + b - 1 \in 1 .. n + 1 /\ a + d - 1 \in 1 .. n + 1 /\ c[a + b - 1] = c[a + d - 1]
    BY <1>3, <1>5
  <2>2. a + b - 1 = a + d - 1
    BY <1>3, <2>1
  <2> QED BY <1>1, <2>2
<1>9. StandsOn(m, it, g)
  BY <1>5, <1>6, <1>7, <1>8 DEF StandsOn
<1> QED BY <1>5, <1>9

(* A drain stands on nodes of the free list. *)
LEMMA ChainStands ==
  ASSUME NEW m, NEW f, NEW k, NEW it, ChainPlace(m, f, k, it)
  PROVE  \E g : StandsOn(m, it, g) /\ \A j \in 1 .. it.remaining : g[j] \in Spares(f, k)
<1> DEFINE r == it.remaining
<1>1. m \in Map /\ Chain(m, f, k) /\ it \in Iterator /\ it.type = "Drain" /\ InChain(m, f, k, it) /\ r \in Nat
  BY DEF ChainPlace, Iterator
<1>2. PICK a \in 0 .. k : /\ a + r <= k
                          /\ (r # 0 => it.tail = f[a] /\ it.head = f[a + r - 1])
                          /\ \A j \in a .. a + r - 2 : m.prev[f[j + 1]] = f[j]
  BY <1>1 DEF InChain
<1>3. /\ k \in Nat /\ \A j \in 0 .. k - 1 : f[j] \in Addr
      /\ \A i, j \in 0 .. k - 1 : f[i] = f[j] => i = j
  BY <1>1, ChainFacts
<1> HIDE DEF r
<1> DEFINE g == [j \in 1 .. r |-> f[a + r - j]]
<1>4. ASSUME NEW j \in 1 .. r
      PROVE  g[j] = f[a + r - j] /\ a + r - j \in 0 .. k - 1 /\ g[j] \in Node /\ g[j] \in Spares(f, k)
  <2>1. a + r - j \in 0 .. k - 1
    BY <1>1, <1>2, <1>3
  <2>2. g[j] = f[a + r - j]
    OBVIOUS
  <2> QED BY <1>3, <2>1, <2>2 DEF Node, Spares
<1>5. g \in [1 .. r -> Node]
  BY <1>4
<1> HIDE DEF g
<1>6. r # 0 => g[1] = it.head /\ g[r] = it.tail
  <2> SUFFICES ASSUME r # 0 PROVE g[1] = it.head /\ g[r] = it.tail
    OBVIOUS
  <2>1. 1 \in 1 .. r /\ r \in 1 .. r /\ a + r - r = a
    BY <1>1, <1>2, <1>3
  <2>2. g[1] = f[a + r - 1] /\ g[r] = f[a + r - r]
    BY <1>4, <2>1
  <2> QED BY <1>2, <2>1, <2>2
<1>7. ASSUME NEW j \in 1 .. r - 1
      PROVE  m.prev[g[j]] = g[j + 1]
  <2>1. j \in 1 .. r /\ j + 1 \in 1 .. r /\ a + r - (j + 1) \in a .. a + r - 2 /\ (a + r - (j + 1)) + 1 = a + r - j
    BY <1>1, <1>2, <1>3
  <2>2. g[j] = f[a + r - j] /\ g[j + 1] = f[a + r - (j + 1)]
    BY <1>4, <2>1
  <2>3. m.prev[f[(a + r - (j + 1)) + 1]] = f[a + r - (j + 1)]
    BY <1>2, <2>1
  <2> QED BY <2>1, <2>2, <2>3
<1>8. \A b, d \in 1 .. r : g[b] = g[d] => b = d
  <2> SUFFICES ASSUME NEW b \in 1 .. r, NEW d \in 1 .. r, g[b] = g[d] PROVE b = d
    OBVIOUS
  <2>1. a + r - b = a + r - d
    BY <1>3, <1>4
  <2> QED BY <1>1, <1>2, <2>1
<1>9. Yet(m, it, g)
  BY <1>1, <1>5, <1>6, <1>7 DEF Yet, r
<1>10. StandsOn(m, it, g)
  <2>1. Ended(it) <=> it.remaining = 0
    BY <1>1 DEF Ended
  <2>2. it.remaining # 0 => BackNode(m, it) = g[it.remaining]
    BY <1>1, <1>6 DEF BackNode, r
  <2> QED BY <1>8, <1>9, <2>1, <2>2 DEF StandsOn, r
<1> QED BY <1>4, <1>10 DEF r

(* An IntoIter stands on the nodes it owns. *)
LEMMA OwnStands ==
  ASSUME NEW m, NEW it, OwnPlace(m, it)
  PROVE  \E g : StandsOn(m, it, g) /\ OwnSet(m, it) = {g[j] : j \in 1 .. it.remaining} /\ Own(m, it) = g
<1>1. m \in Map /\ it \in Iterator /\ it.type = "IntoIter" /\ Owns(m, it)
  BY DEF OwnPlace
<1>2. PICK g : OwnsAt(m, it, g, it.remaining) /\ Own(m, it) = g
  BY <1>1, OwnFacts
<1>3. OwnSet(m, it) = {g[j] : j \in 1 .. it.remaining}
  BY <1>2, OwnsThat
<1>4. Yet(m, it, g)
  BY <1>2 DEF OwnsAt, Yet
<1>5. Ended(it) <=> it.remaining = 0
  BY <1>1 DEF Ended
<1>6. it.remaining # 0 => BackNode(m, it) = g[it.remaining]
  BY <1>1, <1>2 DEF BackNode, OwnsAt
<1>7. StandsOn(m, it, g)
  BY <1>2, <1>4, <1>5, <1>6 DEF StandsOn, OwnsAt
<1> QED BY <1>2, <1>3, <1>7

(* Every iterator stands on distinct nodes, and ends where they end. *)
LEMMA IterStands ==
  ASSUME Safe(map, iters, held), NEW i \in DOMAIN iters
  PROVE  /\ \E g : StandsOn(map, iters[i], g)
         /\ iters[i] \in Iterator /\ map \in Map /\ DOMAIN iters = 1 .. Len(iters) /\ Len(iters) \in Nat
<1> DEFINE it == iters[i]
           m == map
<1>0. m \in Map /\ DOMAIN iters = 1 .. Len(iters) /\ Len(iters) \in Nat /\ it \in Iterator
  BY SoundFacts DEF Safe
<1>1. CASE it.type \in RingKind
  <2>1. PICK c : RingSide(m, c, iters, held)
    BY <1>1, RingSideIs
  <2> DEFINE n == m.index.n
             h == held
  <2>2. RingPlace(m, c, n, it, h)
    BY <1>0, <1>1, <2>1 DEF RingSide, RingPlace, SolidOf
  <2> HIDE DEF m, it, n, h
  <2>3. \E g : StandsOn(m, it, g)
    BY ONLY <2>2, RingStands
  <2> QED BY <1>0, <2>3 DEF m, it
<1>2. CASE it.type = "Drain"
  <2>1. i = 1
    BY <1>2, DrainSideIs
  <2>2. PICK c, f, k : DrainSide(m, c, f, k, iters, held)
    BY <1>2, DrainSideIs
  <2>3. ChainPlace(m, f, k, it)
    BY <1>0, <1>2, <2>1, <2>2 DEF DrainSide, ChainPlace, Linked
  <2> HIDE DEF m, it
  <2>4. \E g : StandsOn(m, it, g)
    BY ONLY <2>3, ChainStands
  <2> QED BY <1>0, <2>4 DEF m, it
<1>3. CASE it.type = "IntoIter"
  <2>1. GoneSide(m, iters)
    BY <1>3, GoneAt, GoneIs
  <2>2. OwnPlace(m, it)
    BY <1>0, <1>3, <2>1 DEF GoneSide, OwnPlace
  <2> HIDE DEF m, it
  <2>3. \E g : StandsOn(m, it, g)
    BY ONLY <2>2, OwnStands
  <2> QED BY <1>0, <2>3 DEF m, it
<1> QED BY <1>0, <1>1, <1>2, <1>3 DEF Iterator, Kind, RingKind

(* The nodes of an iterator, as a path. *)
LEMMA YetOwn ==
  ASSUME NEW m, NEW it, NEW g, StandsOn(m, it, g)
  PROVE  Own(m, it) = g
BY YetPath DEF StandsOn, Own

(* Iter and entries() yield an item: nothing changes but the keys held. *)
LEMMA TakenShared ==
  ASSUME NEW i, NEW j, NEW p, NEW d, NEW h, Takes(i, j, p, d, h), iters[i].type \in {"Iter", "Entries"}
  PROVE  Taken(i, p, d, h)
<1>1. d = map /\ map \in Map
  BY IterStands DEF Takes, YieldNode
<1>2. HeldKeys(d, h) = IF iters[i].type = "Entries" THEN HeldKeys(map, held) \cup {map.key[p]}
                       ELSE HeldKeys(map, held)
  BY <1>1 DEF Takes, HeldKeys
<1> QED BY <1>1, <1>2 DEF Taken

(* IterMut yields an item: the caller may write its value. *)
LEMMA TakenMut ==
  ASSUME NEW i, NEW j, NEW p, NEW d, NEW h, Takes(i, j, p, d, h), iters[i].type = "IterMut"
  PROVE  Taken(i, p, d, h)
<1> DEFINE it == iters[i]
           m == map
           n == m.index.n
<1>1. /\ Safe(map, iters, held) /\ i \in DOMAIN iters /\ j \in 1 .. it.remaining
      /\ p = Own(m, it)[j] /\ h = held
      /\ \E v \in Given[m.key[p]] : d = [m EXCEPT !.value[p] = v]
  BY DEF Takes, YieldNode
<1>2. it.type \in RingKind /\ it.type # "Iter" /\ it \in Iterator
  BY <1>1, IterStands DEF RingKind
<1>3. held = {} /\ DOMAIN iters = 1 .. 1 /\ i = 1
  BY <1>1, <1>2, RingSideIs
<1>4. PICK c : RingSide(m, c, iters, held)
  BY <1>1, <1>2, RingSideIs
<1>5. SolidOf(m, c, n) /\ InRing(c, n, it, held)
  BY <1>1, <1>4 DEF RingSide, SolidOf
<1>6. PICK a \in 1 .. n : p = c[a]
  <2> DEFINE u == held
  <2>1. RingPlace(m, c, n, it, u)
    BY <1>2, <1>5 DEF RingPlace
  <2> HIDE DEF m, it, n, u
  <2>2. PICK g : StandsOn(m, it, g) /\ \A b \in 1 .. it.remaining : \E a \in 1 .. n : g[b] = c[a]
    BY ONLY <2>1, RingStands
  <2>3. Own(m, it) = g
    BY ONLY <2>2, YetOwn
  <2> QED BY <1>1, <2>2, <2>3
<1>7. m.key[c[a]] \in Keys
  BY ONLY <1>5, EntriesIs
<1>8. PICK v \in Given[m.key[p]] : d = [m EXCEPT !.value[p] = v]
  BY <1>1
<1>9. v \in Values
  BY <1>6, <1>7, <1>8, GivenIs
<1>10. WroteAt(m, c, n, a, v, d)
  BY <1>5, <1>6, <1>8, <1>9 DEF WroteAt, SolidOf
<1>11. /\ Solid(d, c) /\ d.index = m.index /\ d.key = m.key /\ d.prev = m.prev
       /\ d.value[c[a]] = v /\ \A q \in Node : q # c[a] => d.value[q] = m.value[q]
  <2> HIDE DEF m, n
  <2> QED BY ONLY <1>10, WroteIs
<1>12. SolidOf(d, c, n)
  BY <1>11 DEF SolidOf
<1>13. ItemsOf(d) = Abs!Updated(map.key[c[a]], v)
  <2>1. SolidOf(map, c, n) /\ d.key = map.key /\ \A q \in Node : q # c[a] => d.value[q] = map.value[q]
    BY <1>5, <1>11
  <2> HIDE DEF n, m
  <2> QED BY <1>9, <1>11, <1>12, <2>1, AbsUpdated
<1>14. d \in Map /\ d.present = map.present
  BY <1>5, <1>11, SolidFacts DEF SolidOf
<1>15. HeldKeys(d, h) = HeldKeys(map, held)
  BY <1>1, <1>3 DEF HeldKeys
<1> QED BY <1>3, <1>6, <1>8, <1>11, <1>13, <1>14, <1>15 DEF Taken

(* Nodes of the free list lose their content: no item is one of them. *)
LEMMA SparesGone ==
  ASSUME NEW m, NEW c, NEW f, NEW k, NEW S, NEW d, ForgottenAt(m, c, f, k, S, d)
  PROVE  Faded(m, S, d)
<1> DEFINE n == m.index.n
<1>1. /\ Linked(d, c, d.index.n, f, k, Nobody) /\ Tells(d, Members(c, d.index.n)) /\ d.present = TRUE
  BY SparesForgotten
<1>2. /\ Linked(m, c, n, f, k, Nobody) /\ Tells(m, Members(c, n)) /\ m.present = TRUE /\ S \subseteq Spares(f, k)
      /\ m \in Map /\ d = Forgotten(m, S)
  BY DEF ForgottenAt, Linked
<1>6. Outside(d, m, S) /\ \A q \in Node : d.prev[q] = IF q \in S THEN Null ELSE m.prev[q]
  BY <1>2, ForgottenIs
<1>7. /\ d.index = m.index /\ d.present = m.present
      /\ \A q \in Node \ S : d.prev[q] = m.prev[q] /\ d.key[q] = m.key[q] /\ d.value[q] = m.value[q]
  BY <1>6 DEF Outside
<1>3. SolidOf(m, c, n) /\ SolidOf(d, c, n) /\ d \in Map
  BY <1>1, <1>2, <1>7 DEF SolidOf, Solid, Linked
<1>4. \A q \in Members(c, n) : d.key[q] = m.key[q] /\ d.value[q] = m.value[q]
  <2>1. Members(c, n) \cap Spares(f, k) = {} /\ Members(c, n) \subseteq Node
    BY <1>2, <1>3, SolidFacts DEF Linked, SolidOf
  <2> QED BY <1>2, <1>7, <2>1
<1> HIDE DEF n
<1>5. ItemsOf(d) = ItemsOf(m)
  BY <1>3, <1>4, SolidItems
<1> QED BY <1>3, <1>5, <1>7 DEF Faded

(* A drain yields an item: the node keeps its place in the free list. *)
LEMMA TakenDrain ==
  ASSUME NEW i, NEW j, NEW p, NEW d, NEW h, Takes(i, j, p, d, h), iters[i].type = "Drain"
  PROVE  Taken(i, p, d, h)
<1> DEFINE it == iters[i]
           S == {p}
<1>1. /\ Safe(map, iters, held) /\ i \in DOMAIN iters /\ j \in 1 .. it.remaining
      /\ p = Own(map, it)[j] /\ h = held /\ d = Forgotten(map, S)
  BY DEF Takes, YieldNode
<1>2. i = 1 /\ it \in Iterator /\ DOMAIN iters = 1 .. 1
  BY <1>1, DrainSideIs, IterStands
<1>3. PICK c, f, k : DrainSide(map, c, f, k, iters, held)
  BY <1>1, DrainSideIs
<1>4. held = {} /\ InChain(map, f, k, it) /\ map \in Map /\ Chain(map, f, k)
  BY <1>2, <1>3 DEF DrainSide, Linked
<1>5. p \in Spares(f, k)
  <2>1. ChainPlace(map, f, k, it)
    BY <1>1, <1>2, <1>4 DEF ChainPlace
  <2> HIDE DEF it
  <2>2. PICK g : StandsOn(map, it, g) /\ \A b \in 1 .. it.remaining : g[b] \in Spares(f, k)
    BY ONLY <2>1, ChainStands
  <2>3. Own(map, it) = g
    BY ONLY <2>2, YetOwn
  <2> QED BY <1>1, <2>2, <2>3
<1>6. ForgottenAt(map, c, f, k, S, d)
  BY <1>1, <1>3, <1>5 DEF ForgottenAt, DrainSide
<1> HIDE DEF S, it
<1>7. Faded(map, S, d)
  BY ONLY <1>6, SparesGone
<1>8. HeldKeys(d, h) = HeldKeys(map, held)
  BY <1>1, <1>4 DEF HeldKeys
<1>9. \A q \in Node : q # p => d.prev[q] = map.prev[q] /\ d.key[q] = map.key[q] /\ d.value[q] = map.value[q]
  BY <1>7 DEF S, Faded
<1>10. \A l \in DOMAIN iters : l = i
  BY <1>2
<1>11. d \in Map /\ d.present = map.present /\ ItemsOf(d) = ItemsOf(map)
  BY <1>7 DEF Faded
<1> QED BY <1>8, <1>9, <1>10, <1>11 DEF Taken

(* Nodes that an IntoIter frees are in no other iterator. *)
LEMMA FreedPending ==
  ASSUME NEW m, NEW its, NEW i, NEW S, NEW d, FreedAt(m, its, i, S, d)
  PROVE  FreedLeaves(m, its, i, S, d)
<1> DEFINE Y == Loose(m, its) \ S
<1>1. GoneSide(m, its) /\ i \in DOMAIN its /\ S \subseteq OwnSet(m, its[i]) /\ d = Freed(m, S)
  BY DEF FreedAt
<1>2. /\ m \in Map /\ d \in Map /\ Consumed(d, Y)
      /\ \A q \in Node \ S : d.next[q] = m.next[q] /\ d.prev[q] = m.prev[q]
      /\ \A l \in DOMAIN its : its[l] \in Iterator
  <2>1. Y = Loose(m, its) \ S
    OBVIOUS
  <2> HIDE DEF Y
  <2> QED BY <2>1, FreedOthers
<1>3. \A q \in Node \ S : d.key[q] = m.key[q] /\ d.value[q] = m.value[q]
  BY <1>1, <1>2, FreedIs DEF Outside
<1>4. ASSUME NEW l \in DOMAIN its, l # i
      PROVE  Pending(d, its[l]) = Pending(m, its[l])
  <2> DEFINE jt == its[l]
  <2>1. OwnPlace(m, jt)
    BY <1>1, <1>2 DEF GoneSide, OwnPlace
  <2>2. OwnSet(m, jt) \cap OwnSet(m, its[i]) = {}
    BY <1>1, <1>4 DEF GoneSide
  <2> HIDE DEF jt
  <2>3. PICK g : StandsOn(m, jt, g) /\ OwnSet(m, jt) = {g[b] : b \in 1 .. jt.remaining} /\ Own(m, jt) = g
    BY ONLY <2>1, OwnStands
  <2>4. Yet(m, jt, g)
    BY <2>3 DEF StandsOn
  <2>5. \A b \in 1 .. jt.remaining : g[b] \in Node \ S
    BY <1>1, <2>2, <2>3, <2>4 DEF Yet
  <2>6. YetKeptAt(m, jt, g, d)
    <3>1. jt.remaining \in Nat
      BY <2>4 DEF Yet, Iterator
    <3>2. \A b \in 1 .. jt.remaining - 1 : b \in 1 .. jt.remaining
      BY <3>1
    <3> QED BY <1>2, <1>3, <2>4, <2>5, <3>2 DEF YetKeptAt
  <2>7. Pending(d, jt) = Pending(m, jt)
    BY ONLY <2>6, YetKept
  <2> QED BY <2>7 DEF jt
<1>5. ItemsOf(d) = <<>> /\ d.present = FALSE
  BY <1>2, GoneItems DEF Consumed
<1>6. ItemsOf(m) = <<>> /\ m.present = FALSE
  <2>1. Consumed(m, Loose(m, its))
    BY <1>1 DEF GoneSide
  <2> QED BY <2>1, GoneItems DEF Consumed
<1> QED BY <1>2, <1>3, <1>4, <1>5, <1>6 DEF FreedLeaves

(* An IntoIter yields an item and frees its node. *)
LEMMA TakenOwn ==
  ASSUME NEW i, NEW j, NEW p, NEW d, NEW h, Takes(i, j, p, d, h), iters[i].type = "IntoIter"
  PROVE  Taken(i, p, d, h)
<1> DEFINE it == iters[i]
           m == map
           S == {p}
           its == iters
<1>1. /\ Safe(map, iters, held) /\ i \in DOMAIN iters /\ j \in 1 .. it.remaining
      /\ p = Own(m, it)[j] /\ h = held /\ d = Freed(m, S)
  BY DEF Takes, YieldNode, drop_empty_node
<1>2. GoneSide(m, its) /\ held = {}
  BY <1>1, GoneAt, GoneIs
<1>3. p \in OwnSet(m, it)
  <2>1. OwnPlace(m, it)
    BY <1>1, <1>2, IterStands DEF GoneSide, OwnPlace
  <2> HIDE DEF m, it
  <2>2. PICK g : StandsOn(m, it, g) /\ OwnSet(m, it) = {g[b] : b \in 1 .. it.remaining} /\ Own(m, it) = g
    BY ONLY <2>1, OwnStands
  <2> QED BY <1>1, <2>2
<1>4. FreedAt(m, its, i, S, d)
  BY <1>1, <1>2, <1>3 DEF FreedAt
<1>5. FreedLeaves(m, its, i, S, d)
  <2> HIDE DEF m, its, S
  <2> QED BY ONLY <1>4, FreedPending
<1>6. HeldKeys(d, h) = HeldKeys(map, held)
  BY <1>1, <1>2 DEF HeldKeys
<1> QED BY <1>1, <1>5, <1>6 DEF Taken, FreedLeaves

(* What yielding an item changes, for every kind of iterator. *)
LEMMA TakenIs ==
  ASSUME NEW i, NEW j, NEW p, NEW d, NEW h, Takes(i, j, p, d, h)
  PROVE  Taken(i, p, d, h)
<1>1. iters[i].type \in Kind
  BY IterStands DEF Takes, Iterator
<1> QED BY <1>1, TakenShared, TakenMut, TakenDrain, TakenOwn DEF Kind

(* One iterator has yielded an item, the others have what they had. *)
LEMMA AllStepped ==
  ASSUME NEW i, NEW s, NEW jt, NEW u, NEW d, NEW its, StepsAt(i, s, jt, u, d, its)
  PROVE  /\ AllPending(d, its) = [AllPending(map, iters) EXCEPT ![i].items = u]
         /\ AllPending(map, iters)[i].items = s /\ AllPending(map, iters)[i].type = iters[i].type
<1> DEFINE a == AllPending(map, iters)
           b == AllPending(d, its)
           x == [type |-> iters[i].type, items |-> u]
           y == [type |-> iters[i].type, items |-> s]
<1>1. /\ i \in DOMAIN iters /\ DOMAIN its = DOMAIN iters /\ its[i] = jt
      /\ \A l \in DOMAIN iters : l # i => its[l] = iters[l]
  BY DEF StepsAt
<1>2. a = [l \in DOMAIN iters |-> Pending(map, iters[l])]
  BY DEF AllPending
<1>3. b = [l \in DOMAIN iters |-> Pending(d, its[l])]
  BY <1>1 DEF AllPending
<1> HIDE DEF a, b
<1>4. a[i] = y /\ Pending(d, jt) = x
  BY <1>1, <1>2 DEF StepsAt
<1>5. \A l \in DOMAIN iters : l # i => Pending(d, its[l]) = a[l]
  BY <1>1, <1>2 DEF StepsAt
<1>6. y.items = s /\ y.type = iters[i].type /\ [y EXCEPT !.items = u] = x
  OBVIOUS
<1> HIDE DEF x, y
<1>7. b = [a EXCEPT ![i] = x]
  BY <1>1, <1>2, <1>3, <1>4, <1>5
<1>8. [a EXCEPT ![i].items = u] = [a EXCEPT ![i] = [y EXCEPT !.items = u]]
  BY <1>4
<1> QED BY <1>4, <1>6, <1>7, <1>8 DEF a, b

(* Yielding an item, as OrderedMap sees it. *)
LEMMA YieldAbs ==
  ASSUME NEW i, NEW p, NEW s, NEW jt, NEW u, Yielding(i, p, s, jt, u)
  PROVE  Abs!Yield(i, Item(map, p), u)
<1> DEFINE d == map'
           its == iters'
           a == AllPending(map, iters)
<1>1. Taken(i, p, d, held') /\ s # <<>> /\ returned' = Item(map, p)
  BY DEF Yielding
<1>2. StepsAt(i, s, jt, u, d, its)
  BY <1>1 DEF Yielding, StepsAt, Taken
<1>3. /\ AllPending(d, its) = [a EXCEPT ![i].items = u] /\ a[i].items = s /\ a[i].type = iters[i].type
  <2> HIDE DEF d, its
  <2> QED BY ONLY <1>2, AllStepped DEF a
<1>4. Item(map, p)[1] = map.key[p]
  BY DEF Item
<1>5. /\ d.present = map.present
      /\ HeldKeys(d, held') = IF a[i].type = "Entries" THEN HeldKeys(map, held) \cup {Item(map, p)[1]}
                              ELSE HeldKeys(map, held)
      /\ IF a[i].type = "IterMut" THEN \E v \in Given[Item(map, p)[1]] : ItemsOf(d) = Abs!Updated(Item(map, p)[1], v)
         ELSE ItemsOf(d) = ItemsOf(map)
  BY <1>1, <1>3, <1>4 DEF Taken
<1> HIDE DEF a, d, its
<1>6. a[i].items # <<>>
  BY <1>1, <1>3
<1> QED BY <1>1, <1>3, <1>5, <1>6 DEF Abs!Yield, a, d, its

(* There is an item to be yielded as long as remaining is not 0. *)
LEMMA PendingItems ==
  ASSUME NEW m, NEW it, NEW g, StandsOn(m, it, g)
  PROVE  \E s \in Seq(Pair) : Pending(m, it) = [type |-> it.type, items |-> s] /\ Len(s) = it.remaining
<1>1. Yet(m, it, g)
  BY DEF StandsOn
<1>2. PICK s \in Seq(Pair) :
      /\ Len(s) = it.remaining
      /\ \A j \in 1 .. it.remaining : s[j] = <<m.key[g[j]], m.value[g[j]]>>
      /\ Pending(m, it) = [type |-> it.type, items |-> s]
  BY ONLY <1>1, PendingIs
<1> QED BY <1>2

(* next: the first of the items left. *)
LEMMA NextAbs ==
  ASSUME Safe(map, iters, held), NEW i \in DOMAIN iters, next(i)
  PROVE  Abs!NextItem(i)
<1> DEFINE it == iters[i]
           r == it.remaining
           jt == [[it EXCEPT !.head = map.prev[@]] EXCEPT !.remaining = @ - 1]
           d == map'
           m == map
           p == it.head
<1>1. PICK g : StandsOn(m, it, g)
  BY IterStands
<1>2. it \in Iterator /\ m \in Map /\ r \in Nat /\ DOMAIN iters = 1 .. Len(iters)
  BY IterStands DEF Iterator
<1>3. [it EXCEPT !.head = map.prev[@]].type = it.type
  BY <1>2 DEF Iterator
<1>4. /\ ~Ended(it) /\ iters' = [iters EXCEPT ![i] = jt] /\ returned' = Item(m, p)
      /\ YieldNode([it EXCEPT !.head = map.prev[@]], p, d)
      /\ held' = IF it.type = "Entries" THEN held \cup {p} ELSE held
  BY <1>3 DEF next, Yields
<1>5. YieldNode(it, p, d)
  BY <1>3, <1>4 DEF YieldNode
<1>6. r # 0 /\ 1 \in 1 .. r /\ p = g[1] /\ Own(m, it) = g /\ Yet(m, it, g)
  <2>1. r # 0 /\ Yet(m, it, g)
    BY <1>1, <1>4 DEF StandsOn
  <2>2. Own(m, it) = g
    BY <1>1, YetOwn
  <2> QED BY <1>2, <2>1, <2>2 DEF Yet
<1>7. Taken(i, p, d, held')
  <2> DEFINE h == held'
  <2>1. Takes(i, 1, p, d, h)
    BY <1>4, <1>5, <1>6 DEF Takes
  <2> HIDE DEF p, d, h
  <2>2. Taken(i, p, d, h)
    BY ONLY <2>1, TakenIs
  <2> QED BY <2>2 DEF h
<1>8. PICK s \in Seq(Pair) : Pending(m, it) = [type |-> it.type, items |-> s]
  BY ONLY <1>1, PendingItems
<1>9. Leaves(m, it, g, 1, d)
  <2>1. \A a, b \in 1 .. it.remaining : g[a] = g[b] => a = b
    BY <1>1 DEF StandsOn
  <2>2. d \in Map /\ \A q \in Node : q # g[1] => d.prev[q] = m.prev[q] /\ d.key[q] = m.key[q] /\ d.value[q] = m.value[q]
    BY <1>6, <1>7 DEF Taken
  <2> QED BY <1>6, <2>1, <2>2 DEF Leaves
<1>10. /\ s # <<>> /\ Item(m, g[1]) = Head(s)
       /\ Pending(d, jt) = [type |-> it.type, items |-> Tail(s)]
  <2> DEFINE u == Tail(s)
  <2>1. FrontLeaves(m, it, g, d, jt, s, u)
    BY <1>8, <1>9 DEF FrontLeaves
  <2> HIDE DEF jt, d, it, m, u
  <2>2. s # <<>> /\ Item(m, g[1]) = Head(s) /\ Pending(d, jt) = [type |-> it.type, items |-> u]
    BY ONLY <2>1, YetFront
  <2> QED BY <2>2 DEF u
<1>11. Abs!Yield(i, Item(map, p), Tail(s))
  <2> DEFINE u == Tail(s)
  <2>1. Yielding(i, p, s, jt, u)
    BY <1>2, <1>4, <1>7, <1>8, <1>10 DEF Yielding
  <2> HIDE DEF jt, u, p
  <2>2. Abs!Yield(i, Item(map, p), u)
    BY ONLY <2>1, YieldAbs
  <2> QED BY <2>2 DEF u
<1>12. Item(map, p) = Head(s)
  BY <1>6, <1>10
<1>13. AllPending(map, iters)[i].items = s
  BY <1>8 DEF AllPending
<1> QED BY <1>11, <1>12, <1>13 DEF Abs!NextItem

(* next_back: the last of the items left. *)
LEMMA NextBackAbs ==
  ASSUME Safe(map, iters, held), NEW i \in DOMAIN iters, next_back(i)
  PROVE  Abs!NextBack(i)
<1> DEFINE it == iters[i]
           r == it.remaining
           m == map
           t == m.next[it.tail]
           jt == [[it EXCEPT !.tail = t] EXCEPT !.remaining = @ - 1]
           d == map'
           p == BackNode(m, it)
<1>1. PICK g : StandsOn(m, it, g)
  BY IterStands
<1>2. it \in Iterator /\ m \in Map /\ r \in Nat /\ DOMAIN iters = 1 .. Len(iters) /\ t \in Node
  <2>1. it \in Iterator /\ m \in Map /\ DOMAIN iters = 1 .. Len(iters)
    BY IterStands
  <2> QED BY <2>1, MapFacts DEF Iterator
<1>3. [it EXCEPT !.tail = t].type = it.type
  BY <1>2 DEF Iterator
<1>4. /\ ~Ended(it) /\ iters' = [iters EXCEPT ![i] = jt] /\ returned' = Item(m, p)
      /\ YieldNode([it EXCEPT !.tail = t], p, d) /\ it.type # "Entries"
      /\ held' = IF it.type = "Entries" THEN held \cup {p} ELSE held
  BY <1>3 DEF next_back, Yields, BackNode
<1>5. YieldNode(it, p, d)
  BY <1>3, <1>4 DEF YieldNode
<1>6. r # 0 /\ r \in 1 .. r /\ p = g[r] /\ Own(m, it) = g /\ Yet(m, it, g)
  <2>1. r # 0 /\ Yet(m, it, g) /\ p = g[r]
    BY <1>1, <1>4 DEF StandsOn
  <2>2. Own(m, it) = g
    BY <1>1, YetOwn
  <2> QED BY <1>2, <2>1, <2>2
<1>7. Taken(i, p, d, held')
  <2> DEFINE h == held'
  <2>1. Takes(i, r, p, d, h)
    BY <1>4, <1>5, <1>6 DEF Takes
  <2> HIDE DEF p, d, h, r
  <2>2. Taken(i, p, d, h)
    BY ONLY <2>1, TakenIs
  <2> QED BY <2>2 DEF h
<1>8. PICK s \in Seq(Pair) : Pending(m, it) = [type |-> it.type, items |-> s]
  BY ONLY <1>1, PendingItems
<1>9. Leaves(m, it, g, it.remaining, d)
  <2>1. \A a, b \in 1 .. it.remaining : g[a] = g[b] => a = b
    BY <1>1 DEF StandsOn
  <2>2. d \in Map /\ \A q \in Node : q # g[it.remaining] => d.prev[q] = m.prev[q] /\ d.key[q] = m.key[q] /\ d.value[q] = m.value[q]
    BY <1>6, <1>7 DEF Taken
  <2> QED BY <1>6, <2>1, <2>2 DEF Leaves
<1>10. /\ s # <<>> /\ Item(m, g[it.remaining]) = Last(s)
       /\ Pending(d, jt) = [type |-> it.type, items |-> Front(s)]
  <2> DEFINE u == Front(s)
  <2>1. BackLeaves(m, it, g, d, t, jt, s, u)
    BY <1>2, <1>8, <1>9 DEF BackLeaves
  <2> HIDE DEF jt, d, it, m, t, u
  <2>2. /\ s # <<>> /\ Item(m, g[it.remaining]) = Last(s)
        /\ Pending(d, jt) = [type |-> it.type, items |-> u]
    BY ONLY <2>1, YetBack
  <2> QED BY <2>2 DEF u
<1>11. Abs!Yield(i, Item(map, p), Front(s))
  <2> DEFINE u == Front(s)
  <2>1. Yielding(i, p, s, jt, u)
    BY <1>2, <1>4, <1>7, <1>8, <1>10 DEF Yielding
  <2> HIDE DEF jt, u, p
  <2>2. Abs!Yield(i, Item(map, p), u)
    BY ONLY <2>1, YieldAbs
  <2> QED BY <2>2 DEF u
<1>12. Item(map, p) = Abs!Last(s) /\ Front(s) = Abs!Front(s)
  BY <1>6, <1>10, AbsEnds
<1>13. AllPending(map, iters)[i].items = s /\ AllPending(map, iters)[i].type # "Entries"
  BY <1>4, <1>8 DEF AllPending
<1> QED BY <1>11, <1>12, <1>13 DEF Abs!NextBack

(* An iterator that has ended has no items left. *)
LEMMA ExhaustedAbs ==
  ASSUME Safe(map, iters, held), NEW i \in DOMAIN iters, Exhausted(i)
  PROVE  Abs!Exhausted(i)
<1>1. Ended(iters[i]) /\ map' = map /\ returned' = <<>> /\ iters' = iters /\ held' = held
  BY DEF Exhausted, Call
<1>2. PICK g : StandsOn(map, iters[i], g)
  BY IterStands
<1>3. iters[i].remaining = 0
  BY <1>1, <1>2 DEF StandsOn
<1>4. PICK s \in Seq(Pair) : Pending(map, iters[i]) = [type |-> iters[i].type, items |-> s] /\ Len(s) = iters[i].remaining
  BY ONLY <1>2, PendingItems
<1>5. s = <<>>
  BY <1>3, <1>4
<1>6. AllPending(map, iters)[i].items = <<>>
  BY <1>4, <1>5 DEF AllPending
<1> QED BY <1>1, <1>6 DEF Abs!Exhausted

(* One iterator is gone, the others have what they had. *)
LEMMA AllDropped ==
  ASSUME NEW i, NEW d, NEW its, DroppedAt(i, d, its)
  PROVE  AllPending(d, its) = Abs!RemoveAt(AllPending(map, iters), i)
<1> DEFINE a == AllPending(map, iters)
           b == AllPending(d, its)
           n == Len(iters)
           S == {a[l] : l \in 1 .. n}
           e == RemoveAt(a, i)
<1>1. i \in DOMAIN iters /\ iters \in Seq(Iterator) /\ DOMAIN iters = 1 .. n /\ n \in Nat
  BY SMTT(60) DEF DroppedAt
<1>2. /\ its \in Seq(Iterator) /\ Len(its) = n - 1
      /\ \A j \in 1 .. n - 1 : its[j] = IF j < i THEN iters[j] ELSE iters[j + 1]
  <2>1. its = RemoveAt(iters, i)
    BY DEF DroppedAt
  <2> QED BY <1>1, <2>1, RemoveAtIs
<1>3. a = [l \in 1 .. n |-> Pending(map, iters[l])]
  BY <1>1 DEF AllPending
<1>4. b = [l \in 1 .. n - 1 |-> Pending(d, its[l])]
  <2>1. DOMAIN its = 1 .. n - 1
    BY <1>2
  <2> QED BY <2>1 DEF AllPending
<1> HIDE DEF a, b
<1>5. a \in Seq(S) /\ Len(a) = n
  <2>1. \A l \in 1 .. n : a[l] \in S
    OBVIOUS
  <2>2. a = [l \in 1 .. n |-> a[l]]
    BY <1>3
  <2> HIDE DEF n, S
  <2> QED BY <1>1, <2>1, <2>2
<1> HIDE DEF S
<1>6. e \in Seq(S) /\ Len(e) = n - 1 /\ \A j \in 1 .. n - 1 : e[j] = IF j < i THEN a[j] ELSE a[j + 1]
  <2> HIDE DEF n
  <2> QED BY <1>1, <1>5, RemoveAtIs
<1> HIDE DEF e
<1>7. ASSUME NEW j \in 1 .. n - 1
      PROVE  b[j] = e[j]
  <2>1. j \in 1 .. n /\ j + 1 \in 1 .. n /\ j \in DOMAIN iters /\ j + 1 \in DOMAIN iters /\ i \in 1 .. n
    BY <1>1
  <2>2. CASE j < i
    <3>1. its[j] = iters[j] /\ e[j] = a[j] /\ j # i
      BY <1>1, <1>2, <1>6, <2>2
    <3>2. Pending(d, iters[j]) = Pending(map, iters[j])
      BY <2>1, <3>1 DEF DroppedAt
    <3> QED BY <1>3, <1>4, <2>1, <3>1, <3>2
  <2>3. CASE ~(j < i)
    <3>1. its[j] = iters[j + 1] /\ e[j] = a[j + 1] /\ j + 1 # i
      BY <1>1, <1>2, <1>6, <2>3
    <3>2. Pending(d, iters[j + 1]) = Pending(map, iters[j + 1])
      BY <2>1, <3>1 DEF DroppedAt
    <3> QED BY <1>3, <1>4, <2>1, <3>1, <3>2
  <2> QED BY <2>2, <2>3
<1>8. b = e
  <2>1. DOMAIN e = 1 .. n - 1 /\ e = [j \in 1 .. n - 1 |-> e[j]]
    BY <1>1, <1>6
  <2> QED BY <1>4, <1>7, <2>1
<1> QED BY <1>8, AbsRemoveAt DEF a, b, e

(* A dropped drain takes no content from the map. *)
LEMMA DropDrainKeeps ==
  ASSUME Safe(map, iters, held), NEW i \in DOMAIN iters, iters[i].type = "Drain", DropIter(i)
  PROVE  Dropping(i, map')
<1> DEFINE it == iters[i]
           S == ToSet(Path(map.prev, it.head, it.remaining))
           d == map'
<1>1. d = Forgotten(map, S)
  BY DEF DropIter
<1>2. i = 1 /\ it \in Iterator /\ DOMAIN iters = 1 .. 1
  BY DrainSideIs, IterStands
<1>3. PICK c, f, k : DrainSide(map, c, f, k, iters, held)
  BY DrainSideIs
<1>4. held = {} /\ InChain(map, f, k, it) /\ map \in Map /\ Chain(map, f, k)
  BY <1>2, <1>3 DEF DrainSide, Linked
<1>5. S \subseteq Spares(f, k)
  <2> HIDE DEF it
  <2> QED BY <1>2, <1>4, DrainPath
<1> HIDE DEF S, d, it
<1>6. ForgottenAt(map, c, f, k, S, d)
  BY <1>1, <1>3, <1>5 DEF ForgottenAt, DrainSide
<1>7. Faded(map, S, d)
  BY ONLY <1>6, SparesGone
<1>8. HeldKeys(d, held) = HeldKeys(map, held)
  BY <1>4 DEF HeldKeys
<1>9. \A l \in DOMAIN iters : l = i
  BY <1>2
<1> QED BY <1>7, <1>8, <1>9 DEF Dropping, Faded, d

(* A dropped IntoIter takes no node of another. *)
LEMMA DropOwnKeeps ==
  ASSUME Safe(map, iters, held), NEW i \in DOMAIN iters, iters[i].type = "IntoIter", DropIter(i)
  PROVE  Dropping(i, map')
<1> DEFINE it == iters[i]
           m == map
           S == OwnSet(m, it)
           its == iters
           d == map'
<1>1. GoneSide(m, its) /\ held = {}
  BY GoneAt, GoneIs
<1>2. m \in Map /\ it \in Iterator /\ Owns(m, it)
  BY <1>1, IterStands DEF GoneSide
<1>3. d = Freed(m, S)
  <2>1. ToSet(Path(m.next, it.tail, it.remaining)) = S
    <3> HIDE DEF it, m
    <3>1. it.type = "IntoIter"
      BY DEF it
    <3> QED BY <1>2, <3>1, OwnBack
  <2>2. d = Freed(m, ToSet(Path(m.next, it.tail, it.remaining)))
    BY DEF DropIter
  <2> QED BY <2>1, <2>2
<1>4. FreedAt(m, its, i, S, d)
  BY <1>1, <1>3 DEF FreedAt
<1>5. FreedLeaves(m, its, i, S, d)
  <2> HIDE DEF m, its, S, d
  <2> QED BY ONLY <1>4, FreedPending
<1>6. HeldKeys(d, held) = HeldKeys(map, held)
  BY <1>1 DEF HeldKeys
<1> QED BY <1>5, <1>6 DEF Dropping, FreedLeaves

(* A drop of an iterator. *)
LEMMA DropIterAbs ==
  ASSUME Safe(map, iters, held), NEW i \in DOMAIN iters, DropIter(i)
  PROVE  Abs!DropIter(i)
<1> DEFINE d == map'
           its == iters'
<1>1. its = RemoveAt(iters, i) /\ returned' = <<>> /\ held' = held
  BY DEF DropIter
<1>2. Dropping(i, d)
  <2>1. CASE iters[i].type = "Drain"
    BY <2>1, DropDrainKeeps
  <2>2. CASE iters[i].type = "IntoIter"
    BY <2>2, DropOwnKeeps
  <2>3. CASE iters[i].type \notin {"Drain", "IntoIter"}
    <3>1. d = map
      BY <2>3 DEF DropIter
    <3> QED BY <3>1 DEF Dropping
  <2> QED BY <2>1, <2>2, <2>3
<1>3. DroppedAt(i, d, its)
  <2>1. iters \in Seq(Iterator)
    BY DEF Safe
  <2> QED BY <1>1, <1>2, <2>1 DEF DroppedAt, Dropping
<1>4. AllPending(d, its) = Abs!RemoveAt(AllPending(map, iters), i)
  <2> HIDE DEF d, its
  <2> QED BY ONLY <1>3, AllDropped
<1> QED BY <1>1, <1>2, <1>4 DEF Abs!DropIter, Dropping

(* One iterator is added, the others have what they had. *)
LEMMA AllAdded ==
  ASSUME NEW d, NEW it, NEW its, NEW x, AddedTo(d, it, its, x)
  PROVE  /\ AllPending(d, its) = Append(AllPending(map, iters), x)
         /\ Len(AllPending(map, iters)) = Len(iters)
<1> DEFINE a == AllPending(map, iters)
           b == AllPending(d, its)
           n == Len(iters)
           S == {a[l] : l \in 1 .. n} \cup {x}
           e == Append(a, x)
<1>1. iters \in Seq(Iterator) /\ DOMAIN iters = 1 .. n /\ n \in Nat
  BY DEF AddedTo
<1>2. /\ DOMAIN its = 1 .. n + 1 /\ its[n + 1] = it
      /\ \A j \in 1 .. n : its[j] = iters[j]
  BY <1>1 DEF AddedTo
<1>3. a = [l \in 1 .. n |-> Pending(map, iters[l])]
  BY <1>1 DEF AllPending
<1>4. b = [l \in 1 .. n + 1 |-> Pending(d, its[l])]
  BY <1>2 DEF AllPending
<1> HIDE DEF a, b
<1>5. a \in Seq(S) /\ Len(a) = n /\ x \in S
  <2>1. (\A l \in 1 .. n : a[l] \in S) /\ x \in S
    OBVIOUS
  <2>2. a = [l \in 1 .. n |-> a[l]]
    BY <1>3
  <2> HIDE DEF n, S
  <2> QED BY <1>1, <2>1, <2>2
<1> HIDE DEF S
<1>6. e \in Seq(S) /\ Len(e) = n + 1 /\ e[n + 1] = x /\ \A j \in 1 .. n : e[j] = a[j]
  <2> HIDE DEF n
  <2> QED BY <1>1, <1>5
<1> HIDE DEF e
<1>7. ASSUME NEW j \in 1 .. n + 1
      PROVE  b[j] = e[j]
  <2>1. CASE j = n + 1
    BY <1>2, <1>4, <1>6, <2>1 DEF AddedTo
  <2>2. CASE j # n + 1
    <3>1. j \in 1 .. n /\ j \in DOMAIN iters
      BY <1>1, <2>2
    <3>2. Pending(d, iters[j]) = Pending(map, iters[j])
      BY <3>1 DEF AddedTo
    <3> QED BY <1>2, <1>3, <1>4, <1>6, <3>1, <3>2
  <2> QED BY <2>1, <2>2
<1>8. b = e
  <2>1. e = [j \in 1 .. n + 1 |-> e[j]]
    BY <1>1, <1>6
  <2> QED BY <1>4, <1>7, <2>1
<1> QED BY <1>5, <1>8 DEF a, b, e

(* A new iterator has all items to yield. *)
LEMMA Begins ==
  ASSUME NEW m, NEW c, NEW n, NEW d, NEW it, BeginAt(m, c, n, d, it)
  PROVE  Pending(d, it) = [type |-> it.type, items |-> ItemsOf(m)]
<1> DEFINE g == [j \in 1 .. n |-> c[j]]
           s == ItemsOf(m)
<1>1. /\ SolidOf(m, c, n) /\ d \in Map /\ it \in Iterator /\ it.remaining = n
      /\ (n # 0 => it.head = c[1])
      /\ \A j \in 1 .. n - 1 : d.prev[c[j]] = c[j + 1]
      /\ \A j \in 1 .. n : d.key[c[j]] = m.key[c[j]] /\ d.value[c[j]] = m.value[c[j]]
  BY DEF BeginAt
<1>2. /\ n \in Nat /\ s \in Seq(Pair) /\ Len(s) = n
      /\ \A j \in 1 .. n : s[j] = <<m.key[c[j]], m.value[c[j]]>> /\ c[j] \in Node
  BY <1>1, EntriesIs
<1>3. g \in [1 .. n -> Node] /\ \A j \in 1 .. n : g[j] = c[j]
  BY <1>2
<1> HIDE DEF g, s
<1>4. Yet(d, it, g)
  <2>1. n # 0 => 1 \in 1 .. n
    BY <1>2
  <2>2. \A j \in 1 .. n - 1 : j \in 1 .. n /\ j + 1 \in 1 .. n
    BY <1>2
  <2>3. \A j \in 1 .. n - 1 : d.prev[g[j]] = g[j + 1]
    BY <1>1, <1>3, <2>2
  <2> QED BY <1>1, <1>3, <2>1, <2>3 DEF Yet
<1>5. ASSUME NEW j \in 1 .. n
      PROVE  s[j] = <<d.key[g[j]], d.value[g[j]]>>
  <2>1. g[j] = c[j] /\ d.key[c[j]] = m.key[c[j]] /\ d.value[c[j]] = m.value[c[j]]
    BY <1>1, <1>3
  <2>2. s[j] = <<m.key[c[j]], m.value[c[j]]>>
    BY <1>2
  <2> QED BY <2>1, <2>2
<1>6. YetItems(d, it, g, s)
  BY <1>1, <1>2, <1>4, <1>5 DEF YetItems
<1>7. Pending(d, it) = [type |-> it.type, items |-> s]
  BY ONLY <1>6, YetItemsThat
<1> QED BY <1>7 DEF s

(* iter, iter_mut and entries. *)
LEMMA IterAbs ==
  ASSUME Safe(map, iters, held), NEW type, iter(type)
  PROVE  Abs!Iterate(type)
<1> DEFINE n == map.index.n
           it == [type |-> type, head |-> First, tail |-> IF type = "Entries" THEN Null ELSE map.head,
                  remaining |-> n]
           m == map
           its == iters'
           x == [type |-> type, items |-> ItemsOf(m)]
<1>1. /\ type \in {"Iter", "IterMut", "Entries"} /\ its = Append(iters, it) /\ map' = map /\ held' = held
      /\ returned' = <<>>
      /\ type = "Iter" => Iterable /\ Len(iters) < MaxIters
      /\ type # "Iter" => Writable
  BY DEF iter, Begin
<1>2. held = {} /\ map.present /\ \A j \in DOMAIN iters : iters[j].type = "Iter"
  BY <1>1 DEF Iterable, Writable
<1>3. PICK c, f, k : Sound(map, iters, held, c, f, k)
  BY DEF Safe
<1>4. iters \in Seq(Iterator)
  BY DEF Safe
<1>5. map.present = TRUE
  BY <1>2, <1>3, <1>4, SoundFacts, MapFacts
<1>6. SolidOf(m, c, n)
  BY <1>3, <1>4, <1>5, SoundSolid DEF SolidOf
<1>7. /\ m \in Map /\ n \in Nat /\ c[0] = m.head /\ c[n + 1] = m.head
      /\ \A j \in 0 .. n : m.prev[c[j]] = c[j + 1]
      /\ (m.head = Null => n = 0)
      /\ \A j \in 0 .. n + 1 : c[j] \in Node
  <2> HIDE DEF n, m
  <2> QED BY ONLY <1>6, SolidRing
<1>8. First = c[1] /\ First \in Node /\ m.head \in Node
  <2>1. 0 \in 0 .. n /\ 0 + 1 = 1 /\ 1 \in 0 .. n + 1
    BY <1>7
  <2>2. m.head = Null => c[1] = Null
    BY <1>7
  <2> QED BY <1>7, <2>1, <2>2, MapFacts DEF First
<1>9. it \in Iterator /\ it.type = type /\ it.head = c[1] /\ it.remaining = n
  <2>1. Null \in Node /\ type \in Kind
    BY <1>1 DEF Kind, Node
  <2> QED BY <1>7, <1>8, <2>1 DEF Iterator
<1> HIDE DEF it
<1>10. Pending(m, it) = x
  <2>1. \A j \in 1 .. n - 1 : m.prev[c[j]] = c[j + 1]
    BY <1>7
  <2>2. BeginAt(m, c, n, m, it)
    BY <1>6, <1>7, <1>9, <2>1 DEF BeginAt
  <2> HIDE DEF m, n
  <2>3. Pending(m, it) = [type |-> it.type, items |-> ItemsOf(m)]
    BY ONLY <2>2, Begins
  <2> QED BY <1>9, <2>3
<1>11. AddedTo(m, it, its, x)
  BY <1>1, <1>4, <1>9, <1>10 DEF AddedTo
<1>12. AllPending(m, its) = Append(AllPending(map, iters), x) /\ Len(AllPending(map, iters)) = Len(iters)
  <2> HIDE DEF m, its, x
  <2> QED BY ONLY <1>11, AllAdded
<1>13. HeldKeys(map, held) = {}
  BY <1>2 DEF HeldKeys
<1>14. type = "Iter" => Abs!Iterable
  <2>1. \A j \in DOMAIN AllPending(map, iters) : AllPending(map, iters)[j].type = "Iter"
    BY <1>2 DEF AllPending, Pending
  <2> QED BY <1>2, <1>13, <2>1 DEF Abs!Iterable
<1>15. type # "Iter" => Abs!Writable
  <2>1. type # "Iter" => AllPending(map, iters) = <<>>
    BY <1>1 DEF AllPending, Writable
  <2> QED BY <1>2, <1>13, <2>1 DEF Abs!Writable
<1>16. /\ AllPending(map', iters') = Append(AllPending(map, iters), [type |-> type, items |-> ItemsOf(map)])
       /\ ItemsOf(map') = ItemsOf(map) /\ HeldKeys(map', held') = HeldKeys(map, held)
       /\ map'.present = TRUE
  BY <1>1, <1>5, <1>12
<1>17. map'.present = (type # "IntoIter")
  BY <1>1, <1>16
<1> HIDE DEF its, x, m, n
<1> QED BY <1>1, <1>12, <1>14, <1>15, <1>16, <1>17 DEF Abs!Iterate

(* A map that gives its entries away, as OrderedMap sees it. *)
LEMMA GivesAwayAbs ==
  ASSUME NEW type, NEW it, GivesAway(type, it)
  PROVE  Abs!Iterate(type)
<1> DEFINE d == map'
           its == iters'
           x == [type |-> type, items |-> ItemsOf(map)]
<1>1. /\ type \in {"Drain", "IntoIter"} /\ it \in Iterator /\ its = Append(iters, it)
      /\ Pending(d, it) = x /\ ItemsOf(d) = <<>> /\ d.present = (type # "IntoIter")
      /\ returned' = <<>> /\ held' = held /\ iters = <<>> /\ held = {} /\ map.present
  BY DEF GivesAway, Writable
<1>2. AddedTo(d, it, its, x)
  <2> HIDE DEF d, its, x
  <2> QED BY <1>1 DEF AddedTo
<1>3. AllPending(d, its) = Append(AllPending(map, iters), x)
  <2> HIDE DEF d, its, x
  <2> QED BY ONLY <1>2, AllAdded
<1>4. AllPending(map, iters) = <<>> /\ HeldKeys(map, held) = {} /\ HeldKeys(map', held') = {}
  BY <1>1 DEF AllPending, HeldKeys
<1>5. Abs!Writable
  BY <1>1, <1>4 DEF Abs!Writable
<1>6. type # "Iter"
  BY <1>1
<1> HIDE DEF x
<1> QED BY <1>1, <1>3, <1>4, <1>5, <1>6 DEF Abs!Iterate, x

(* drain: the items go to the iterator, and the map is empty. *)
LEMMA DrainAbs ==
  ASSUME Safe(map, iters, held), drain
  PROVE  Abs!Iterate("Drain")
<1> DEFINE n == map.index.n
           h == map.prev[map.head]
           t == map.next[map.head]
           it == [type |-> "Drain", head |-> h, tail |-> t, remaining |-> n]
           none == [type |-> "Drain", head |-> Null, tail |-> Null, remaining |-> 0]
           bare == [map EXCEPT !.index = Index!new]
           m == map
           type == "Drain"
<1>1. Writable /\ held' = held /\ returned' = <<>>
  BY DEF drain, Begin
<1>2. PICK c : Solid(map, c)
  BY <1>1, WritableIs
<1>3. PICK f, k : Linked(map, c, n, f, k, Nobody)
  BY <1>2 DEF Solid
<1>4. /\ m \in Map /\ m.present = TRUE /\ n \in Nat /\ c[0] = m.head /\ c[n + 1] = m.head
      /\ \A j \in 0 .. n : m.prev[c[j]] = c[j + 1]
      /\ \A j \in 0 .. n : m.next[c[j + 1]] = c[j]
      /\ \A j \in 0 .. n + 1 : c[j] \in Node
      /\ SolidOf(m, c, n)
  <2>1. SolidOf(m, c, n) /\ m.present = TRUE
    BY <1>2, SolidFacts DEF SolidOf
  <2> HIDE DEF n, m
  <2> QED BY ONLY <2>1, SolidRing
<1>5. CASE n = 0
  <2>1. map' = bare /\ iters' = Append(iters, none)
    BY <1>1, <1>5 DEF drain, Begin, Index!clear
  <2>2. Linked(bare, c, n, f, k, Nobody) /\ bare.index = Index!new /\ bare.present = map.present
    <3> DEFINE ix == Index!new
    <3>1. ix \in IndexMap /\ bare = [map EXCEPT !.index = ix]
      BY NewIndexIs
    <3> HIDE DEF n, bare, ix
    <3>2. Linked(bare, c, n, f, k, Nobody) /\ bare.index = ix /\ bare.present = map.present
      BY ONLY <1>3, <3>1, IndexOnly
    <3> QED BY <3>2 DEF ix
  <2>3. ItemsOf(bare) = <<>>
    <3>1. bare.index.n = 0
      BY <2>2, NewIndexIs
    <3> HIDE DEF bare
    <3>2. RingAt(bare, c, 0)
      BY <1>5, <2>2, <3>1 DEF RingAt
    <3> QED BY <3>2, EmptyItems
  <2>4. none \in Iterator /\ none.remaining = n /\ none.type = "Drain"
    BY <1>5 DEF Iterator, Kind, Node
  <2>5. BeginAt(m, c, n, bare, none)
    <3>1. bare \in Map
      BY <2>2 DEF Linked
    <3>2. 1 .. n = {} /\ 1 .. n - 1 = {}
      BY <1>5
    <3> HIDE DEF bare, none, n, m
    <3> QED BY <1>4, <1>5, <2>4, <3>1, <3>2 DEF BeginAt
  <2> HIDE DEF bare, none, n
  <2>6. Pending(bare, none) = [type |-> none.type, items |-> ItemsOf(m)]
    <3> HIDE DEF m
    <3> QED BY ONLY <2>5, Begins
  <2>7. bare.present = TRUE
    BY <1>4, <2>2
  <2>8. GivesAway(type, none)
    BY <1>1, <2>1, <2>3, <2>4, <2>6, <2>7 DEF GivesAway
  <2>9. Abs!Iterate(type)
    <3> HIDE DEF type
    <3> QED BY ONLY <2>8, GivesAwayAbs
  <2> QED BY <2>9
<1>6. CASE n # 0
  <2> DEFINE d == DrainOf(map)
             e == Alone(map.head)
             s == Spliced(c, n, f, k)
  <2>1. map' = d /\ iters' = Append(iters, it)
    BY <1>1, <1>6 DEF drain, Begin, Index!clear, DrainOf
  <2>2. /\ Linked(d, e, 0, s, n + k, Nobody)
        /\ d.index = Index!new /\ d.present = map.present
        /\ d.key = map.key /\ d.value = map.value
        /\ \A j \in 0 .. n - 2 : d.prev[c[n - (j + 1)]] = c[n - j]
    <3>1. d = DrainOf(map)
      OBVIOUS
    <3> HIDE DEF d, n
    <3> QED BY <1>3, <1>6, <3>1, DrainLinked
  <2> HIDE DEF d, s
  <2>3. ItemsOf(d) = <<>>
    <3>1. d.index.n = 0
      BY <2>2, NewIndexIs
    <3>2. RingAt(d, e, 0)
      BY <2>2, <3>1 DEF RingAt
    <3> QED BY <3>2, EmptyItems
  <2>4. h = c[1] /\ t = c[n] /\ h \in Node /\ t \in Node
    <3>1. 0 \in 0 .. n /\ n \in 0 .. n /\ 1 \in 0 .. n + 1 /\ n \in 0 .. n + 1 /\ 0 + 1 = 1
      BY <1>4
    <3> QED BY <1>4, <3>1
  <2>5. it \in Iterator /\ it.remaining = n /\ it.type = "Drain" /\ it.head = c[1]
    BY <1>4, <2>4 DEF Iterator, Kind
  <2>6. ASSUME NEW j \in 1 .. n - 1
        PROVE  d.prev[c[j]] = c[j + 1]
    <3>1. n - j - 1 \in 0 .. n - 2 /\ n - ((n - j - 1) + 1) = j /\ n - (n - j - 1) = j + 1
      BY <1>4
    <3> QED BY <2>2, <3>1
  <2>7. BeginAt(m, c, n, d, it)
    <3>1. d \in Map
      BY <2>2 DEF Linked
    <3>2. \A j \in 1 .. n : d.key[c[j]] = m.key[c[j]] /\ d.value[c[j]] = m.value[c[j]]
      BY <2>2
    <3> HIDE DEF it, n, m
    <3> QED BY <1>4, <2>5, <2>6, <3>1, <3>2 DEF BeginAt
  <2> HIDE DEF it, n
  <2>8. Pending(d, it) = [type |-> it.type, items |-> ItemsOf(m)]
    <3> HIDE DEF m
    <3> QED BY ONLY <2>7, Begins
  <2>9. d.present = TRUE
    BY <1>4, <2>2
  <2>10. GivesAway(type, it)
    BY <1>1, <2>1, <2>3, <2>5, <2>8, <2>9 DEF GivesAway
  <2>11. Abs!Iterate(type)
    <3> HIDE DEF type
    <3> QED BY ONLY <2>10, GivesAwayAbs
  <2> QED BY <2>11
<1> QED BY <1>5, <1>6

(* into_iter: the items go to the iterator, and the map is gone. *)
LEMMA IntoIterAbs ==
  ASSUME Safe(map, iters, held), into_iter
  PROVE  Abs!Iterate("IntoIter")
<1> DEFINE n == map.index.n
           last == IF map.head = Null THEN Null ELSE map.next[map.head]
           it == [type |-> "IntoIter", head |-> First, tail |-> last, remaining |-> n]
           d == IntoIterOf(map)
           m == map
           type == "IntoIter"
<1>1. Writable /\ held' = held /\ returned' = <<>> /\ iters' = Append(iters, it) /\ map' = d
  BY DEF into_iter, Begin, IntoIterOf
<1>2. PICK c : Solid(map, c)
  BY <1>1, WritableIs
<1>3. PICK f, k : Linked(map, c, n, f, k, Nobody)
  BY <1>2 DEF Solid
<1>4. /\ m \in Map /\ n \in Nat /\ c[0] = m.head /\ c[n + 1] = m.head
      /\ \A j \in 0 .. n : m.prev[c[j]] = c[j + 1]
      /\ \A j \in 0 .. n : m.next[c[j + 1]] = c[j]
      /\ \A j \in 0 .. n + 1 : c[j] \in Node
      /\ (m.head = Null => n = 0)
      /\ m.next \in [Node -> Node] /\ m.prev \in [Node -> Node]
      /\ SolidOf(m, c, n)
  <2>1. SolidOf(m, c, n)
    BY <1>2 DEF SolidOf
  <2> HIDE DEF n, m
  <2> QED BY ONLY <2>1, SolidRing
<1>5. /\ Null \in Node /\ \A j \in 1 .. n : c[j] \in Members(c, n)
  BY <1>2, <1>4, SolidFacts, MapFacts
<1> DEFINE Y == Members(c, n)
<1>6. /\ Consumed(d, Y)
      /\ \A q \in Y : d.prev[q] = map.prev[q] /\ d.key[q] = map.key[q] /\ d.value[q] = map.value[q]
  <2>1. Y = Nobody \cup Members(c, n) /\ d = IntoIterOf(map)
    BY DEF Nobody
  <2> HIDE DEF Nobody, Y, d, n
  <2> QED BY <1>3, <2>1, IntoIterLinked DEF Y
<1> HIDE DEF d, Y
<1>7. n # 0 => First = c[1]
  <2>1. 0 \in 0 .. n /\ 0 + 1 = 1
    BY <1>4
  <2> QED BY <1>4, <2>1 DEF First
<1>8. First \in Node /\ last \in Node
  <2>1. m.head \in Node
    BY <1>4, MapFacts
  <2> QED BY <1>4, <1>5, <2>1 DEF First
<1>9. it \in Iterator /\ it.type = "IntoIter" /\ it.remaining = n /\ it.head = First
  BY <1>4, <1>8 DEF Iterator, Kind
<1>10. BeginAt(m, c, n, d, it)
  <2>1. d \in Map
    BY <1>6 DEF Consumed, Linked
  <2>2. \A j \in 1 .. n : d.key[c[j]] = m.key[c[j]] /\ d.value[c[j]] = m.value[c[j]]
    BY <1>5, <1>6 DEF Y
  <2>3. ASSUME NEW j \in 1 .. n - 1 PROVE d.prev[c[j]] = c[j + 1]
    <3>1. j \in 1 .. n /\ j \in 0 .. n
      BY <1>4
    <3> QED BY <1>4, <1>5, <1>6, <3>1 DEF Y
  <2> HIDE DEF it, n, m
  <2> QED BY <1>4, <1>7, <1>9, <2>1, <2>2, <2>3 DEF BeginAt
<1> HIDE DEF it, n
<1>11. Pending(d, it) = [type |-> it.type, items |-> ItemsOf(m)]
  <2> HIDE DEF m
  <2> QED BY ONLY <1>10, Begins
<1>12. ItemsOf(d) = <<>> /\ d.present = FALSE
  BY <1>6, GoneItems DEF Consumed
<1>13. GivesAway(type, it)
  BY <1>1, <1>9, <1>11, <1>12 DEF GivesAway
<1>14. Abs!Iterate(type)
  <2> HIDE DEF type
  <2> QED BY ONLY <1>13, GivesAwayAbs
<1> QED BY <1>14

(* A twin of an iterator, as OrderedMap sees it. *)
LEMMA TwinAbs ==
  ASSUME NEW i, NEW jt, Twin(i, jt)
  PROVE  Abs!CloneIter(i)
<1> DEFINE d == map'
           its == iters'
           x == Pending(map, iters[i])
           a == AllPending(map, iters)
<1>1. AddedTo(d, jt, its, x)
  BY DEF AddedTo, Twin
<1>2. AllPending(d, its) = Append(a, x) /\ Len(a) = Len(iters)
  <2> HIDE DEF d, its, x
  <2> QED BY ONLY <1>1, AllAdded DEF a
<1>3. a[i] = x /\ x.type = iters[i].type
  BY DEF AllPending, Twin, Pending
<1>4. /\ returned' = <<>>
      /\ \/ iters[i].type = "Iter" /\ Len(iters) < MaxIters
         \/ iters[i].type = "IntoIter" /\ Len(iters) <= MaxIters
  BY DEF Twin, CloneIter, Begin
<1>5. ItemsOf(d) = ItemsOf(map) /\ d.present = map.present /\ HeldKeys(d, held') = HeldKeys(map, held)
  BY DEF Twin
<1> HIDE DEF a, x
<1> QED BY <1>2, <1>3, <1>4, <1>5 DEF Abs!CloneIter, a

(* A clone that copies no node. *)
LEMMA CloneSame ==
  ASSUME Safe(map, iters, held), NEW i \in DOMAIN iters, CloneIter(i), map' = map, iters' = Append(iters, iters[i])
  PROVE  Abs!CloneIter(i)
<1> DEFINE it == iters[i]
<1>1. it \in Iterator /\ iters \in Seq(Iterator) /\ held' = held
  BY IterStands DEF Safe, CloneIter, Begin
<1>2. Twin(i, it)
  BY <1>1 DEF Twin
<1> HIDE DEF it
<1> QED BY ONLY <1>2, TwinAbs

(* The copies of the nodes have the items that are left of the original. *)
LEMMA CopiedSame ==
  ASSUME NEW m, NEW its, NEW i, NEW r, NEW g, NEW e, NEW h, CopiedAt(m, its, i, r, g, e, h)
  PROVE  /\ e.iter \in Iterator /\ Pending(e.map, e.iter) = Pending(m, its[i])
         /\ \A l \in DOMAIN its : Pending(e.map, its[l]) = Pending(m, its[l])
         /\ ItemsOf(e.map) = ItemsOf(m) /\ e.map.present = m.present
<1> DEFINE it == its[i]
           d == e.map
           jt == e.iter
<1>1. /\ GoneSide(m, its) /\ i \in DOMAIN its /\ m.live = Loose(m, its) /\ r # 0 /\ r = it.remaining
      /\ CopiesAt(m, it, r, g) /\ Copying(m, r, g, r, e, h)
  BY DEF CopiedAt
<1>2. /\ m \in Map /\ it \in Iterator /\ it.type = "IntoIter" /\ r \in Nat
      /\ g \in [1 .. r -> Node] /\ (r # 0 => g[1] = it.head) /\ \A j \in 1 .. r - 1 : m.prev[g[j]] = g[j + 1]
      /\ m.present = FALSE
  BY <1>1 DEF CopiesAt, OwnsAt, Iterator
<1>3. /\ d \in Map /\ jt \in Iterator /\ jt.type = "IntoIter" /\ jt.remaining = r
      /\ h \in [1 .. r -> Addr] /\ h[1] = jt.head
      /\ \A l \in 1 .. r - 1 : d.prev[h[l]] = h[l + 1]
      /\ \A l \in 1 .. r : d.key[h[l]] = m.key[g[l]] /\ d.value[h[l]] = m.value[g[l]]
      /\ \A q \in m.live : d.prev[q] = m.prev[q] /\ d.key[q] = m.key[q] /\ d.value[q] = m.value[q]
      /\ d.present = FALSE
  BY <1>1 DEF Copying
<1>4. AddsOwner(m, its, d, jt)
  BY <1>1, CopiesOwned
<1> HIDE DEF d, jt
<1>5. Yet(m, it, g)
  BY <1>1, <1>2 DEF Yet
<1>6. Yet(d, jt, h)
  <2>1. h \in [1 .. r -> Node]
    BY <1>3 DEF Node
  <2> QED BY <1>3, <2>1 DEF Yet
<1>7. Pending(d, jt) = Pending(m, it)
  <2> HIDE DEF it
  <2>1. PICK s \in Seq(Pair) :
        /\ Len(s) = it.remaining
        /\ \A j \in 1 .. it.remaining : s[j] = <<m.key[g[j]], m.value[g[j]]>>
        /\ Pending(m, it) = [type |-> it.type, items |-> s]
    BY ONLY <1>5, PendingIs
  <2>2. \A j \in 1 .. r : s[j] = <<d.key[h[j]], d.value[h[j]]>>
    BY <1>1, <1>3, <2>1
  <2>3. YetItems(d, jt, h, s)
    BY <1>1, <1>3, <1>6, <2>1, <2>2 DEF YetItems
  <2>4. Pending(d, jt) = [type |-> jt.type, items |-> s]
    BY ONLY <2>3, YetItemsThat
  <2> QED BY <1>2, <1>3, <2>1, <2>4
<1>8. ASSUME NEW l \in DOMAIN its
      PROVE  Pending(d, its[l]) = Pending(m, its[l])
  <2> DEFINE kt == its[l]
  <2>1. OwnPlace(m, kt) /\ OwnSet(m, kt) \subseteq m.live
    <3>1. kt \in Iterator
      BY <1>1 DEF GoneSide
    <3>2. OwnSet(m, kt) \subseteq Loose(m, its)
      BY DEF Loose
    <3> QED BY <1>1, <1>2, <3>1, <3>2 DEF GoneSide, OwnPlace
  <2> HIDE DEF kt
  <2>2. PICK w : StandsOn(m, kt, w) /\ OwnSet(m, kt) = {w[b] : b \in 1 .. kt.remaining} /\ Own(m, kt) = w
    BY ONLY <2>1, OwnStands
  <2>3. Yet(m, kt, w) /\ kt.remaining \in Nat
    BY <2>1, <2>2 DEF StandsOn, OwnPlace, Iterator
  <2>4. \A b \in 1 .. kt.remaining : w[b] \in m.live
    BY <2>1, <2>2
  <2>5. YetKeptAt(m, kt, w, d)
    <3>1. \A b \in 1 .. kt.remaining - 1 : b \in 1 .. kt.remaining
      BY <2>3
    <3> QED BY <1>3, <2>3, <2>4, <3>1 DEF YetKeptAt
  <2>6. Pending(d, kt) = Pending(m, kt)
    BY ONLY <2>5, YetKept
  <2> QED BY <2>6 DEF kt
<1>9. ItemsOf(d) = <<>>
  BY <1>4, GoneItems DEF AddsOwner
<1>10. ItemsOf(m) = <<>>
  BY <1>1, GoneItems DEF GoneSide
<1> QED BY <1>2, <1>3, <1>7, <1>8, <1>9, <1>10 DEF d, jt, it

(* A clone of an IntoIter has nodes of its own and the same items. *)
LEMMA CloneOwnAbs ==
  ASSUME Safe(map, iters, held), NEW i \in DOMAIN iters, iters[i].type = "IntoIter", CloneIter(i),
         iters[i].remaining # 0
  PROVE  Abs!CloneIter(i)
<1> DEFINE it == iters[i]
           r == it.remaining
           m == map
           its == iters
           e == Cloned(m, it)
<1>1. /\ GoneSide(m, its) /\ held = {} /\ m.live = Loose(m, its) /\ held' = held
      /\ map' = clone(map, i).map /\ iters' = Append(iters, clone(map, i).iter)
  BY CloningIs
<1>2. PICK g : CopiesAt(m, it, r, g)
  BY CloningIs
<1>3. clone(map, i) = e
  BY DEF clone, Cloned
<1>4. PICK h : Copying(m, r, g, r, e, h)
  <2> HIDE DEF it, r, e, m
  <2> QED BY <1>2, CopiesIs DEF e
<1> HIDE DEF e
<1>5. CopiedAt(m, its, i, r, g, e, h)
  BY <1>1, <1>2, <1>4 DEF CopiedAt
<1>6. /\ e.iter \in Iterator /\ Pending(e.map, e.iter) = Pending(m, its[i])
      /\ \A l \in DOMAIN its : Pending(e.map, its[l]) = Pending(m, its[l])
      /\ ItemsOf(e.map) = ItemsOf(m) /\ e.map.present = m.present
  <2> HIDE DEF m, its, r
  <2> QED BY ONLY <1>5, CopiedSame
<1> DEFINE jt == e.iter
<1>7. Twin(i, jt)
  <2>1. HeldKeys(map', held') = HeldKeys(map, held)
    BY <1>1 DEF HeldKeys
  <2>2. iters \in Seq(Iterator)
    BY DEF Safe
  <2> QED BY <1>1, <1>3, <1>6, <2>1, <2>2 DEF Twin
<1> HIDE DEF jt
<1> QED BY ONLY <1>7, TwinAbs

(* A clone of an iterator. *)
LEMMA CloneIterAbs ==
  ASSUME Safe(map, iters, held), NEW i \in DOMAIN iters, CloneIter(i)
  PROVE  Abs!CloneIter(i)
<1>1. CASE iters[i].type = "Iter" \/ iters[i].remaining = 0
  <2>1. map' = map /\ iters' = Append(iters, iters[i])
    BY <1>1 DEF CloneIter, Begin, clone
  <2> QED BY SMTT(60), <2>1, CloneSame
<1>2. CASE ~(iters[i].type = "Iter" \/ iters[i].remaining = 0)
  <2>1. iters[i].type = "IntoIter"
    BY <1>2 DEF CloneIter
  <2> QED BY <1>2, <2>1, CloneOwnAbs
<1> QED BY <1>1, <1>2

(* The new map is the empty sequence. *)
LEMMA InitAbs ==
  ASSUME Init
  PROVE  Abs!Init
<1>1. map = new /\ iters = <<>> /\ held = {} /\ returned = <<>>
  BY DEF Init
<1>2. new.head = Null /\ new.present = TRUE
  BY DEF new
<1>3. ItemsOf(map) = <<>>
  <2>1. Nodes(map) = <<>>
    BY <1>1, <1>2 DEF Nodes
  <2> QED BY <2>1 DEF ItemsOf
<1>4. AllPending(map, iters) = <<>>
  BY <1>1 DEF AllPending
<1>5. HeldKeys(map, held) = {}
  BY <1>1 DEF HeldKeys
<1> QED BY <1>1, <1>2, <1>3, <1>4, <1>5 DEF Abs!Init

(* Every step of an iterator is one of OrderedMap. *)
LEMMA IteratorsAbs ==
  ASSUME Safe(map, iters, held), Iterators
  PROVE  Abs!Next
<1>1. ASSUME NEW type \in Kind, iter(type)
      PROVE  Abs!Next
  <2>1. type \in {"Iter", "IterMut", "Entries", "Drain", "IntoIter"}
    BY DEF Kind
  <2>2. Abs!Iterate(type)
    BY <1>1, IterAbs
  <2> QED BY <2>1, <2>2 DEF Abs!Next
<1>2. ASSUME drain
      PROVE  Abs!Next
  BY <1>2, DrainAbs DEF Abs!Next
<1>3. ASSUME into_iter
      PROVE  Abs!Next
  BY <1>3, IntoIterAbs DEF Abs!Next
<1>4. ASSUME NEW i \in DOMAIN iters, CloneIter(i) \/ next(i) \/ next_back(i) \/ Exhausted(i) \/ DropIter(i)
      PROVE  Abs!Next
  <2>1. i \in DOMAIN AllPending(map, iters)
    BY DEF AllPending
  <2>2. Abs!CloneIter(i) \/ Abs!NextItem(i) \/ Abs!NextBack(i) \/ Abs!Exhausted(i) \/ Abs!DropIter(i)
    BY <1>4, CloneIterAbs, NextAbs, NextBackAbs, ExhaustedAbs, DropIterAbs
  <2> QED BY <2>1, <2>2 DEF Abs!Next
<1> QED BY <1>1, <1>2, <1>3, <1>4 DEF Iterators

(* Every call is one of OrderedMap. *)
LEMMA StepAbs ==
  ASSUME Safe(map, iters, held), Next
  PROVE  Abs!Next
<1>1. ASSUME NEW k \in Keys, GetRefresh(k) \/ RemoveKey(k) \/ EntryOccupied(k)
      PROVE  Abs!Next
  <2>1. Abs!GetRefresh(k) \/ Abs!RemoveKey(k) \/ Abs!HoldEntry(k)
    BY <1>1, GetRefreshAbs, RemoveKeyAbs, EntryOccupiedAbs
  <2> QED BY <2>1 DEF Abs!Next
<1>2. ASSUME NEW k \in Keys, NEW v \in Given[k], Insert(k, v) \/ GetMut(k, v) \/ OrInsert(k, v)
      PROVE  Abs!Next
  <2>1. Abs!Insert(k, v) \/ Abs!GetMut(k, v) \/ Abs!OrInsert(k, v)
    BY <1>2, InsertAbs, GetMutAbs, OrInsertAbs
  <2> QED BY <2>1 DEF Abs!Next
<1>3. ASSUME NEW p \in held, OccupiedRemove(p) \/ OccupiedDrop(p)
      PROVE  Abs!Next
  <2>1. map.key[p] \in Keys
    BY HeldSolid
  <2>2. Abs!HeldRemove(map.key[p]) \/ Abs!HeldDrop(map.key[p])
    BY <1>3, OccupiedRemoveAbs, OccupiedDropAbs
  <2> QED BY <2>1, <2>2 DEF Abs!Next
<1>4. ASSUME NEW p \in held, NEW v \in Given[map.key[p]], OccupiedInsert(p, v)
      PROVE  Abs!Next
  <2>1. map.key[p] \in Keys
    BY HeldSolid
  <2>2. Abs!HeldInsert(map.key[p], v)
    BY <1>4, OccupiedInsertAbs
  <2> QED BY <2>1, <2>2 DEF Abs!Next
<1>5. CASE pop_front \/ pop_back
  BY <1>5, PopAbs DEF Abs!Next
<1>6. CASE Clear \/ ShrinkToFit \/ DropMap \/ New
  BY <1>6, ClearAbs, ShrinkAbs, DropMapAbs, NewAbs DEF Abs!Next
<1>7. CASE Iterators
  BY <1>7, IteratorsAbs
<1> QED BY <1>1, <1>2, <1>3, <1>4, <1>5, <1>6, <1>7 DEF Next

(* The linked map implements OrderedMap: whatever the calls and their      *)
(* order, each returns and leaves what the sequence of entries says.       *)
THEOREM LinkedRefines == Spec => Implements
<1>1. Init => Abs!Init
  BY InitAbs
<1>2. Safe(map, iters, held) /\ [Next]_vars => [Abs!Next]_Abs!vars
  <2>1. ASSUME Safe(map, iters, held), Next
        PROVE  Abs!Next
    BY <2>1, StepAbs
  <2>2. ASSUME UNCHANGED vars
        PROVE  UNCHANGED Abs!vars
    BY <2>2 DEF vars, Abs!vars
  <2> QED BY <2>1, <2>2
<1> QED BY <1>1, <1>2, LinkedSafe, PTL DEF Spec, Implements, Abs!Spec
=============================================================================
