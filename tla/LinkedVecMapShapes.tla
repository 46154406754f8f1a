-------------------------- MODULE LinkedVecMapShapes --------------------------
(***************************************************************************)
(* The words in which the proofs about LinkedVecMap speak.  First what the *)
(* code leaves implicit in its raw pointers: the ring c of the entries, in *)
(* n nodes between the guard node and itself, the free list f of k nodes,  *)
(* and where each iterator stands in one of them or in nodes of its own.   *)
(* Sound joins these, and Safe is the inductive invariant.  Then what each *)
(* operation makes of a map m: d is the map afterwards, e its ring, jt the *)
(* iterator; and at the end what an iterator has still to yield.           *)
(***************************************************************************)
EXTENDS LinkedVecMap

(* The ring c of n nodes, front to back, between the guard and the guard. *)
Ring(m, c, n) ==
    /\ n \in Nat /\ c \in [0 .. n + 1 -> Node]
    /\ c[0] = m.head /\ c[n + 1] = m.head
    /\ \A i \in 0 .. n : m.prev[c[i]] = c[i + 1] /\ m.next[c[i + 1]] = c[i]
    /\ \A i \in 1 .. n : c[i] # Null /\ c[i] # m.head
    /\ \A i, j \in 1 .. n : c[i] = c[j] => i = j
    /\ m.head = Null => n = 0

(* The free list f of k nodes, with Null at its end. *)
Chain(m, f, k) ==
    /\ k \in Nat /\ f \in [0 .. k -> Node]
    /\ f[0] = m.free /\ f[k] = Null
    /\ \A i \in 0 .. k - 1 : f[i] # Null /\ m.next[f[i]] = f[i + 1]
    /\ \A i, j \in 0 .. k - 1 : f[i] = f[j] => i = j

Guard(m) == {m.head} \ {Null}

Members(c, n) == {c[i] : i \in 1 .. n}

Spares(f, k) == {f[i] : i \in 0 .. k - 1}

(* The memory: the guard, the ring, the free list and the other nodes X.  *)
Linked(m, c, n, f, k, X) ==
    /\ m \in Map /\ Ring(m, c, n) /\ Chain(m, f, k)
    /\ m.next[Null] = Null /\ m.prev[Null] = Null
    /\ X \subseteq Addr
    /\ Guard(m) \cap Spares(f, k) = {} /\ Guard(m) \cap X = {}
    /\ Members(c, n) \cap Spares(f, k) = {} /\ Members(c, n) \cap X = {}
    /\ Spares(f, k) \cap X = {}
    /\ m.live = Guard(m) \cup Members(c, n) \cup Spares(f, k) \cup X

(* The index has the nodes S at their keys, and no others. *)
Tells(m, S) ==
    /\ \A p \in S : m.key[p] \in Keys /\ m.value[p] \in Values /\ Index!get(m.index, m.key[p]) = p
    /\ \A x \in Nat : Index!get(m.index, x) # Null =>
          Index!get(m.index, x) \in S /\ m.key[Index!get(m.index, x)] = x

(* Where an iterator stands: in the ring, in the free list, or in nodes of its own. *)
InRing(c, n, it, h) ==
    \E a \in 1 .. n + 1 :
        /\ a + it.remaining <= n + 1
        /\ it.type \in {"Iter", "IterMut"} => it.head = c[a] /\ it.tail = c[a + it.remaining]
        /\ it.type = "Entries" =>
              /\ it.remaining # 0 => it.head = c[a]
              /\ \A j \in a .. a + it.remaining - 1 : c[j] \notin h

InChain(m, f, k, it) ==
    \E a \in 0 .. k :
        /\ a + it.remaining <= k
        /\ it.remaining # 0 => it.tail = f[a] /\ it.head = f[a + it.remaining - 1]
        /\ \A j \in a .. a + it.remaining - 2 : m.prev[f[j + 1]] = f[j]

Own(m, it) == Path(m.prev, it.head, it.remaining)

Owns(m, it) ==
    LET o == Own(m, it)
    IN  /\ \A j \in 1 .. it.remaining : o[j] # Null
        /\ \A i, j \in 1 .. it.remaining : o[i] = o[j] => i = j
        /\ \A j \in 1 .. it.remaining - 1 : m.next[o[j + 1]] = o[j]
        /\ it.remaining # 0 => it.tail = o[it.remaining]

OwnSet(m, it) == IF it.type = "IntoIter" THEN ToSet(Own(m, it)) ELSE {}

Loose(m, its) == UNION {OwnSet(m, its[i]) : i \in DOMAIN its}

Stands(m, its, h, c, f, k) ==
    /\ \A i \in DOMAIN its :
          /\ its[i].type \in {"Iter", "IterMut", "Entries"} => InRing(c, m.index.n, its[i], h)
          /\ its[i].type = "Drain" => InChain(m, f, k, its[i])
          /\ its[i].type = "IntoIter" => Owns(m, its[i])
    /\ \A i, j \in DOMAIN its : i # j => OwnSet(m, its[i]) \cap OwnSet(m, its[j]) = {}

(* Who may be there together. *)
Borrows(m, its, h, c) ==
    /\ h \subseteq Members(c, m.index.n)
    /\ \/ m.present /\ h = {} /\ \A i \in DOMAIN its : its[i].type = "Iter"
       \/ m.present /\ h = {} /\ Len(its) = 1 /\ its[1].type \in {"IterMut", "Drain"}
       \/ m.present /\ Len(its) = 1 /\ its[1].type = "Entries"
       \/ m.present /\ its = <<>>
       \/ /\ ~m.present /\ h = {} /\ \A i \in DOMAIN its : its[i].type = "IntoIter"
          /\ m.head = Null /\ m.free = Null /\ m.index = Index!new

Sound(m, its, h, c, f, k) ==
    /\ Linked(m, c, m.index.n, f, k, Loose(m, its))
    /\ Tells(m, Members(c, m.index.n))
    /\ Stands(m, its, h, c, f, k)
    /\ Borrows(m, its, h, c)

-----------------------------------------------------------------------------
(* The list g of n nodes from p, along f, up to end. *)
Leads(f, p, n, g, end) ==
    /\ f \in [Node -> Node] /\ p \in Node /\ n \in Nat /\ end \in Node
    /\ g[1] = p /\ g[n + 1] = end
    /\ \A i \in 1 .. n : g[i + 1] = f[g[i]]
    /\ \A i \in 1 .. n : g[i] \in Addr /\ g[i] # end
    /\ \A i, j \in 1 .. n : g[i] = g[j] => i = j

-----------------------------------------------------------------------------
(* The index. *)
IndexMap == [n : Nat, v : Seq(Node)]

-----------------------------------------------------------------------------
(* A set with and without one element. *)
Plus(X, p) == X \cup {p}

Minus(X, p) == X \ {p}

(* What an operation on the memory leaves alone. *)
Beside(d, m) ==
    /\ d.index = m.index /\ d.key = m.key /\ d.value = m.value /\ d.present = m.present
    /\ d.head = m.head /\ d.free = m.free /\ d.live = m.live

(* The ring without its i-th node. *)
Cut(c, n, i) == [j \in 0 .. n |-> IF j < i THEN c[j] ELSE c[j + 1]]

-----------------------------------------------------------------------------
(* The ring with node p at its back. *)
Grown(c, n, p) == [j \in 0 .. n + 2 |-> IF j <= n THEN c[j] ELSE IF j = n + 1 THEN p ELSE c[0]]

(* Node::new at an address that is free, or no node of the list. *)
WrittenOver(d, m, p, x, v) ==
    /\ d.index = m.index /\ d.present = m.present /\ d.head = m.head
    /\ d.key[p] = x /\ d.value[p] = v
    /\ \A q \in Node : q # p => d.key[q] = m.key[q] /\ d.value[q] = m.value[q]

WrittenAt(m, c, n, f, k, X, p, x, v, d) ==
    /\ Linked(m, c, n, f, k, X)
    /\ p \in Addr /\ p \notin m.live \ X /\ x \in Keys \cup {NoKey} /\ v \in Values \cup {Null}
    /\ d = Written(m, p, x, v)

-----------------------------------------------------------------------------
(* The map is as it was, but for what is in the nodes of S. *)
Outside(d, m, S) ==
    /\ d.index = m.index /\ d.present = m.present
    /\ \A q \in Node \ S : d.key[q] = m.key[q] /\ d.value[q] = m.value[q]

Apart(d, m, p) == Outside(d, m, {p})

Alike(d, m) == Outside(d, m, {})

-----------------------------------------------------------------------------
(* The ring of a guard alone. *)
Alone(p) == [i \in 0 .. 1 |-> p]

(* A new guard node. *)
GuardAt(m, c, n, f, k, X, p, d) ==
    /\ Linked(m, c, n, f, k, X) /\ m.head = Null /\ p \in Addr /\ p \notin m.live
    /\ d = [Written(m, p, NoKey, Null) EXCEPT !.head = p, !.next[p] = p, !.prev[p] = p]

(* A node taken from the free list. *)
Rest(f, k) == [i \in 0 .. k - 1 |-> f[i + 1]]

-----------------------------------------------------------------------------
(* A node put before the free list. *)
Pushed(p, f, k) == [i \in 0 .. k + 1 |-> IF i = 0 THEN p ELSE f[i - 1]]

PushedAt(m, c, n, f, k, X, p, d) ==
    Linked(m, c, n, f, k, X) /\ p \in X /\ d = [m EXCEPT !.next[p] = m.free, !.free = p]

(* The entries of a ring, front to back and back to front. *)
Onward(c, n) == [i \in 1 .. n |-> c[i]]

Backward(c, n) == [i \in 1 .. n |-> c[n + 1 - i]]

-----------------------------------------------------------------------------
NoSpares == [i \in 0 .. 0 |-> Null]

-----------------------------------------------------------------------------
(* A map that has been consumed: no guard, no entry, no free list. *)
Consumed(d, X) ==
    /\ Linked(d, Alone(Null), 0, NoSpares, 0, X)
    /\ d.index = Index!new /\ d.head = Null /\ d.free = Null /\ d.present = FALSE

(* into_iter: the entries leave the map as they are. *)
IntoIterOf(m) ==
    [clear_free_list(IF m.head = Null THEN m ELSE drop_empty_node(m, m.head))
        EXCEPT !.index = Index!new, !.head = Null, !.present = FALSE]

(* drain: the whole list is put before the free list. *)
Spliced(c, n, f, k) == [i \in 0 .. n + k |-> IF i < n THEN c[n - i] ELSE f[i - n]]

DrainOf(m) ==
    LET h == m.prev[m.head]
        t == m.next[m.head]
    IN  [m EXCEPT !.index = Index!new,
                  !.prev = [@ EXCEPT ![m.head] = m.head, ![t] = Null],
                  !.next = [@ EXCEPT ![m.head] = m.head, ![h] = m.free],
                  !.free = t]

-----------------------------------------------------------------------------
(* The map and its list tell the same. *)
Shape(m, c, f, k, X) ==
    Linked(m, c, m.index.n, f, k, X) /\ Tells(m, Members(c, m.index.n))

(* How many nodes can be allocated, with one kept for the guard. *)
Free(m) == Cardinality(Addr \ m.live)

Spare(m) == Free(m) - (IF m.head = Null THEN 1 ELSE 0)

(* The guard node is there. *)
RingOf(m, c, d) == IF m.head = Null THEN Alone(d.head) ELSE c

-----------------------------------------------------------------------------
(* The ring after its i-th node has been moved to the back. *)
Moved(c, n, i) == Grown(Cut(c, n, i), n - 1, c[i])

(* A write of a value. *)
Wrote(m, p, v, d) == p \in Node /\ v \in Values /\ d = [m EXCEPT !.value[p] = v]

(* An entry that is given a value and moved to the back. *)
RewrittenAt(m, c, n, f, k, X, i, v, d) ==
    /\ Linked(m, c, n, f, k, X) /\ n = m.index.n /\ Tells(m, Members(c, n)) /\ i \in 1 .. n /\ v \in Values
    /\ d = Refreshed([ensure_guard_node(m) EXCEPT !.value[c[i]] = v], c[i])

-----------------------------------------------------------------------------
(* d is m with a new entry at the back of its ring, which is e. *)
Added(m, c, n, X, x, v, d, e) ==
    /\ \E f1, k1 : Linked(d, e, n + 1, f1, k1, X)
    /\ d.index.n = n + 1 /\ Tells(d, Members(e, n + 1))
    /\ d.present = m.present /\ d.head # Null
    /\ \A j \in 1 .. n : e[j] = c[j] /\ d.key[c[j]] = m.key[c[j]] /\ d.value[c[j]] = m.value[c[j]]
    /\ d.key[e[n + 1]] = x /\ d.value[e[n + 1]] = v
    /\ Spare(d) >= Spare(m) - 1 /\ (m.free = Null => d.free = Null)

(* The map of insert, which puts the node in the index and then attaches   *)
(* it, and that of VacantEntry::insert, which attaches it first.           *)
Indexed(m, x, v) ==
    LET fresh == Recycled(ensure_guard_node(m), x, v)
    IN  attach([fresh.map EXCEPT !.index = Index!insert(@, x, fresh.node)], fresh.node)

Attached(m, x, v) ==
    LET fresh == Recycled(ensure_guard_node(m), x, v)
    IN  [attach(fresh.map, fresh.node) EXCEPT !.index = Index!get_or_insert(@, x, fresh.node)]

-----------------------------------------------------------------------------
(* d is m without the i-th entry. *)
Lost(m, c, n, X, i, d) ==
    /\ \E f1, k1 : Linked(d, Cut(c, n, i), n - 1, f1, k1, X)
    /\ d.index.n = n - 1 /\ Tells(d, Members(Cut(c, n, i), n - 1))
    /\ d.present = m.present /\ d.head = m.head
    /\ \A q \in Members(c, n) : q # c[i] => d.key[q] = m.key[q] /\ d.value[q] = m.value[q]

(* The map of pop_front and pop_back. *)
Popped(m, p) ==
    drop_empty_node([detach(m, p) EXCEPT !.index = Index!remove(@, m.key[p])], p)

Nobody == {}

(* A map in the hands of its owner: no iterator owns a node. *)
Solid(m, c) ==
    m.present = TRUE /\ \E f, k : Linked(m, c, m.index.n, f, k, Nobody) /\ Tells(m, Members(c, m.index.n))

SolidOf(m, c, n) == Solid(m, c) /\ n = m.index.n

(* The i-th entry has the value v and goes to the back. *)
Renewed(m, c, n, i, v, d) ==
    /\ Solid(d, Moved(c, n, i)) /\ d.index = m.index /\ d.key = m.key
    /\ Members(Moved(c, n, i), n) = Members(c, n)
    /\ d.value[c[i]] = v /\ \A q \in Node : q # c[i] => d.value[q] = m.value[q]

(* A value written in place. *)
WroteAt(m, c, n, i, v, d) ==
    Solid(m, c) /\ n = m.index.n /\ i \in 1 .. n /\ v \in Values /\ d = [m EXCEPT !.value[c[i]] = v]

Iterator == [type : Kind, head : Node, tail : Node, remaining : Nat]

(* The invariant of the steps. *)
Safe(m, its, h) == its \in Seq(Iterator) /\ \E c, f, k : Sound(m, its, h, c, f, k)

(* Iterators over the ring of a map, or none. *)
RingSide(m, c, its, h) ==
    /\ Solid(m, c) /\ its \in Seq(Iterator) /\ Borrows(m, its, h, c)
    /\ \A i \in DOMAIN its : its[i].type \in {"Iter", "IterMut", "Entries"} /\ InRing(c, m.index.n, its[i], h)

(* A map that is gone, and the nodes of the iterators made of it. *)
GoneSide(d, its) ==
    /\ Consumed(d, Loose(d, its)) /\ its \in Seq(Iterator)
    /\ \A i \in DOMAIN its : its[i].type = "IntoIter" /\ Owns(d, its[i])
    /\ \A i, j \in DOMAIN its : i # j => OwnSet(d, its[i]) \cap OwnSet(d, its[j]) = {}

(* An iterator over entries does not see a change of an entry it has yielded. *)
Shifted(c, e, n, i) == \A j \in 1 .. n - 1 : e[j] = IF j < i THEN c[j] ELSE c[j + 1]

(* Entries in the hands of the caller. *)
HeldSide(m, c, its, h) ==
    /\ Solid(m, c) /\ h \subseteq Members(c, m.index.n) /\ its \in Seq(Iterator)
    /\ \/ its = <<>>
       \/ Len(its) = 1 /\ its[1].type = "Entries" /\ InRing(c, m.index.n, its[1], h)

RingKind == {"Iter", "IterMut", "Entries"}

(* What an iterator that has not ended yields next. *)
NextAt(m, c, n, it, h, jt, g) ==
    /\ Solid(m, c) /\ n = m.index.n /\ it \in Iterator /\ it.type \in RingKind
    /\ InRing(c, n, it, h) /\ ~Ended(it)
    /\ jt = [[it EXCEPT !.head = m.prev[@]] EXCEPT !.remaining = @ - 1]
    /\ g = IF it.type = "Entries" THEN h \cup {it.head} ELSE h

BackAt(m, c, n, it, h, t, jt) ==
    /\ Solid(m, c) /\ n = m.index.n /\ it \in Iterator /\ it.type \in {"Iter", "IterMut"}
    /\ InRing(c, n, it, h) /\ ~Ended(it) /\ t = m.next[it.tail]
    /\ jt = [[it EXCEPT !.tail = t] EXCEPT !.remaining = @ - 1]

(* Shared iterators beside each other. *)
SharedSide(m, c, its, h) ==
    /\ Solid(m, c) /\ its \in Seq(Iterator) /\ h = {}
    /\ \A j \in DOMAIN its : its[j].type = "Iter" /\ InRing(c, m.index.n, its[j], h)

(* A drain over nodes that are in the free list already. *)
DrainSide(m, c, f, k, its, h) ==
    /\ Linked(m, c, m.index.n, f, k, Nobody) /\ Tells(m, Members(c, m.index.n)) /\ m.present = TRUE
    /\ h = {} /\ its \in Seq(Iterator) /\ Len(its) = 1 /\ its[1].type = "Drain"
    /\ InChain(m, f, k, its[1])

(* Nodes of the free list lose their content. *)
ForgottenAt(m, c, f, k, S, d) ==
    /\ Linked(m, c, m.index.n, f, k, Nobody) /\ Tells(m, Members(c, m.index.n)) /\ m.present = TRUE
    /\ S \subseteq Spares(f, k) /\ d = Forgotten(m, S)

(* A drain yields at either end of its part of the free list. *)
ChainAt(m, f, k, it, p, d) ==
    /\ m \in Map /\ Chain(m, f, k) /\ it \in Iterator /\ InChain(m, f, k, it) /\ it.remaining # 0
    /\ \A q \in Node \ {p} : d.prev[q] = m.prev[q]

ChainFront(m, f, k, it, p, d, jt) ==
    /\ ChainAt(m, f, k, it, p, d) /\ p = it.head
    /\ jt = [[it EXCEPT !.head = m.prev[@]] EXCEPT !.remaining = @ - 1]

ChainEnd(m, f, k, it, p, d, jt) ==
    /\ ChainAt(m, f, k, it, p, d) /\ p = it.tail
    /\ jt = [[it EXCEPT !.tail = m.next[it.tail]] EXCEPT !.remaining = @ - 1]

(* g are the nodes that an iterator owns, from its head. *)
OwnsAt(d, it, g, r) ==
    /\ d \in Map /\ it \in Iterator /\ it.type = "IntoIter" /\ r = it.remaining
    /\ g \in [1 .. r -> Node]
    /\ r # 0 => g[1] = it.head /\ g[r] = it.tail
    /\ \A j \in 1 .. r - 1 : d.prev[g[j]] = g[j + 1]
    /\ \A j \in 1 .. r - 1 : d.next[g[j + 1]] = g[j]
    /\ \A j \in 1 .. r : g[j] # Null
    /\ \A j, l \in 1 .. r : g[j] = g[l] => j = l

(* An iterator keeps its nodes while nothing is written to them. *)
KeptAt(m, it, d) ==
    /\ m \in Map /\ d \in Map /\ it \in Iterator /\ it.type = "IntoIter" /\ Owns(m, it)
    /\ \A q \in OwnSet(m, it) : d.next[q] = m.next[q] /\ d.prev[q] = m.prev[q]

(* Nodes of the i-th iterator are freed. *)
FreedAt(m, its, i, S, d) ==
    GoneSide(m, its) /\ i \in DOMAIN its /\ S \subseteq OwnSet(m, its[i]) /\ d = Freed(m, S)

YieldedAt(m, its, i, S, d, jt, js) ==
    /\ FreedAt(m, its, i, S, d) /\ jt \in Iterator /\ jt.type = "IntoIter" /\ Owns(d, jt)
    /\ OwnSet(d, jt) = OwnSet(m, its[i]) \ S /\ js = [its EXCEPT ![i] = jt]

(* The first or the last node of an IntoIter is freed.  *)
FrontAt(m, it, p, d, jt) ==
    /\ m \in Map /\ it \in Iterator /\ it.type = "IntoIter" /\ it.remaining # 0 /\ Owns(m, it)
    /\ p = it.head /\ d = Freed(m, {p})
    /\ jt = [[it EXCEPT !.head = m.prev[@]] EXCEPT !.remaining = @ - 1]

EndAt(m, it, p, d, jt) ==
    /\ m \in Map /\ it \in Iterator /\ it.type = "IntoIter" /\ it.remaining # 0 /\ Owns(m, it)
    /\ p = it.tail /\ d = Freed(m, {p})
    /\ jt = [[it EXCEPT !.tail = m.next[it.tail]] EXCEPT !.remaining = @ - 1]

Gives(m, it, p, d, jt) ==
    /\ jt \in Iterator /\ jt.type = "IntoIter" /\ Owns(d, jt)
    /\ OwnSet(d, jt) = OwnSet(m, it) \ {p} /\ p \in OwnSet(m, it)

(* The first j nodes g of an IntoIter are copied, to the nodes h. *)
Copying(m, r, g, j, acc, h) ==
    /\ acc.map \in Map /\ acc.iter \in Iterator /\ acc.iter.type = "IntoIter" /\ acc.iter.remaining = r
    /\ h \in [1 .. j -> Addr]
    /\ \A l \in 1 .. j : h[l] \notin m.live
    /\ \A a, b \in 1 .. j : h[a] = h[b] => a = b
    /\ acc.map.live = m.live \cup {h[l] : l \in 1 .. j}
    /\ j = 0 => acc.iter.head = Null
    /\ j # 0 => h[1] = acc.iter.head /\ h[j] = acc.iter.tail
    /\ \A l \in 1 .. j - 1 : acc.map.prev[h[l]] = h[l + 1]
    /\ \A l \in 1 .. j - 1 : acc.map.next[h[l + 1]] = h[l]
    /\ \A l \in 1 .. j : acc.map.key[h[l]] = m.key[g[l]] /\ acc.map.value[h[l]] = m.value[g[l]]
    /\ \A q \in m.live : /\ acc.map.next[q] = m.next[q] /\ acc.map.prev[q] = m.prev[q]
                         /\ acc.map.key[q] = m.key[q] /\ acc.map.value[q] = m.value[q]
    /\ acc.map.next[Null] = Null /\ acc.map.prev[Null] = Null
    /\ acc.map.head = Null /\ acc.map.free = Null /\ acc.map.index = Index!new /\ acc.map.present = FALSE
    /\ Free(acc.map) = Free(m) - j

CopyAt(m, r, g, j, acc, h, e) ==
    /\ m \in Map /\ r \in Nat /\ j \in Nat /\ j < r /\ r <= Free(m) /\ Copying(m, r, g, j, acc, h)
    /\ \A l \in 1 .. r : g[l] \in m.live
    /\ e = Copied(acc, g[j + 1])

NodeWritten(m, p, x, v, d) ==
    m \in Map /\ p \in Addr /\ x \in Keys \cup {NoKey} /\ v \in Values \cup {Null} /\ d = Written(m, p, x, v)

RelinkedAt(m, a, b, d) ==
    m \in Map /\ a \in [Node -> Node] /\ b \in [Node -> Node] /\ d = [m EXCEPT !.next = a, !.prev = b]

(* What clone makes of an IntoIter that has something left. *)
Cloned(m, it) ==
    LET copied[j \in 0 .. it.remaining] ==
            IF j = 0 THEN [map |-> m, iter |-> [it EXCEPT !.head = Null, !.tail = Null]]
            ELSE Copied(copied[j - 1], Path(m.prev, it.head, it.remaining)[j])
    IN  copied[it.remaining]

CopiesAt(m, it, r, g) ==
    /\ OwnsAt(m, it, g, r) /\ Own(m, it) = g /\ r <= Free(m)
    /\ \A l \in 1 .. r : g[l] \in m.live
    /\ m.next[Null] = Null /\ m.prev[Null] = Null
    /\ m.head = Null /\ m.free = Null /\ m.index = Index!new /\ m.present = FALSE

CopiedFrom(m, it) == [map |-> m, iter |-> [it EXCEPT !.head = Null, !.tail = Null]]

(* An iterator that owns nodes of its own is added. *)
AddsOwner(m, its, d, jt) ==
    /\ GoneSide(m, its) /\ m.live = Loose(m, its)
    /\ Consumed(d, d.live)
    /\ \A q \in m.live : d.next[q] = m.next[q] /\ d.prev[q] = m.prev[q]
    /\ jt \in Iterator /\ jt.type = "IntoIter" /\ Owns(d, jt)
    /\ OwnSet(d, jt) \cap m.live = {} /\ d.live = m.live \cup OwnSet(d, jt)

RingAt(m, c, n) == n = m.index.n /\ \E f, k, X : Linked(m, c, n, f, k, X)

(* Two rings with the same keys and values have the same items. *)
SameAt(m, c, n, d, e) ==
    /\ RingAt(m, c, n) /\ RingAt(d, e, n)
    /\ \A i \in 1 .. n : d.key[e[i]] = m.key[c[i]] /\ d.value[e[i]] = m.value[c[i]]

-----------------------------------------------------------------------------
(* The first j entries of the ring c of m are inserted in acc, whose ring is e. *)
CloneOf(m, c, n, X, j, acc, e) ==
    /\ \E f, k : Linked(acc, e, j, f, k, X)
    /\ acc.index.n = j /\ Tells(acc, Members(e, j))
    /\ \A l \in 1 .. j : acc.key[e[l]] = m.key[c[l]] /\ acc.value[e[l]] = m.value[c[l]]
    /\ Spare(acc) >= n - j

CloneAt(m, c, n, X, j, acc, e, d) ==
    /\ CloneOf(m, c, n, X, j, acc, e) /\ n \in Nat /\ j \in Nat /\ j < n
    /\ \A a, b \in 1 .. n : c[a] = c[b] => a = b
    /\ Tells(m, Members(c, n))
    /\ d = insert(acc, m.key[c[j + 1]], m.value[c[j + 1]])

(* What clone starts from: an empty map beside the nodes of the first. *)
Emptied(m) == [m EXCEPT !.index = Index!new, !.head = Null, !.free = Null]

-----------------------------------------------------------------------------
Pair == (Keys \cup {NoKey}) \X (Values \cup {Null})

-----------------------------------------------------------------------------
(* The nodes g that an iterator has still to yield, from the front. *)
Yet(m, it, g) ==
    /\ m \in Map /\ it \in Iterator /\ g \in [1 .. it.remaining -> Node]
    /\ it.remaining # 0 => g[1] = it.head
    /\ \A j \in 1 .. it.remaining - 1 : m.prev[g[j]] = g[j + 1]

(* An iterator whose nodes have the content they had. *)
YetKeptAt(m, it, g, d) ==
    /\ Yet(m, it, g) /\ d \in Map
    /\ \A j \in 1 .. it.remaining - 1 : d.prev[g[j]] = m.prev[g[j]]
    /\ \A j \in 1 .. it.remaining : d.key[g[j]] = m.key[g[j]] /\ d.value[g[j]] = m.value[g[j]]

(* The nodes before an iterator in the ring. *)
Onto(c, a, r) == [j \in 1 .. r |-> c[a + j - 1]]

WindowAt(m, c, n, it, a) ==
    /\ SolidOf(m, c, n) /\ it \in Iterator /\ a \in 1 .. n + 1 /\ a + it.remaining <= n + 1
    /\ it.remaining # 0 => it.head = c[a]

(* An iterator over entries has to yield what it had, when an entry that   *)
(* it has yielded goes or moves.                                           *)
SeenAt(m, c, n, i, h, d, e, it) ==
    /\ SolidOf(m, c, n) /\ i \in 1 .. n /\ c[i] \in h /\ Shifted(c, e, n, i)
    /\ \/ SolidOf(d, e, n)
       \/ SolidOf(d, e, n - 1)
    /\ \A q \in Members(c, n) : q # c[i] => d.key[q] = m.key[q] /\ d.value[q] = m.value[q]
    /\ it \in Iterator /\ it.type = "Entries" /\ InRing(c, n, it, h)

(* A change of a held entry, as iterators and other held entries see it. *)
HeldAbsAt(c, n, i, d, e, g) ==
    /\ HeldSide(map, c, iters, held) /\ SolidOf(map, c, n) /\ i \in 1 .. n /\ c[i] \in held
    /\ Shifted(c, e, n, i) /\ (SolidOf(d, e, n) \/ SolidOf(d, e, n - 1))
    /\ \A q \in Members(c, n) : q # c[i] => d.key[q] = map.key[q] /\ d.value[q] = map.value[q]
    /\ \/ g = held \ {c[i]}
       \/ g = held /\ d.key = map.key

(* The items s of the nodes g that an iterator has still to yield. *)
YetItems(m, it, g, s) ==
    /\ Yet(m, it, g) /\ s \in Seq(Pair) /\ Len(s) = it.remaining
    /\ \A j \in 1 .. it.remaining : s[j] = <<m.key[g[j]], m.value[g[j]]>>

(* An item leaves an iterator at its front or at its back, and the node it *)
(* was in may lose its content.                                            *)
Leaves(m, it, g, j, d) ==
    /\ Yet(m, it, g) /\ j \in 1 .. it.remaining /\ d \in Map
    /\ \A a, b \in 1 .. it.remaining : g[a] = g[b] => a = b
    /\ \A q \in Node : q # g[j] => d.prev[q] = m.prev[q] /\ d.key[q] = m.key[q] /\ d.value[q] = m.value[q]

FrontLeaves(m, it, g, d, jt, s, u) ==
    /\ Leaves(m, it, g, 1, d) /\ jt = [[it EXCEPT !.head = m.prev[@]] EXCEPT !.remaining = @ - 1]
    /\ s \in Seq(Pair) /\ Pending(m, it) = [type |-> it.type, items |-> s] /\ u = Tail(s)

BackLeaves(m, it, g, d, t, jt, s, u) ==
    /\ Leaves(m, it, g, it.remaining, d) /\ t \in Node
    /\ jt = [[it EXCEPT !.tail = t] EXCEPT !.remaining = @ - 1]
    /\ s \in Seq(Pair) /\ Pending(m, it) = [type |-> it.type, items |-> s] /\ u = Front(s)

(* The node at the back of an iterator, and an iterator that stands on the *)
(* nodes g: they are distinct, it ends after them, and both ends are right. *)
BackNode(m, it) == IF it.type \in {"Iter", "IterMut"} THEN m.next[it.tail] ELSE it.tail

StandsOn(m, it, g) ==
    /\ Yet(m, it, g)
    /\ \A a, b \in 1 .. it.remaining : g[a] = g[b] => a = b
    /\ Ended(it) <=> it.remaining = 0
    /\ (it.type # "Entries" /\ it.remaining # 0) => BackNode(m, it) = g[it.remaining]

RingPlace(m, c, n, it, h) ==
    SolidOf(m, c, n) /\ it \in Iterator /\ it.type \in RingKind /\ InRing(c, n, it, h)

ChainPlace(m, f, k, it) ==
    m \in Map /\ Chain(m, f, k) /\ it \in Iterator /\ it.type = "Drain" /\ InChain(m, f, k, it)

OwnPlace(m, it) == m \in Map /\ it \in Iterator /\ it.type = "IntoIter" /\ Owns(m, it)

(* Iterator i yields the node p, the j-th of those it has left, and the map *)
(* is d afterwards.                                                        *)
Takes(i, j, p, d, h) ==
    /\ Safe(map, iters, held) /\ i \in DOMAIN iters /\ j \in 1 .. iters[i].remaining
    /\ p = Own(map, iters[i])[j] /\ YieldNode(iters[i], p, d)
    /\ h = IF iters[i].type = "Entries" THEN held \cup {p} ELSE held

Taken(i, p, d, h) ==
    /\ d \in Map /\ d.present = map.present
    /\ \A q \in Node : q # p => d.prev[q] = map.prev[q] /\ d.key[q] = map.key[q] /\ d.value[q] = map.value[q]
    /\ \A l \in DOMAIN iters : l # i => Pending(d, iters[l]) = Pending(map, iters[l])
    /\ HeldKeys(d, h) = IF iters[i].type = "Entries" THEN HeldKeys(map, held) \cup {map.key[p]}
                        ELSE HeldKeys(map, held)
    /\ IF iters[i].type = "IterMut" THEN \E v \in Given[map.key[p]] : ItemsOf(d) = Abs!Updated(map.key[p], v)
       ELSE ItemsOf(d) = ItemsOf(map)

Faded(m, S, d) ==
    /\ d \in Map /\ d.present = m.present /\ ItemsOf(d) = ItemsOf(m)
    /\ \A q \in Node \ S : d.prev[q] = m.prev[q] /\ d.key[q] = m.key[q] /\ d.value[q] = m.value[q]

(* Freeing nodes of one IntoIter changes nothing for the others. *)
FreedLeaves(m, its, i, S, d) ==
    /\ d \in Map /\ d.present = m.present /\ ItemsOf(d) = ItemsOf(m)
    /\ \A q \in Node \ S : d.prev[q] = m.prev[q] /\ d.key[q] = m.key[q] /\ d.value[q] = m.value[q]
    /\ \A l \in DOMAIN its : l # i => Pending(d, its[l]) = Pending(m, its[l])

(* Iterator i has yielded the node p: it had the items s to yield, and has u. *)
StepsAt(i, s, jt, u, d, its) ==
    /\ i \in DOMAIN iters /\ DOMAIN iters = 1 .. Len(iters) /\ its = [iters EXCEPT ![i] = jt]
    /\ Pending(map, iters[i]) = [type |-> iters[i].type, items |-> s]
    /\ Pending(d, jt) = [type |-> iters[i].type, items |-> u]
    /\ \A l \in DOMAIN iters : l # i => Pending(d, iters[l]) = Pending(map, iters[l])

Yielding(i, p, s, jt, u) ==
    /\ i \in DOMAIN iters /\ DOMAIN iters = 1 .. Len(iters) /\ iters' = [iters EXCEPT ![i] = jt]
    /\ Taken(i, p, map', held') /\ s # <<>>
    /\ Pending(map, iters[i]) = [type |-> iters[i].type, items |-> s]
    /\ Pending(map', jt) = [type |-> iters[i].type, items |-> u]
    /\ returned' = Item(map, p)

(* Iterator i is dropped: the others have to yield what they had. *)
DroppedAt(i, d, its) ==
    /\ i \in DOMAIN iters /\ iters \in Seq(Iterator) /\ its = RemoveAt(iters, i)
    /\ \A l \in DOMAIN iters : l # i => Pending(d, iters[l]) = Pending(map, iters[l])

(* What a drop of iterator i does to the map d. *)
Dropping(i, d) ==
    /\ d.present = map.present /\ ItemsOf(d) = ItemsOf(map) /\ HeldKeys(d, held) = HeldKeys(map, held)
    /\ \A l \in DOMAIN iters : l # i => Pending(d, iters[l]) = Pending(map, iters[l])

(* An iterator is added. *)
AddedTo(d, it, its, x) ==
    /\ its = Append(iters, it) /\ iters \in Seq(Iterator) /\ it \in Iterator
    /\ Pending(d, it) = x
    /\ \A l \in DOMAIN iters : Pending(d, iters[l]) = Pending(map, iters[l])

(* A new iterator has all entries to yield. *)
BeginAt(m, c, n, d, it) ==
    /\ SolidOf(m, c, n) /\ d \in Map /\ it \in Iterator /\ it.remaining = n
    /\ n # 0 => it.head = c[1]
    /\ \A j \in 1 .. n - 1 : d.prev[c[j]] = c[j + 1]
    /\ \A j \in 1 .. n : d.key[c[j]] = m.key[c[j]] /\ d.value[c[j]] = m.value[c[j]]

(* A map gives its entries away, to a drain or to an IntoIter. *)
GivesAway(type, it) ==
    /\ Writable /\ type \in {"Drain", "IntoIter"} /\ it \in Iterator /\ iters' = Append(iters, it)
    /\ Pending(map', it) = [type |-> type, items |-> ItemsOf(map)]
    /\ ItemsOf(map') = <<>> /\ map'.present = (type # "IntoIter")
    /\ returned' = <<>> /\ held' = held

(* Iterator i has a twin jt: it has to yield the same, and the others what they had. *)
Twin(i, jt) ==
    /\ i \in DOMAIN iters /\ iters \in Seq(Iterator) /\ jt \in Iterator /\ iters' = Append(iters, jt)
    /\ Pending(map', jt) = Pending(map, iters[i])
    /\ \A l \in DOMAIN iters : Pending(map', iters[l]) = Pending(map, iters[l])
    /\ ItemsOf(map') = ItemsOf(map) /\ map'.present = map.present
    /\ HeldKeys(map', held') = HeldKeys(map, held) /\ CloneIter(i)

(* The copies of an IntoIter, as iterators see them. *)
CopiedAt(m, its, i, r, g, e, h) ==
    /\ GoneSide(m, its) /\ i \in DOMAIN its /\ m.live = Loose(m, its) /\ r # 0 /\ r = its[i].remaining
    /\ CopiesAt(m, its[i], r, g) /\ Copying(m, r, g, r, e, h)
=============================================================================
