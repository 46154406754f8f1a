----------------------------- MODULE LinkedVecMap -----------------------------
(***************************************************************************)
(* The linked map of shared/src/utils/linked_vec_map.rs: a VecMap from     *)
(* keys to nodes of a circular list that starts at a guard node, with      *)
(* removed nodes kept in a free list.  The code is unsafe Rust; memory is  *)
(* the set live of allocated addresses and a field of each node is a       *)
(* function of its address.  The back of the map is head.next, its front   *)
(* head.prev.  A value that has been moved out of a node reads as Null.    *)
(*                                                                         *)
(* What the borrow checker admits is admitted here: readers beside shared  *)
(* iterators, and a change beside no iterator and no entry in the hands of *)
(* the caller.  A caller may hold several entries of one entries() pass.   *)
(***************************************************************************)
EXTENDS Integers, Sequences, SequencesExt, FiniteSets, FiniteSetsExt

CONSTANTS
    Keys,
    Values,
    Given,      \* bound: the values that callers give for each key
    Addr,       \* addresses of nodes
    Vacant(_, _),   \* the allocator: an address for a node of a key, given those in use
    MaxIters    \* bound: shared iterators at a time, and clones of an IntoIter

Null == 0
NoKey == -1

ASSUME LinkedVecMapAssumption ==
    /\ Keys \subseteq Nat /\ Values \subseteq Nat \ {0}
    /\ Addr \subseteq Nat \ {0} /\ IsFiniteSet(Addr)
    /\ Given \in [Keys -> SUBSET Values] /\ MaxIters \in Nat
    /\ \A live \in SUBSET Addr, k \in Keys \cup {NoKey} :
          live # Addr => Vacant(live, k) \in Addr \ live

VARIABLES
    map,        \* the map and the memory: see Map
    iters,      \* iterators, each with its head, tail and remaining
    held,       \* nodes of the OccupiedEntry values of the caller
    returned    \* what the last call returned: <<>> is None

vars == <<map, iters, held, returned>>

Index == INSTANCE VecMap WITH None <- Null

Node == Addr \cup {Null}
Kind == {"Iter", "IterMut", "Entries", "Drain", "IntoIter"}

Map ==
    [index : [n : Nat, v : Seq(Node)], head : Node, free : Node,
     next : [Node -> Node], prev : [Node -> Node],
     key : [Node -> Keys \cup {NoKey}], value : [Node -> Values \cup {Null}],
     live : SUBSET Addr, present : BOOLEAN]

TypeOK ==
    /\ map \in Map
    /\ iters \in Seq([type : Kind, head : Node, tail : Node, remaining : Nat])
    /\ held \subseteq Addr

new ==
    LET none == [p \in Node |-> Null]
    IN  [index |-> Index!new, head |-> Null, free |-> Null, next |-> none, prev |-> none,
         key |-> [p \in Node |-> NoKey], value |-> none, live |-> {}, present |-> TRUE]

Init == map = new /\ iters = <<>> /\ held = {} /\ returned = <<>>
-----------------------------------------------------------------------------
(* Memory and the list.                                                    *)
(* n nodes from p, following the field f; and those before end.            *)
Path(f, p, n) ==
    LET at[i \in 0 .. n] == IF i = 0 THEN p ELSE f[at[i - 1]]
    IN  [i \in 1 .. n |-> at[i - 1]]

Until(f, p, end) ==
    LET path == Path(f, p, Cardinality(Addr) + 1)
        ends == {i \in DOMAIN path : path[i] = end}
    IN  SubSeq(path, 1, Min(ends \cup {Cardinality(Addr) + 1}) - 1)

(* There is room for n nodes; a program that runs out of memory is aborted. *)
Room(n) == Cardinality(Addr \ map.live) >= n

(* Node::new written at p. *)
Written(m, p, k, v) ==
    [m EXCEPT !.live = @ \cup {p}, !.next[p] = Null, !.prev[p] = Null, !.key[p] = k, !.value[p] = v]

(* What is in nodes that have no entry is never read again. *)
Blank(f, S, none) == [p \in Node |-> IF p \in S THEN none ELSE f[p]]
Forgotten(m, S) ==
    [m EXCEPT !.prev = Blank(@, S, Null), !.key = Blank(@, S, NoKey), !.value = Blank(@, S, Null)]
Freed(m, S) == [Forgotten(m, S) EXCEPT !.live = @ \ S, !.next = Blank(@, S, Null)]

drop_empty_node(m, p) == Freed(m, {p})

detach(m, p) == [m EXCEPT !.next[m.prev[p]] = m.next[p], !.prev[m.next[p]] = m.prev[p]]

attach(m, p) ==
    LET back == m.next[m.head]
    IN  [m EXCEPT !.next = [@ EXCEPT ![p] = back, ![m.head] = p],
                  !.prev = [@ EXCEPT ![p] = m.head, ![back] = p]]

drop_entries(m) == Freed(m, ToSet(Until(m.next, m.next[m.head], m.head)))

clear_free_list(m) == [Freed(m, ToSet(Until(m.next, m.free, Null))) EXCEPT !.free = Null]

ensure_guard_node(m) ==
    LET p == Vacant(m.live, NoKey)
    IN  IF m.head # Null THEN m
        ELSE [Written(m, p, NoKey, Null) EXCEPT !.head = p, !.next[p] = p, !.prev[p] = p]

(* A recycled node, or a new one. *)
Recycled(m, k, v) ==
    IF m.free = Null THEN [map |-> Written(m, Vacant(m.live, k), k, v), node |-> Vacant(m.live, k)]
    ELSE [map |-> Written([m EXCEPT !.free = m.next[m.free]], m.free, k, v), node |-> m.free]

Refreshed(m, p) == attach(detach(m, p), p)
-----------------------------------------------------------------------------
(* Calls on the map. *)
Iterable == map.present /\ held = {} /\ \A i \in DOMAIN iters : iters[i].type = "Iter"
Writable == map.present /\ held = {} /\ iters = <<>>

Call(m, result) == map' = m /\ returned' = result /\ UNCHANGED <<iters, held>>

At(k) == Index!get(map.index, k)

(* get, contains_key, Index. *)
Found(k) == IF At(k) = Null THEN <<>> ELSE <<map.value[At(k)]>>

insert(m, k, v) ==
    LET guarded == ensure_guard_node(m)
        p == Index!get(m.index, k)
        fresh == Recycled(guarded, k, v)
    IN  IF p # Null THEN Refreshed([guarded EXCEPT !.value[p] = v], p)
        ELSE attach([fresh.map EXCEPT !.index = Index!insert(@, k, fresh.node)], fresh.node)

Insert(k, v) == Writable /\ Room(2) /\ Call(insert(map, k, v), Found(k))

(* get_mut, IndexMut and Entry::and_modify, and a write of the caller. *)
GetMut(k, v) ==
    Writable /\ Call(IF At(k) = Null THEN map ELSE [map EXCEPT !.value[At(k)] = v], Found(k))

GetRefresh(k) == Writable /\ Call(IF At(k) = Null THEN map ELSE Refreshed(map, At(k)), Found(k))

(* The node is detached and goes to the free list. *)
remove(m, k) ==
    LET p == Index!get(m.index, k)
        removed == [m EXCEPT !.index = Index!remove(@, k)]
    IN  IF p = Null THEN removed
        ELSE Forgotten([detach(removed, p) EXCEPT !.next[p] = m.free, !.free = p], {p})

RemoveKey(k) == Writable /\ Call(remove(map, k), Found(k))

Item(m, p) == <<m.key[p], m.value[p]>>

(* A popped node is freed and not recycled. *)
Pop(p) ==
    LET e == At(map.key[p])
        m == [detach(map, p) EXCEPT !.index = Index!remove(@, map.key[p])]
    IN  /\ Writable
        /\ IF map.index.n = 0 THEN Call(map, <<>>)
           ELSE IF e = Null THEN Call(m, <<>>)
           ELSE Call(drop_empty_node(m, e), Item(map, e))

pop_front == Pop(map.prev[map.head])
pop_back == Pop(map.next[map.head])

Peek(p) ==
    LET e == At(map.key[p])
    IN  IF map.index.n = 0 \/ e = Null THEN <<>> ELSE Item(map, e)

front == Peek(map.prev[map.head])
back == Peek(map.next[map.head])

ClearKeepsRing(m) ==
    IF m.head = Null THEN m ELSE [drop_entries(m) EXCEPT !.index = Index!clear(@)]

(* The free list is kept. *)
clear(m) ==
    LET cleared == [m EXCEPT !.index = Index!clear(@)]
    IN  IF m.head = Null THEN cleared
        ELSE [drop_entries(cleared) EXCEPT !.prev[m.head] = m.head, !.next[m.head] = m.head]

Clear == Writable /\ Call(clear(map), <<>>)

ShrinkToFit ==
    Writable /\ Call([clear_free_list(map) EXCEPT !.index = Index!shrink_to_fit(@)], <<>>)

(* Drop::drop. *)
drop(m) ==
    LET entries_gone == IF m.head = Null THEN m ELSE drop_empty_node(drop_entries(m), m.head)
    IN  [clear_free_list(entries_gone) EXCEPT !.index = Index!new, !.head = Null, !.present = FALSE]

DropMap == Writable /\ Call(drop(map), <<>>)

(* The entries of a map, front to back. *)
Nodes(m) == IF m.head = Null THEN <<>> ELSE Path(m.prev, m.prev[m.head], m.index.n)
ItemsOf(m) == LET nodes == Nodes(m) IN [i \in DOMAIN nodes |-> Item(m, nodes[i])]

(* Extend: insert each of the items. *)
extend(m, items) ==
    LET done[i \in 0 .. Len(items)] ==
            IF i = 0 THEN m ELSE insert(done[i - 1], items[i][1], items[i][2])
    IN  done[Len(items)]

Clone == extend([map EXCEPT !.index = Index!new, !.head = Null, !.free = Null], ItemsOf(map))

New == ~map.present /\ iters = <<>> /\ Call([map EXCEPT !.present = TRUE], <<>>)
-----------------------------------------------------------------------------
(* The entry API. *)
EntryOccupied(k) ==
    /\ Writable /\ At(k) # Null
    /\ held' = {At(k)}
    /\ returned' = <<>> /\ UNCHANGED <<map, iters>>

(* or_insert, or_insert_with and or_default: VacantEntry::insert attaches  *)
(* the node before it is in the index.                                     *)
OrInsert(k, v) ==
    LET fresh == Recycled(ensure_guard_node(map), k, v)
    IN  /\ Writable /\ Room(2)
        /\ IF At(k) # Null THEN Call(map, Found(k))
           ELSE Call([attach(fresh.map, fresh.node) EXCEPT
                         !.index = Index!get_or_insert(@, k, fresh.node)], <<v>>)

OccupiedInsert(p, v) ==
    Call(Refreshed([ensure_guard_node(map) EXCEPT !.value[p] = v], p), <<map.value[p]>>)

OccupiedRemove(p) ==
    /\ map' = remove(map, map.key[p])
    /\ returned' = Found(map.key[p])
    /\ held' = held \ {p}
    /\ UNCHANGED iters

OccupiedDrop(p) == held' = held \ {p} /\ returned' = <<>> /\ UNCHANGED <<map, iters>>
-----------------------------------------------------------------------------
(* Iterators. *)
Begin(iter, m) == iters' = Append(iters, iter) /\ map' = m /\ returned' = <<>> /\ UNCHANGED held

First == IF map.head = Null THEN Null ELSE map.prev[map.head]

(* iter, iter_mut and entries. *)
iter(type) ==
    /\ type \in {"Iter", "IterMut", "Entries"}
    /\ IF type = "Iter" THEN Iterable /\ Len(iters) < MaxIters ELSE Writable
    /\ Begin([type |-> type, head |-> First, tail |-> IF type = "Entries" THEN Null ELSE map.head,
              remaining |-> map.index.n], map)

(* The whole list is put before the free list. *)
drain ==
    LET h == map.prev[map.head]
        t == map.next[map.head]
        cleared == [map EXCEPT !.index = Index!clear(@)]
        moved == [cleared EXCEPT !.prev = [@ EXCEPT ![map.head] = map.head, ![t] = Null],
                                 !.next = [@ EXCEPT ![map.head] = map.head, ![h] = map.free],
                                 !.free = t]
    IN  /\ Writable
        /\ IF map.index.n # 0
           THEN Begin([type |-> "Drain", head |-> h, tail |-> t, remaining |-> map.index.n], moved)
           ELSE Begin([type |-> "Drain", head |-> Null, tail |-> Null, remaining |-> 0], cleared)

(* The guard node and the free list are freed, the entries stay.           *)
into_iter ==
    LET last == IF map.head = Null THEN Null ELSE map.next[map.head]
        unguarded == IF map.head = Null THEN map ELSE drop_empty_node(map, map.head)
    IN  /\ Writable
        /\ Begin([type |-> "IntoIter", head |-> First, tail |-> last, remaining |-> map.index.n],
                 [clear_free_list(unguarded) EXCEPT
                     !.index = Index!new, !.head = Null, !.present = FALSE])

CloneShallow(m, i) == [map |-> m, iter |-> iters[i]]

(* An IntoIter owns its nodes: its clone has copies of those that remain.  *)
Copied(acc, p) ==
    LET q == Vacant(acc.map.live, acc.map.key[p])
        written == Written(acc.map, q, acc.map.key[p], acc.map.value[p])
        linked == [written EXCEPT !.prev[acc.iter.tail] = q, !.next[q] = acc.iter.tail]
    IN  IF acc.iter.head = Null
        THEN [map |-> written, iter |-> [acc.iter EXCEPT !.head = q, !.tail = q]]
        ELSE [map |-> linked, iter |-> [acc.iter EXCEPT !.tail = q]]

clone(m, i) ==
    LET it == iters[i]
        copied[j \in 0 .. it.remaining] ==
            IF j = 0 THEN [map |-> m, iter |-> [it EXCEPT !.head = Null, !.tail = Null]]
            ELSE Copied(copied[j - 1], Path(m.prev, it.head, it.remaining)[j])
    IN  IF it.type = "Iter" \/ it.remaining = 0 THEN [map |-> m, iter |-> it]
        ELSE copied[it.remaining]

CloneIter(i) ==
    /\ \/ iters[i].type = "Iter" /\ Len(iters) < MaxIters
       \/ iters[i].type = "IntoIter" /\ Len(iters) <= MaxIters /\ Room(iters[i].remaining)
    /\ Begin(clone(map, i).iter, clone(map, i).map)

EndedAtTail(it) == it.head = it.tail \/ it.remaining = 0

(* Iter and IterMut stop where head meets tail, the others after remaining. *)
Ended(it) == IF it.type \in {"Iter", "IterMut"} THEN it.head = it.tail ELSE it.remaining = 0

(* Yielding the item of node p: a drain moves it out, an IntoIter frees    *)
(* the node, the caller of an IterMut may write the value.                 *)
YieldNode(it, p, m) ==
    CASE it.type = "Drain" -> m = Forgotten(map, {p})
      [] it.type = "IntoIter" -> m = drop_empty_node(map, p)
      [] it.type = "IterMut" -> \E v \in Given[map.key[p]] : m = [map EXCEPT !.value[p] = v]
      [] OTHER -> m = map

Yields(i, p, it) ==
    /\ ~Ended(iters[i])
    /\ iters' = [iters EXCEPT ![i] = [it EXCEPT !.remaining = @ - 1]]
    /\ returned' = Item(map, p)
    /\ YieldNode(it, p, map')
    /\ held' = IF it.type = "Entries" THEN held \cup {p} ELSE held

next(i) ==
    Yields(i, iters[i].head, [iters[i] EXCEPT !.head = map.prev[@]])

(* Iter and IterMut move the tail before they read it, the others after.   *)
next_back(i) ==
    LET it == iters[i]
        t == map.next[it.tail]
    IN  /\ it.type # "Entries"
        /\ Yields(i, IF it.type \in {"Iter", "IterMut"} THEN t ELSE it.tail, [it EXCEPT !.tail = t])

Exhausted(i) == Ended(iters[i]) /\ Call(map, <<>>)

(* Drop: an IntoIter frees the nodes that remain, a drain reads them.      *)
DropIter(i) ==
    LET it == iters[i]
    IN  /\ map' = CASE it.type = "IntoIter" ->
                          Freed(map, ToSet(Path(map.next, it.tail, it.remaining)))
                    [] it.type = "Drain" -> Forgotten(map, ToSet(Path(map.prev, it.head, it.remaining)))
                    [] OTHER -> map
        /\ iters' = RemoveAt(iters, i)
        /\ returned' = <<>> /\ UNCHANGED held
-----------------------------------------------------------------------------
Iterators ==
    \/ \E type \in Kind : iter(type)
    \/ drain
    \/ into_iter
    \/ \E i \in DOMAIN iters : CloneIter(i) \/ next(i) \/ next_back(i) \/ Exhausted(i) \/ DropIter(i)

Next ==
    \/ \E k \in Keys :
          \/ GetRefresh(k) \/ RemoveKey(k) \/ EntryOccupied(k)
          \/ \E v \in Given[k] : Insert(k, v) \/ GetMut(k, v) \/ OrInsert(k, v)
    \/ \E p \in held :
          OccupiedRemove(p) \/ OccupiedDrop(p) \/ \E v \in Given[map.key[p]] : OccupiedInsert(p, v)
    \/ pop_front \/ pop_back
    \/ Clear \/ ShrinkToFit \/ DropMap \/ New
    \/ Iterators

Spec == Init /\ [][Next]_vars
-----------------------------------------------------------------------------
(* The nodes an IntoIter owns. *)
Owned(it) == IF it.type = "IntoIter" THEN Path(map.prev, it.head, it.remaining) ELSE <<>>

(* The allocated nodes are exactly the guard, the entries, the free list   *)
(* and the nodes of IntoIter iterators, and none is in two of these or     *)
(* twice in one: nothing leaks, and nothing freed can be reached or freed  *)
(* again, by any order of calls.  A held entry is in the list.             *)
MemorySafe ==
    LET guard == IF map.head = Null THEN <<>> ELSE <<map.head>>
        owned == [i \in DOMAIN iters |-> Owned(iters[i])]
        lists == <<guard, Nodes(map), Until(map.next, map.free, Null)>> \o owned
    IN  /\ \A i \in DOMAIN lists : IsInjective(lists[i])
        /\ \A i, j \in DOMAIN lists : i # j => ToSet(lists[i]) \cap ToSet(lists[j]) = {}
        /\ UNION {ToSet(lists[i]) : i \in DOMAIN lists} = map.live
        /\ held \subseteq ToSet(Nodes(map))

(* The index and the list tell the same: the ring closes after n steps in  *)
(* either direction, each node is at its key's place in the index and no   *)
(* other place is taken.  So get, front and back answer what the list      *)
(* says, and a clone built by inserting the entries has the same entries.  *)
IndexAgrees ==
    LET nodes == Nodes(map)
        items == ItemsOf(map)
    IN  /\ map.head # Null =>
              /\ nodes = Until(map.prev, map.prev[map.head], map.head)
              /\ Reverse(nodes) = Until(map.next, map.next[map.head], map.head)
        /\ \A i \in DOMAIN items : Found(items[i][1]) = <<items[i][2]>>
        /\ \A k \in Keys : Found(k) # <<>> => \E i \in DOMAIN items : items[i][1] = k
        /\ front = IF items = <<>> THEN <<>> ELSE Head(items)
        /\ back = IF items = <<>> THEN <<>> ELSE Last(items)
        /\ Room(map.index.n + 1) => ItemsOf(Clone) = items

(* What an iterator has still to yield: as many items as it says it has,   *)
(* though Iter and IterMut end where head meets tail.                      *)
Pending(m, it) ==
    LET nodes == Path(m.prev, it.head, it.remaining)
    IN  [type |-> it.type, items |-> [j \in DOMAIN nodes |-> Item(m, nodes[j])]]

AllPending(m, its) == [i \in DOMAIN its |-> Pending(m, its[i])]
HeldKeys(m, h) == {m.key[p] : p \in h}

Abs == INSTANCE OrderedMap WITH
    entries <- ItemsOf(map),
    iters <- AllPending(map, iters),
    held <- HeldKeys(map, held),
    present <- map.present

(* The linked map is a map that remembers the order of insertion: every    *)
(* call returns and leaves what OrderedMap says, with the list, the free   *)
(* list and the raw pointers of iterators hidden.                          *)
Implements == Abs!Spec
=============================================================================
