---------------------------- MODULE PriorityQueue ----------------------------
(***************************************************************************)
(* The binary heap with an index (shared/src/utils/priority_queue.rs) in   *)
(* which the scheduler keeps its workers and tasks.                        *)
(*                                                                         *)
(* An operation is one action that makes the change and sets up the loops  *)
(* that follow it, bubble_up and heapify, whose iterations are steps.      *)
(* &mut self keeps everything else out until they are done: operations     *)
(* start in `pc` "idle" only.                                              *)
(*                                                                         *)
(* The order is Max; Min is the same with the opposite comparison.  A heap *)
(* position is counted from 1 here, so that parent(i) is i \div 2.         *)
(***************************************************************************)
EXTENDS Integers, Sequences

CONSTANTS Ids, Values

ASSUME PriorityQueueAssumption == Values \subseteq Int

VARIABLES
    heap,       \* Vec<Id>
    value,      \* map: the value of each id
    place,      \* map: the heap position of each id
    pc,         \* "idle", or the loop that runs: "up" (bubble_up), "down" (heapify)
    at,         \* position of that loop
    then,       \* what follows bubble_up: "down" in up_heapify, else "idle"
    sweep,      \* next position of the loop in map(), 0 outside of it
    decayed     \* a change was made that need not keep the heap order

contents == <<heap, value, place>>
loop == <<pc, at, then, sweep>>
vars == <<contents, loop, decayed>>

Size == Len(heap)
Held == DOMAIN value
parent(i) == i \div 2
left(i) == 2 * i
right(i) == 2 * i + 1
Val(i) == value[heap[i]]
cmp_priority(lower, larger) == lower < larger

Init ==
    /\ heap = <<>>
    /\ value = [id \in {} |-> 0]
    /\ place = [id \in {} |-> 0]
    /\ pc = "idle" /\ at = 1 /\ then = "idle" /\ sweep = 0
    /\ decayed = FALSE
-----------------------------------------------------------------------------
(* The loops. *)

Run(what, i, next) == pc' = what /\ at' = i /\ then' = next
Stop == pc' = "idle" /\ at' = 1 /\ then' = "idle"

(* bubble_up: the id that rises gets its place only at the end. *)
RisesButSecond == at > 2 /\ cmp_priority(Val(parent(at)), Val(at))
Rises == at > 1 /\ cmp_priority(Val(parent(at)), Val(at))

Rise ==
    /\ pc = "up"
    /\ Rises
    /\ heap' = [heap EXCEPT ![at] = heap[parent(at)], ![parent(at)] = heap[at]]
    /\ place' = [place EXCEPT ![heap[parent(at)]] = at]
    /\ at' = parent(at)
    /\ UNCHANGED <<value, pc, then, sweep, decayed>>

Unplaced == place
Placed == [place EXCEPT ![heap[at]] = at]
EndRise ==
    /\ pc = "up"
    /\ ~Rises
    /\ place' = Placed
    /\ IF then = "down" THEN Run("down", at, "idle") ELSE Stop
    /\ UNCHANGED <<heap, value, sweep, decayed>>

(* heapify: the child to swap with, the position itself if there is none.  *)
LeftOnly == IF left(at) <= Size /\ cmp_priority(Val(at), Val(left(at))) THEN left(at) ELSE at
Largest ==
    LET best == IF left(at) <= Size /\ cmp_priority(Val(at), Val(left(at))) THEN left(at) ELSE at
    IN  IF right(at) <= Size /\ cmp_priority(Val(best), Val(right(at))) THEN right(at) ELSE best

swap(a, b) ==
    /\ heap' = [heap EXCEPT ![a] = heap[b], ![b] = heap[a]]
    /\ place' = [place EXCEPT ![heap[a]] = place[heap[b]], ![heap[b]] = place[heap[a]]]

Sink ==
    /\ pc = "down"
    /\ Size > 1
    /\ Largest # at
    /\ swap(at, Largest)
    /\ at' = Largest
    /\ UNCHANGED <<value, pc, then, sweep, decayed>>

EndSink ==
    /\ pc = "down"
    /\ Size <= 1 \/ Largest = at
    /\ IF sweep \in 1 .. Size
       THEN Run("up", sweep, "down") /\ sweep' = sweep + 1
       ELSE Stop /\ sweep' = 0
    /\ UNCHANGED <<contents, decayed>>
-----------------------------------------------------------------------------
(* The operations. *)

Idle == pc = "idle"

push(id, v) ==
    /\ Idle
    /\ IF id \in Held
       THEN /\ value' = [value EXCEPT ![id] = v]
            /\ Run("up", place[id], "down")
            /\ UNCHANGED <<heap, place>>
       ELSE /\ heap' = Append(heap, id)
            /\ value' = [k \in Held \cup {id} |-> IF k = id THEN v ELSE value[k]]
            /\ place' = [k \in Held \cup {id} |-> IF k = id THEN Size + 1 ELSE place[k]]
            /\ Run("up", Size + 1, "idle")
    /\ UNCHANGED <<sweep, decayed>>

(* Vec::swap_remove and the place of the id that was last. *)
UnmovedPlaces(i) == place
MovedPlaces(i) == [place EXCEPT ![heap[Size]] = i]
swap_remove(i) ==
    LET kept == Held \ {heap[i]}
    IN  /\ heap' = [k \in 1 .. Size - 1 |-> IF k = i THEN heap[Size] ELSE heap[k]]
        /\ place' = [k \in kept |-> MovedPlaces(i)[k]]
        /\ value' = [k \in kept |-> value[k]]

pop ==
    /\ Idle
    /\ Size > 0
    /\ swap_remove(1)
    /\ Run("down", 1, "idle")
    /\ decayed' = (decayed /\ Size > 2)
    /\ UNCHANGED sweep

remove(id) ==
    /\ Idle
    /\ id \in Held
    /\ LET i == place[id]
       IN  /\ swap_remove(i)
           /\ IF i < Size THEN Run("up", i, "down") ELSE Stop
    /\ decayed' = (decayed /\ Size > 2)
    /\ UNCHANGED sweep

change_priority(id, v) ==
    /\ Idle
    /\ id \in Held
    /\ value' = [value EXCEPT ![id] = v]
    /\ Run("up", place[id], "down")
    /\ UNCHANGED <<heap, place, sweep, decayed>>

(* peek_mut, a change through PeekMut, and its drop. *)
peek_mut(v) ==
    /\ Idle
    /\ Size > 0
    /\ value' = [value EXCEPT ![heap[1]] = v]
    /\ Run("down", 1, "idle")
    /\ UNCHANGED <<heap, place, sweep, decayed>>

(* get_mut, a change through RefMut, and its drop, which sifts downwards   *)
(* only.                                                                   *)
get_mut(id, v) ==
    /\ Idle
    /\ id \in Held
    /\ value' = [value EXCEPT ![id] = v]
    /\ Run("down", place[id], "idle")
    /\ decayed' = (decayed \/ cmp_priority(value[id], v))
    /\ UNCHANGED <<heap, place, sweep>>

(* map: the values all change, then up_heapify for each position. *)
map(new) ==
    /\ Idle
    /\ Size > 0
    /\ value' = new
    /\ Run("up", 1, "down")
    /\ sweep' = 2
    /\ decayed' = TRUE
    /\ UNCHANGED <<heap, place>>

clear ==
    /\ Idle
    /\ heap' = <<>>
    /\ value' = [id \in {} |-> 0]
    /\ place' = [id \in {} |-> 0]
    /\ decayed' = FALSE
    /\ UNCHANGED loop
-----------------------------------------------------------------------------
Loop == Rise \/ EndRise \/ Sink \/ EndSink

Next ==
    \/ Loop
    \/ \E id \in Ids, v \in Values : push(id, v) \/ change_priority(id, v) \/ get_mut(id, v)
    \/ \E id \in Ids : remove(id)
    \/ \E v \in Values : peek_mut(v)
    \/ \E new \in [Held -> Values] : map(new)
    \/ pop
    \/ clear

Spec == Init /\ [][Next]_vars
-----------------------------------------------------------------------------
ContentsOK ==
    /\ heap \in Seq(Held)
    /\ Held \subseteq Ids
    /\ \A id \in Held : value[id] \in Values
    /\ DOMAIN place = Held
    /\ \A id \in Held : place[id] \in 1 .. Size
LoopOK ==
    /\ pc \in {"idle", "up", "down"}
    /\ then \in {"idle", "down"}
    /\ at \in Nat \ {0}
    /\ sweep \in Nat
    /\ decayed \in BOOLEAN

(* Types of the queue and of its loops. *)
TypeOK == ContentsOK /\ LoopOK

(* The index and the heap agree: each id is at its place, except for the   *)
(* one that bubble_up carries.  get_unchecked and remove rely on it.       *)
IndexExact ==
    /\ \A i \in 1 .. Size : (pc # "up" \/ i # at) => place[heap[i]] = i
    /\ \A id \in Held : \E i \in 1 .. Size : heap[i] = id
    /\ pc # "idle" => at <= Size \/ (pc = "down" /\ at = 1)

(* Between operations no value is larger than its parent's, unless a value *)
(* was raised through get_mut or changed by map() since the queue had      *)
(* fewer than two entries.                                                 *)
HeapOrder ==
    Idle /\ ~decayed => \A i \in 2 .. Size : ~cmp_priority(Val(parent(i)), Val(i))

(* Then peek, peek_mut and pop yield a largest value. *)
RootLargest ==
    Idle /\ ~decayed => \A id \in Held : ~cmp_priority(Val(1), value[id])

(* The inductive invariant of the proofs: ids are not repeated, the loops  *)
(* stay inside the heap, and while a loop runs the order holds everywhere  *)
(* but around its position, whose children are not above its parent.       *)
Distinct == \A i, j \in 1 .. Size : heap[i] = heap[j] => i = j
Control ==
    /\ pc = "idle" \/ (pc = "up" /\ then = "idle") => sweep = 0
    /\ pc # "up" => then = "idle"
    /\ sweep # 0 => decayed
Vals == [i \in 1 .. Size |-> Val(i)]
OrderedExcept(v, m, k, up) ==
    /\ \A i \in 2 .. m : parent(i) = k \/ (up /\ i = k) \/ v[i] <= v[parent(i)]
    /\ \A i \in 2 .. m : parent(i) = k /\ k > 1 => v[i] <= v[parent(k)]
OrderedBelow(v, m, k) == \A i \in 2 .. m : parent(i) = k => v[i] <= v[k]
LoopOrder ==
    pc # "idle" /\ ~decayed =>
        /\ OrderedExcept(Vals, Size, at, pc = "up")
        /\ pc = "up" /\ then = "idle" => OrderedBelow(Vals, Size, at)
IInv ==
    /\ TypeOK
    /\ IndexExact
    /\ Distinct
    /\ Control
    /\ HeapOrder
    /\ LoopOrder
=============================================================================
