------------------------------ MODULE OrderedMap ------------------------------
(***************************************************************************)
(* What a linked vector map promises: a sequence of entries with distinct  *)
(* keys, oldest first, of which a call moves or removes one; iterators     *)
(* that yield the entries they were made of once each, from either end;    *)
(* and entries held by a caller.  A call returns a sequence: <<>> is None. *)
(***************************************************************************)
EXTENDS Integers, Sequences

CONSTANTS Keys, Given, MaxIters

VARIABLES entries, iters, held, returned, present

(* These three are those of SequencesExt: the proofs reason about an        *)
(* instance of this module, which would have all operators of that one.    *)
RemoveAt(s, i) == SubSeq(s, 1, i - 1) \o SubSeq(s, i + 1, Len(s))
Front(s) == SubSeq(s, 1, Len(s) - 1)
Last(s) == s[Len(s)]

vars == <<entries, iters, held, returned, present>>

Has(k) == \E i \in DOMAIN entries : entries[i][1] = k
Place(k) == CHOOSE i \in DOMAIN entries : entries[i][1] = k
Found(k) == IF Has(k) THEN <<entries[Place(k)][2]>> ELSE <<>>
Others(k) == IF Has(k) THEN RemoveAt(entries, Place(k)) ELSE entries
Updated(k, v) == [i \in DOMAIN entries |-> IF entries[i][1] = k THEN <<k, v>> ELSE entries[i]]

Init == entries = <<>> /\ iters = <<>> /\ held = {} /\ returned = <<>> /\ present = TRUE

(* Shared iterators are made beside each other, changes beside no borrow.  *)
Iterable == present /\ held = {} /\ \A i \in DOMAIN iters : iters[i].type = "Iter"
Writable == present /\ held = {} /\ iters = <<>>

Write == Writable /\ UNCHANGED <<iters, held, present>>

Insert(k, v) == Write /\ entries' = Append(Others(k), <<k, v>>) /\ returned' = Found(k)
GetMut(k, v) == Write /\ entries' = Updated(k, v) /\ returned' = Found(k)
GetRefresh(k) ==
    Write /\ returned' = Found(k)
          /\ entries' = IF Has(k) THEN Append(Others(k), <<k, Found(k)[1]>>) ELSE entries
OrInsert(k, v) ==
    /\ Write
    /\ entries' = IF Has(k) THEN entries ELSE Append(entries, <<k, v>>)
    /\ returned' = IF Has(k) THEN Found(k) ELSE <<v>>
RemoveKey(k) == Write /\ entries' = Others(k) /\ returned' = Found(k)
PopFront ==
    /\ Write
    /\ entries' = IF entries = <<>> THEN <<>> ELSE Tail(entries)
    /\ returned' = IF entries = <<>> THEN <<>> ELSE Head(entries)
PopBack ==
    /\ Write
    /\ entries' = IF entries = <<>> THEN <<>> ELSE Front(entries)
    /\ returned' = IF entries = <<>> THEN <<>> ELSE Last(entries)
Clear == Write /\ entries' = <<>> /\ returned' = <<>>
ShrinkToFit == Write /\ UNCHANGED entries /\ returned' = <<>>

(* Entries held by the caller, by their keys. *)
HoldEntry(k) ==
    Writable /\ Has(k) /\ held' = {k} /\ returned' = <<>> /\ UNCHANGED <<entries, iters, present>>
HeldInsert(k, v) ==
    /\ k \in held
    /\ entries' = Append(Others(k), <<k, v>>) /\ returned' = Found(k)
    /\ UNCHANGED <<iters, held, present>>
HeldRemove(k) ==
    /\ k \in held
    /\ entries' = Others(k) /\ returned' = Found(k) /\ held' = held \ {k}
    /\ UNCHANGED <<iters, present>>
HeldDrop(k) ==
    k \in held /\ held' = held \ {k} /\ returned' = <<>> /\ UNCHANGED <<entries, iters, present>>

(* Iterators.  A drain empties the map, into_iter consumes it.             *)
Iterate(type) ==
    /\ IF type = "Iter" THEN Iterable /\ Len(iters) < MaxIters ELSE Writable
    /\ iters' = Append(iters, [type |-> type, items |-> entries])
    /\ entries' = IF type \in {"Drain", "IntoIter"} THEN <<>> ELSE entries
    /\ present' = (type # "IntoIter")
    /\ returned' = <<>> /\ UNCHANGED held

CloneIter(i) ==
    /\ \/ iters[i].type = "Iter" /\ Len(iters) < MaxIters
       \/ iters[i].type = "IntoIter" /\ Len(iters) <= MaxIters
    /\ iters' = Append(iters, iters[i]) /\ returned' = <<>>
    /\ UNCHANGED <<entries, held, present>>

(* The item that iterator i yields, and what is left of it. *)
Yield(i, item, left) ==
    /\ iters[i].items # <<>>
    /\ iters' = [iters EXCEPT ![i].items = left]
    /\ returned' = item
    /\ UNCHANGED present
    /\ held' = IF iters[i].type = "Entries" THEN held \cup {item[1]} ELSE held
    /\ IF iters[i].type = "IterMut" THEN \E v \in Given[item[1]] : entries' = Updated(item[1], v)
       ELSE UNCHANGED entries
NextItem(i) == Yield(i, Head(iters[i].items), Tail(iters[i].items))
NextBack(i) == iters[i].type # "Entries" /\ Yield(i, Last(iters[i].items), Front(iters[i].items))
Exhausted(i) == iters[i].items = <<>> /\ returned' = <<>> /\ UNCHANGED <<entries, iters, held, present>>
DropIter(i) == iters' = RemoveAt(iters, i) /\ returned' = <<>> /\ UNCHANGED <<entries, held, present>>

Drop == Writable /\ entries' = <<>> /\ present' = FALSE /\ returned' = <<>> /\ UNCHANGED <<iters, held>>
New == ~present /\ iters = <<>> /\ present' = TRUE /\ returned' = <<>> /\ UNCHANGED <<entries, iters, held>>

Next ==
    \/ \E k \in Keys :
          \/ GetRefresh(k) \/ RemoveKey(k) \/ HoldEntry(k) \/ HeldRemove(k) \/ HeldDrop(k)
          \/ \E v \in Given[k] : Insert(k, v) \/ GetMut(k, v) \/ OrInsert(k, v) \/ HeldInsert(k, v)
    \/ PopFront \/ PopBack \/ Clear \/ ShrinkToFit
    \/ \E type \in {"Iter", "IterMut", "Entries", "Drain", "IntoIter"} : Iterate(type)
    \/ \E i \in DOMAIN iters : CloneIter(i) \/ NextItem(i) \/ NextBack(i) \/ Exhausted(i) \/ DropIter(i)
    \/ Drop \/ New

Spec == Init /\ [][Next]_vars
=============================================================================
