-------------------------------- MODULE VecMap --------------------------------
(***************************************************************************)
(* The map from small numbers of shared/src/utils/vec_map.rs: n counts the *)
(* values, v is the vector of options, in which key k is v[k + 1].  Each   *)
(* operator is the map after a method, or what the method returns.         *)
(***************************************************************************)
EXTENDS Integers, Sequences, FiniteSetsExt

CONSTANT None

new == [n |-> 0, v |-> <<>>]

get(m, k) == IF k + 1 \in DOMAIN m.v THEN m.v[k + 1] ELSE None

contains_key(m, k) == get(m, k) # None

(* The vector with a place for key k. *)
Extended(v, k) == IF Len(v) <= k THEN v \o [i \in 1 .. k - Len(v) + 1 |-> None] ELSE v

insert(m, k, x) ==
    [n |-> IF contains_key(m, k) THEN m.n ELSE m.n + 1,
     v |-> [Extended(m.v, k) EXCEPT ![k + 1] = x]]

get_or_insert(m, k, x) == IF contains_key(m, k) THEN m ELSE insert(m, k, x)

RemoveCountsAbsent(m, k) ==
    IF k + 1 \in DOMAIN m.v THEN [n |-> m.n - 1, v |-> [m.v EXCEPT ![k + 1] = None]] ELSE m

remove(m, k) ==
    IF contains_key(m, k) THEN [n |-> m.n - 1, v |-> [m.v EXCEPT ![k + 1] = None]] ELSE m

clear(m) == new

(* Trailing absent values are stripped off. *)
shrink_to_fit(m) ==
    LET some == {i \in DOMAIN m.v : m.v[i] # None}
    IN  [m EXCEPT !.v = IF some = {} THEN <<>> ELSE SubSeq(@, 1, Max(some))]
=============================================================================
