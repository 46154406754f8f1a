--------------------------- MODULE MultilevelVecMap ---------------------------
(***************************************************************************)
(* The map of shared/src/utils/multilevel_vec_map.rs, from keys of a few   *)
(* words.  The words of a key lead through nested vectors, one for each    *)
(* level; a key shorter than the levels continues with zeros and one with  *)
(* more words than levels is not taken.  The vectors are abstracted to the *)
(* function from the words that lead to a value; a word is the set of its  *)
(* bits, so zero is {}.                                                    *)
(***************************************************************************)
EXTENDS Integers, Sequences

with_capacity(levels) == [n |-> 0, levels |-> levels, vec |-> [path \in {} |-> 0]]

Fits(m, key) == Len(key) <= m.levels
Along(m, key) == [k \in 1 .. m.levels |-> IF k <= Len(key) THEN key[k] ELSE {}]

contains_key(m, key) == Fits(m, key) /\ Along(m, key) \in DOMAIN m.vec
get(m, key) == m.vec[Along(m, key)]

insert(m, key, value) ==
    LET path == Along(m, key)
    IN  IF ~Fits(m, key) THEN m
        ELSE [m EXCEPT !.n = IF path \in DOMAIN m.vec THEN @ ELSE @ + 1,
                       !.vec = [p \in DOMAIN @ \cup {path} |-> IF p = path THEN value ELSE @[p]]]
=============================================================================
