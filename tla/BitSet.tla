-------------------------------- MODULE BitSet --------------------------------
(***************************************************************************)
(* The set of small numbers of shared/src/utils/bit_set.rs, as used by the *)
(* task manager (TaskSet, a vector of words) and by the job's function (an *)
(* array of words).  A word of w bits is the set of its bits that are set; *)
(* len counts the members.                                                 *)
(***************************************************************************)
EXTENDS Integers, Sequences, SequencesExt, FiniteSets, FiniteSetsExt

(* Bit i of a vector of words. *)
bit_test(inner, w, i) == (i % w) \in inner[i \div w + 1]

Words(S, w, n) == [k \in 1 .. n |-> {i - w * (k - 1) : i \in S \cap (w * (k - 1) .. w * k - 1)}]

with_capacity == [len |-> 0, inner |-> <<>>]

contains(s, w, i) == i \div w < Len(s.inner) /\ bit_test(s.inner, w, i)

Grown(inner, w, i) ==
    IF Len(inner) <= i \div w
    THEN inner \o [k \in 1 .. i \div w - Len(inner) + 1 |-> {}]
    ELSE inner

InsertCountsGrowth(s, w, i) ==
    LET inner == Grown(s.inner, w, i)
    IN  IF bit_test(inner, w, i) THEN s
        ELSE [len |-> IF inner = s.inner THEN s.len + 1 ELSE s.len,
              inner |-> [inner EXCEPT ![i \div w + 1] = @ \cup {i % w}]]

insert(s, w, i) ==
    LET inner == Grown(s.inner, w, i)
    IN  IF bit_test(inner, w, i) THEN s
        ELSE [len |-> s.len + 1, inner |-> [inner EXCEPT ![i \div w + 1] = @ \cup {i % w}]]

remove(s, w, i) ==
    IF contains(s, w, i)
    THEN [len |-> s.len - 1, inner |-> [s.inner EXCEPT ![i \div w + 1] = @ \ {i % w}]]
    ELSE s

is_empty(s) == s.len = 0

(* BitSet::from an array of words, and the members in their order. *)
from(words) == [len |-> FoldLeft(LAMBDA n, word : n + Cardinality(word), 0, words), inner |-> words]

iter(s, w) ==
    LET below[n \in 0 .. Len(s.inner) * w] ==
            IF n = 0 THEN <<>>
            ELSE below[n - 1] \o (IF bit_test(s.inner, w, n - 1) THEN <<n - 1>> ELSE <<>>)
    IN  below[Len(s.inner) * w]
=============================================================================
