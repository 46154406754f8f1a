---------------------------- MODULE MCLinkedVecMap ----------------------------
(* Instance of LinkedVecMap for TLC: key 0 takes two values, so that an    *)
(* update shows, and the other keys one.                                   *)
EXTENDS LinkedVecMap

(* Addresses are interchangeable: an allocator that gives a node of key k  *)
(* the same address whenever it can keeps the states few.                  *)
NearKey(live, k) == IF k + 1 \in Addr \ live THEN k + 1 ELSE Max(Addr \ live)

TwoForFirst == [k \in Keys |-> IF k = 0 THEN Values ELSE {1}]
=============================================================================
