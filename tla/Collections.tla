----------------------------- MODULE Collections -----------------------------
(* Maps with a key more or less, and lists with a member less: HashMap,    *)
(* Slab and LinkedVecSet as the services use them.                         *)
EXTENDS Integers, Sequences, SequencesExt, FiniteSets, Functions

Without(f, x) == [y \in DOMAIN f \ {x} |-> f[y]]
With(f, x, v) == [y \in DOMAIN f \cup {x} |-> IF y = x THEN v ELSE f[y]]
Drop(s, x) == IF x \in Range(s) THEN RemoveAt(s, CHOOSE i \in DOMAIN s : s[i] = x) ELSE s
=============================================================================
