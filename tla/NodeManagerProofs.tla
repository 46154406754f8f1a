-------------------------- MODULE NodeManagerProofs --------------------------
(* Theorems about the node manager, for any numbers of peers, slab ids,    *)
(* timers and connections, any platforms and any demands.                  *)
EXTENDS NodeManager, Basics, SequenceTheorems, TLAPS

-----------------------------------------------------------------------------
(* Sequences. *)
LEMMA ConcatIs ==
  ASSUME NEW S, NEW s \in Seq(S), NEW t \in Seq(S)
  PROVE  /\ s \o t \in Seq(S) /\ Len(s \o t) = Len(s) + Len(t)
         /\ Range(s \o t) = Range(s) \cup Range(t)
         /\ IsInjective(s) /\ IsInjective(t) /\ Range(s) \cap Range(t) = {}
              => IsInjective(s \o t)
<1> DEFINE d == s \o t
           m == Len(s)
           n == Len(t)
<1>1. /\ d \in Seq(S) /\ Len(d) = m + n /\ m \in Nat /\ n \in Nat
      /\ \A i \in 1 .. m + n : d[i] = IF i <= m THEN s[i] ELSE t[i - m]
  BY ConcatProperties, LenProperties
<1>2. DOMAIN d = 1 .. m + n /\ DOMAIN s = 1 .. m /\ DOMAIN t = 1 .. n
  BY <1>1, LenProperties
<1> HIDE DEF d, m, n
<1>3. \A i \in 1 .. m : i \in 1 .. m + n /\ d[i] = s[i]
  BY <1>1
<1>4. \A i \in 1 .. n : m + i \in 1 .. m + n /\ d[m + i] = t[i]
  <2> SUFFICES ASSUME NEW i \in 1 .. n PROVE m + i \in 1 .. m + n /\ d[m + i] = t[i]
    OBVIOUS
  <2>1. m + i \in 1 .. m + n /\ ~(m + i <= m) /\ (m + i) - m = i
    BY <1>1
  <2> QED BY <1>1, <2>1
<1>5. \A i \in 1 .. m + n : i \in 1 .. m \/ (i - m \in 1 .. n /\ m + (i - m) = i)
  BY <1>1
<1>6. \A i \in 1 .. m + n : \/ i \in 1 .. m /\ d[i] = s[i]
                            \/ i - m \in 1 .. n /\ d[i] = t[i - m]
  BY <1>3, <1>4, <1>5
<1>7. \A y : y \in Range(d) <=> y \in Range(s) \cup Range(t)
  <2>1. ASSUME NEW y \in Range(d) PROVE y \in Range(s) \cup Range(t)
    <3>1. PICK i \in 1 .. m + n : y = d[i]
      BY <1>2 DEF Range
    <3> QED BY <1>2, <1>6, <3>1 DEF Range
  <2>2. ASSUME NEW y \in Range(s) PROVE y \in Range(d)
    BY <1>2, <1>3 DEF Range
  <2>3. ASSUME NEW y \in Range(t) PROVE y \in Range(d)
    BY <1>2, <1>4 DEF Range
  <2> QED BY <2>1, <2>2, <2>3
<1>8. ASSUME IsInjective(s), IsInjective(t), Range(s) \cap Range(t) = {}
      PROVE  IsInjective(d)
  <2> SUFFICES ASSUME NEW a \in 1 .. m + n, NEW b \in 1 .. m + n, d[a] = d[b]
               PROVE  a = b
    BY <1>2 DEF IsInjective
  <2>1. \A i \in 1 .. m, j \in 1 .. n : s[i] # t[j]
    BY <1>2, <1>8 DEF Range
  <2>2. /\ \A i, j \in 1 .. m : s[i] = s[j] => i = j
        /\ \A i, j \in 1 .. n : t[i] = t[j] => i = j
    BY <1>2, <1>8 DEF IsInjective
  <2>3. CASE a \in 1 .. m /\ d[a] = s[a]
    BY <1>6, <2>1, <2>2, <2>3
  <2>4. CASE a - m \in 1 .. n /\ d[a] = t[a - m]
    <3>1. b - m \in 1 .. n /\ d[b] = t[b - m]
      BY <1>6, <2>1, <2>4
    <3>2. a - m = b - m
      BY <2>2, <2>4, <3>1
    <3> QED BY <1>1, <3>2
  <2> QED BY <1>6, <2>3, <2>4
<1> QED BY <1>1, <1>7, <1>8 DEF d, m, n

LEMMA SuffixIs ==
  ASSUME NEW S, NEW s \in Seq(S), NEW n \in 0 .. Len(s)
  PROVE  LET d == SubSeq(s, n + 1, Len(s))
         IN  /\ d \in Seq(S) /\ Len(d) = Len(s) - n
             /\ \A i \in 1 .. Len(s) - n : d[i] = s[n + i]
             /\ \A y : y \in Range(d) <=> \E i \in n + 1 .. Len(s) : s[i] = y
             /\ IsInjective(s) => IsInjective(d)
<1> DEFINE d == SubSeq(s, n + 1, Len(s))
<1>1. Len(s) \in Nat /\ n \in Nat /\ n <= Len(s) /\ DOMAIN s = 1 .. Len(s)
      /\ \A k \in 1 .. Len(s) : s[k] \in S
  BY LenProperties, ElementOfSeq
<1>2. \A k \in n + 1 .. Len(s) : s[k] \in S
  BY <1>1
<1>3. /\ d \in Seq(S)
      /\ Len(d) = IF n + 1 <= Len(s) THEN Len(s) - (n + 1) + 1 ELSE 0
      /\ \A i \in 1 .. Len(s) - (n + 1) + 1 : d[i] = s[(n + 1) + i - 1]
  <2>1. n + 1 \in Int /\ Len(s) \in Int
    BY <1>1
  <2> QED BY <1>2, <2>1, SubSeqProperties
<1> HIDE DEF d
<1>4. Len(d) = Len(s) - n /\ \A i \in 1 .. Len(s) - n : d[i] = s[n + i]
  <2>1. Len(d) = Len(s) - n
    <3>1. CASE n + 1 <= Len(s)
      <4>1. Len(s) - (n + 1) + 1 = Len(s) - n
        BY <1>1
      <4> QED BY <1>3, <3>1, <4>1
    <3>2. CASE ~(n + 1 <= Len(s))
      <4>1. \A a, b \in Nat : b <= a /\ ~(b + 1 <= a) => a - b = 0
        BY SMTT(30)
      <4>2. Len(s) - n = 0
        BY <1>1, <3>2, <4>1
      <4> QED BY <1>3, <3>2, <4>2
    <3> QED BY <3>1, <3>2
  <2>2. ASSUME NEW i \in 1 .. Len(s) - n PROVE d[i] = s[n + i]
    <3>1. i \in 1 .. Len(s) - (n + 1) + 1 /\ (n + 1) + i - 1 = n + i
      BY <1>1
    <3> QED BY <1>3, <3>1
  <2> QED BY <2>1, <2>2
<1>5. DOMAIN d = 1 .. Len(s) - n
  BY <1>3, <1>4, LenProperties
<1>6. \A i \in 1 .. Len(s) - n : n + i \in n + 1 .. Len(s)
  BY <1>1
<1>7. \A i \in n + 1 .. Len(s) : i - n \in 1 .. Len(s) - n /\ n + (i - n) = i
  BY <1>1
<1>8. \A y : y \in Range(d) <=> \E i \in n + 1 .. Len(s) : s[i] = y
  <2>1. ASSUME NEW y \in Range(d) PROVE \E i \in n + 1 .. Len(s) : s[i] = y
    <3>1. PICK i \in 1 .. Len(s) - n : y = d[i]
      BY <1>5 DEF Range
    <3> QED BY <1>4, <1>6, <3>1
  <2>2. ASSUME NEW i \in n + 1 .. Len(s) PROVE s[i] \in Range(d)
    <3>1. d[i - n] = s[n + (i - n)] /\ i - n \in DOMAIN d
      BY <1>4, <1>5, <1>7
    <3> QED BY <1>7, <3>1 DEF Range
  <2> QED BY <2>1, <2>2
<1>9. ASSUME IsInjective(s) PROVE IsInjective(d)
  <2> SUFFICES ASSUME NEW a \in 1 .. Len(s) - n, NEW b \in 1 .. Len(s) - n, d[a] = d[b]
               PROVE  a = b
    BY <1>5 DEF IsInjective
  <2>1. n + a \in DOMAIN s /\ n + b \in DOMAIN s
    BY <1>1
  <2>2. s[n + a] = s[n + b]
    BY <1>4
  <2>3. n + a = n + b
    BY <1>9, <2>1, <2>2 DEF IsInjective
  <2> QED BY <1>1, <2>3
<1> QED BY <1>3, <1>4, <1>8, <1>9 DEF d

(* The positions of I up to m, and how their number grows. *)
UpTo(I, m) == {j \in I : j <= m}

LEMMA UpToEnds ==
  ASSUME NEW n \in Nat, NEW I \in SUBSET (1 .. n)
  PROVE  /\ IsFiniteSet(I) /\ Cardinality(I) \in Nat
         /\ Cardinality(UpTo(I, 0)) = 0
         /\ Cardinality(UpTo(I, n)) = Cardinality(I)
<1>1. \A i \in I : i \in Nat /\ 1 <= i /\ i <= n
  OBVIOUS
<1>2. UpTo(I, 0) = {} /\ UpTo(I, n) = I
  <2>1. ASSUME NEW x \in UpTo(I, 0) PROVE FALSE
    <3>1. x \in I /\ x <= 0
      BY DEF UpTo
    <3> QED BY <1>1, <3>1
  <2>2. \A x : x \in UpTo(I, n) <=> x \in I
    BY <1>1 DEF UpTo
  <2> QED BY <2>1, <2>2
<1>3. IsFiniteSet(1 .. n)
  BY FS_Interval
<1>4. IsFiniteSet(I) /\ Cardinality(I) \in Nat
  BY <1>3, FS_Subset, FS_CardinalityType
<1> QED BY <1>2, <1>4, FS_EmptySet

LEMMA UpToGrows ==
  ASSUME NEW n \in Nat, NEW I \in SUBSET (1 .. n), NEW m \in Nat
  PROVE  /\ Cardinality(UpTo(I, m)) \in Nat
         /\ m + 1 \in I => Cardinality(UpTo(I, m + 1)) = Cardinality(UpTo(I, m)) + 1
         /\ m + 1 \notin I => Cardinality(UpTo(I, m + 1)) = Cardinality(UpTo(I, m))
<1>1. \A i \in I : i \in Nat /\ 1 <= i /\ i <= n
  OBVIOUS
<1>2. IsFiniteSet(UpTo(I, m)) /\ Cardinality(UpTo(I, m)) \in Nat
  <2>1. UpTo(I, m) \in SUBSET I /\ IsFiniteSet(I)
    BY UpToEnds DEF UpTo
  <2> QED BY <2>1, FS_Subset, FS_CardinalityType
<1>3. \A x \in Nat : x <= m + 1 <=> x <= m \/ x = m + 1
  OBVIOUS
<1>4. ASSUME m + 1 \in I
      PROVE  Cardinality(UpTo(I, m + 1)) = Cardinality(UpTo(I, m)) + 1
  <2>1. \A x \in I : x <= m + 1 <=> x <= m \/ x = m + 1
    BY <1>1, <1>3
  <2>2. \A x : x \in UpTo(I, m + 1) <=> x \in UpTo(I, m) \cup {m + 1}
    BY <1>4, <2>1, Zenon DEF UpTo
  <2>3. UpTo(I, m + 1) = UpTo(I, m) \cup {m + 1}
    BY <2>2
  <2>4. m + 1 \notin UpTo(I, m)
    BY DEF UpTo
  <2> QED BY <1>2, <2>3, <2>4, FS_AddElement
<1>5. ASSUME m + 1 \notin I
      PROVE  Cardinality(UpTo(I, m + 1)) = Cardinality(UpTo(I, m))
  <2>1. \A x \in I : x <= m + 1 <=> x <= m
    BY <1>1, <1>3, <1>5
  <2>2. \A x : x \in UpTo(I, m + 1) <=> x \in UpTo(I, m)
    BY <2>1, Zenon DEF UpTo
  <2>3. UpTo(I, m + 1) = UpTo(I, m)
    BY <2>2
  <2> QED BY <2>3
<1> QED BY <1>2, <1>4, <1>5

(* Nth enumerates a finite set of positions: each exactly once.            *)
LEMMA NthIs ==
  ASSUME NEW n \in Nat, NEW I \in SUBSET (1 .. n)
  PROVE  /\ \A k \in 1 .. Cardinality(I) : Nth(I, k) \in I /\ Cardinality(UpTo(I, Nth(I, k))) = k
         /\ \A k, l \in 1 .. Cardinality(I) : Nth(I, k) = Nth(I, l) => k = l
         /\ \A i \in I : \E k \in 1 .. Cardinality(I) : Nth(I, k) = i
<1> DEFINE c(m) == Cardinality(UpTo(I, m))
<1>1. /\ Cardinality(I) \in Nat /\ c(0) = 0 /\ c(n) = Cardinality(I)
      /\ \A m \in Nat : c(m) \in Nat
      /\ \A m \in Nat : m + 1 \in I => c(m + 1) = c(m) + 1
      /\ \A m \in Nat : m + 1 \notin I => c(m + 1) = c(m)
  BY UpToEnds, UpToGrows
<1>0. \A i \in I : i \in Nat /\ 1 <= i /\ i <= n
  OBVIOUS
<1>2. \A k : Nth(I, k) = CHOOSE i \in I : c(i) = k
  BY DEF Nth, UpTo
<1> HIDE DEF c
<1>3. ASSUME NEW k \in 1 .. Cardinality(I) PROVE \E i \in I : c(i) = k
  <2> DEFINE T == {m \in 0 .. n : c(m) >= k}
  <2>1. n \in T
    BY <1>1
  <2>2. PICK m \in T : \A x \in T : m <= x
    <3>1. T \subseteq Nat /\ T # {}
      BY <2>1
    <3> HIDE DEF T
    <3> QED BY <3>1, LeastNatural
  <2>3. m \in Nat /\ m # 0
    BY <1>1
  <2>4. m - 1 \in 0 .. n /\ m - 1 \notin T
    BY <2>2, <2>3
  <2>5. c(m - 1) < k /\ m - 1 \in Nat /\ c(m - 1) \in Nat
    BY <1>1, <2>3, <2>4
  <2>6. (m - 1) + 1 = m
    BY <2>3
  <2>7. (m \in I => c(m) = c(m - 1) + 1) /\ (m \notin I => c(m) = c(m - 1))
    BY <1>1, <2>5, <2>6
  <2> QED BY <2>2, <2>5, <2>7
<1>4. ASSUME NEW k \in 1 .. Cardinality(I) PROVE Nth(I, k) \in I /\ c(Nth(I, k)) = k
  BY <1>2, <1>3
<1>5. ASSUME NEW i \in I PROVE c(i) \in 1 .. Cardinality(I)
  <2>1. i - 1 \in Nat /\ (i - 1) + 1 = i
    OBVIOUS
  <2>2. c(i) = c(i - 1) + 1 /\ c(i - 1) \in Nat
    BY <1>1, <2>1
  <2>3. UpTo(I, i) \subseteq I
    BY DEF UpTo
  <2>4. c(i) <= Cardinality(I)
    BY <2>3, UpToEnds, FS_Subset DEF c
  <2> QED BY <1>1, <2>2, <2>4
<1>6. ASSUME NEW i \in I, NEW j \in I, i < j PROVE c(i) # c(j)
  <2>1. UpTo(I, i) \subseteq UpTo(I, j) /\ j \in UpTo(I, j) /\ j \notin UpTo(I, i)
    <3>1. \A x \in UpTo(I, i) : x \in I /\ x <= i
      BY DEF UpTo
    <3>2. i \in Nat /\ j \in Nat /\ \A x \in I : x \in Nat
      BY <1>0
    <3>3. ASSUME NEW x \in UpTo(I, i) PROVE x <= j
      <4>1. x \in Nat /\ x <= i
        BY <3>1, <3>2
      <4> QED BY <1>6, <3>2, <4>1
    <3>4. j <= j /\ ~(j <= i)
      BY <1>6, <3>2
    <3> QED BY <3>1, <3>3, <3>4 DEF UpTo
  <2>2. IsFiniteSet(UpTo(I, j))
    <3>1. UpTo(I, j) \subseteq I
      BY DEF UpTo
    <3> QED BY <3>1, UpToEnds, FS_Subset
  <2> QED BY <2>1, <2>2, FS_Subset DEF c
<1>7. ASSUME NEW i \in I PROVE Nth(I, c(i)) = i
  <2>1. Nth(I, c(i)) \in I /\ c(Nth(I, c(i))) = c(i)
    BY <1>4, <1>5
  <2>2. Nth(I, c(i)) \in Nat /\ i \in Nat
    BY <1>0, <2>1
  <2> QED BY <1>6, <2>1, <2>2
<1>8. \A i \in I : \E k \in 1 .. Cardinality(I) : Nth(I, k) = i
  BY <1>5, <1>7
<1>9. \A k, l \in 1 .. Cardinality(I) : Nth(I, k) = Nth(I, l) => k = l
  BY <1>4
<1> QED BY <1>4, <1>8, <1>9 DEF c

(* The entries of an injective sequence at some of its positions. *)
LEMMA PickedIs ==
  ASSUME NEW S, NEW s \in Seq(S), NEW I \in SUBSET (1 .. Len(s))
  PROVE  /\ Picked(s, I) \in Seq(S)
         /\ Len(Picked(s, I)) = Cardinality(I)
         /\ Range(Picked(s, I)) = {s[i] : i \in I}
         /\ IsInjective(s) => IsInjective(Picked(s, I))
<1> DEFINE p == Picked(s, I)
<1>1. Cardinality(I) \in Nat
  BY LenProperties, UpToEnds
<1>2. /\ \A k \in 1 .. Cardinality(I) : Nth(I, k) \in I
      /\ \A k, l \in 1 .. Cardinality(I) : Nth(I, k) = Nth(I, l) => k = l
      /\ \A i \in I : \E k \in 1 .. Cardinality(I) : Nth(I, k) = i
  <2>1. Len(s) \in Nat
    BY LenProperties
  <2> QED BY <2>1, NthIs
<1>3. p \in [1 .. Cardinality(I) -> S] /\ \A k \in 1 .. Cardinality(I) : p[k] = s[Nth(I, k)]
  <2>1. \A i \in I : s[i] \in S
    BY ElementOfSeq
  <2> QED BY <1>2, <2>1 DEF Picked
<1> HIDE DEF p
<1>4. p \in Seq(S) /\ Len(p) = Cardinality(I) /\ DOMAIN p = 1 .. Cardinality(I)
  BY <1>1, <1>3, IsASeq
<1>5. Range(p) = {s[i] : i \in I}
  <2>1. ASSUME NEW y \in Range(p) PROVE y \in {s[i] : i \in I}
    BY <1>2, <1>3, <1>4 DEF Range
  <2>2. ASSUME NEW i \in I PROVE s[i] \in Range(p)
    BY <1>2, <1>3, <1>4 DEF Range
  <2> QED BY <2>1, <2>2
<1>6. ASSUME IsInjective(s) PROVE IsInjective(p)
  <2>1. \A a, b \in I : s[a] = s[b] => a = b
    BY <1>6, LenProperties DEF IsInjective
  <2>2. ASSUME NEW k \in 1 .. Cardinality(I), NEW l \in 1 .. Cardinality(I), p[k] = p[l]
        PROVE  k = l
    <3>1. Nth(I, k) = Nth(I, l)
      BY <1>2, <1>3, <2>1, <2>2
    <3> QED BY <1>2, <3>1
  <2> QED BY <1>4, <2>2 DEF IsInjective
<1> QED BY <1>4, <1>5, <1>6 DEF p
-----------------------------------------------------------------------------
(* The records of the slabs and of the queue, and the two operations on    *)
(* them that send.                                                         *)
SchedulerRec ==
    [uuid: Schedulers, assigned_workers: Seq(WorkerIds), offline: BOOLEAN,
     ended: BOOLEAN, heard: SUBSET WorkerIds, pending: SUBSET WorkerIds]
NodeRec ==
    [uuid: Nodes, platform: Platforms, key: Keys, offline: BOOLEAN,
     ended: BOOLEAN, assigned: SchedulerIds \cup {Unassigned},
     heard: SchedulerIds \cup {Unassigned},
     pending: SchedulerIds \cup {Unassigned}]
DemandRec ==
    [provided_workers: Nat, required_workers: Required, supported_platforms: SUBSET Platforms]

TellsOf(r, held, gone, come) ==
    LET t == SchedulerTold([r EXCEPT !.assigned_workers = held], gone, come)
    IN  /\ t \in SchedulerRec /\ t.uuid = r.uuid
        /\ t.offline = r.offline /\ t.ended = r.ended /\ t.assigned_workers = held
        /\ r.offline => t.pending = (r.pending \ gone) \cup come
        /\ ~r.offline /\ ~r.ended => t.heard = (r.heard \ gone) \cup come

LEMMA SchedulerSent ==
  ASSUME NEW r \in SchedulerRec, NEW gone \in SUBSET WorkerIds, NEW come \in SUBSET WorkerIds,
         NEW held \in Seq(WorkerIds)
  PROVE  TellsOf(r, held, gone, come)
<1> DEFINE a == [r EXCEPT !.assigned_workers = held]
           t == SchedulerTold(a, gone, come)
<1>1. /\ a \in SchedulerRec /\ a.uuid = r.uuid /\ a.assigned_workers = held
      /\ a.offline = r.offline /\ a.ended = r.ended /\ a.heard = r.heard /\ a.pending = r.pending
  BY DEF SchedulerRec
<1> HIDE DEF a
<1> DEFINE Sent(x) ==
             /\ x \in SchedulerRec /\ x.uuid = a.uuid
             /\ x.offline = a.offline /\ x.ended = a.ended
             /\ x.assigned_workers = a.assigned_workers
             /\ a.offline => x.pending = (a.pending \ gone) \cup come
             /\ ~a.offline /\ ~a.ended => x.heard = (a.heard \ gone) \cup come
<1>2. ASSUME a.offline PROVE Sent(t)
  <2>1. t = [a EXCEPT !.pending = (a.pending \ gone) \cup come]
    BY <1>2 DEF SchedulerTold, Unreachable
  <2> HIDE DEF t
  <2> QED BY <1>1, <1>2, <2>1 DEF SchedulerRec
<1>3. ASSUME ~a.offline, a.ended PROVE Sent(t)
  <2>1. t = a
    BY <1>3 DEF SchedulerTold, Unreachable
  <2> HIDE DEF t
  <2> QED BY <1>1, <1>3, <2>1
<1>4. ASSUME ~a.offline, ~a.ended PROVE Sent(t)
  <2> DEFINE known == (a.heard \ gone) \cup come
  <2>1. t = [a EXCEPT !.heard = known, !.pending = known]
    BY <1>4 DEF SchedulerTold, Unreachable
  <2> HIDE DEF t
  <2> QED BY <1>1, <1>4, <2>1 DEF SchedulerRec
<1>5. Sent(t)
  BY <1>2, <1>3, <1>4
<1> HIDE DEF t
<1>6. /\ t \in SchedulerRec /\ t.uuid = r.uuid
      /\ t.offline = r.offline /\ t.ended = r.ended /\ t.assigned_workers = held
      /\ r.offline => t.pending = (r.pending \ gone) \cup come
      /\ ~r.offline /\ ~r.ended => t.heard = (r.heard \ gone) \cup come
  BY <1>1, <1>5
<1> QED BY <1>6 DEF t, a, TellsOf

LEMMA SchedulerForgets ==
  ASSUME NEW r \in SchedulerRec
  PROVE  LET f == [r EXCEPT !.assigned_workers = <<>>, !.heard = {}, !.pending = {}]
         IN  /\ f \in SchedulerRec /\ f.uuid = r.uuid /\ f.offline = r.offline
             /\ f.assigned_workers = <<>> /\ f.heard = {} /\ f.pending = {}
BY EmptySeq DEF SchedulerRec

LEMMA NodeSent ==
  ASSUME NEW r \in NodeRec, NEW known \in SchedulerIds \cup {Unassigned}
  PROVE  LET t == NodeTold([r EXCEPT !.assigned = known], known)
         IN  /\ t \in NodeRec /\ t.uuid = r.uuid /\ t.key = r.key /\ t.platform = r.platform
             /\ t.offline = r.offline /\ t.ended = r.ended /\ t.assigned = known
             /\ r.offline => t.pending = known
             /\ ~r.offline /\ ~r.ended => t.heard = known
<1> DEFINE a == [r EXCEPT !.assigned = known]
           t == NodeTold(a, known)
<1>1. /\ a \in NodeRec /\ a.uuid = r.uuid /\ a.key = r.key /\ a.platform = r.platform
      /\ a.assigned = known /\ a.offline = r.offline /\ a.ended = r.ended
  BY DEF NodeRec
<1> HIDE DEF a
<1> DEFINE Sent(x) ==
             /\ x \in NodeRec /\ x.uuid = a.uuid /\ x.key = a.key
             /\ x.platform = a.platform /\ x.offline = a.offline /\ x.ended = a.ended
             /\ x.assigned = a.assigned
             /\ a.offline => x.pending = known
             /\ ~a.offline /\ ~a.ended => x.heard = known
<1>2. ASSUME a.offline PROVE Sent(t)
  <2>1. t = [a EXCEPT !.pending = known]
    BY <1>2 DEF NodeTold, Unreachable
  <2> HIDE DEF t
  <2> QED BY <1>1, <1>2, <2>1 DEF NodeRec
<1>3. ASSUME ~a.offline, a.ended PROVE Sent(t)
  <2>1. t = a
    BY <1>3 DEF NodeTold, Unreachable
  <2> HIDE DEF t
  <2> QED BY <1>1, <1>3, <2>1
<1>4. ASSUME ~a.offline, ~a.ended PROVE Sent(t)
  <2>1. t = [a EXCEPT !.heard = known, !.pending = known]
    BY <1>4 DEF NodeTold, Unreachable
  <2> HIDE DEF t
  <2> QED BY <1>1, <1>4, <2>1 DEF NodeRec
<1>5. Sent(t)
  BY <1>2, <1>3, <1>4
<1> HIDE DEF t
<1>6. /\ t \in NodeRec /\ t.uuid = r.uuid /\ t.key = r.key /\ t.platform = r.platform
      /\ t.offline = r.offline /\ t.ended = r.ended /\ t.assigned = known
      /\ r.offline => t.pending = known
      /\ ~r.offline /\ ~r.ended => t.heard = known
  BY <1>1, <1>5
<1> QED BY <1>6 DEF t, a

LEMMA SchedulerLinked ==
  ASSUME NEW r \in SchedulerRec, NEW lost \in BOOLEAN
  PROVE  /\ Restored(r, lost) \in SchedulerRec /\ Restored(r, lost).uuid = r.uuid
         /\ Restored(r, lost).assigned_workers = r.assigned_workers
         /\ ~Restored(r, lost).offline
         /\ Restored(r, lost).ended \/ Restored(r, lost).heard = r.pending
         /\ Disconnected(r) \in SchedulerRec /\ Disconnected(r).uuid = r.uuid
         /\ Disconnected(r).assigned_workers = r.assigned_workers /\ Disconnected(r).offline
         /\ Disconnected(r).pending = r.heard
<1>1. CASE lost
  BY <1>1 DEF SchedulerRec, Restored, Disconnected
<1>2. CASE ~lost
  BY <1>2 DEF SchedulerRec, Restored, Disconnected
<1> QED BY <1>1, <1>2

LEMMA NodeLinked ==
  ASSUME NEW r \in NodeRec, NEW lost \in BOOLEAN
  PROVE  /\ Restored(r, lost) \in NodeRec /\ Restored(r, lost).uuid = r.uuid
         /\ Restored(r, lost).platform = r.platform
         /\ Restored(r, lost).assigned = r.assigned /\ ~Restored(r, lost).offline
         /\ Restored(r, lost).ended \/ Restored(r, lost).heard = r.pending
         /\ Disconnected(r) \in NodeRec /\ Disconnected(r).uuid = r.uuid
         /\ Disconnected(r).platform = r.platform
         /\ Disconnected(r).assigned = r.assigned /\ Disconnected(r).offline
         /\ Disconnected(r).pending = r.heard
<1>1. CASE lost
  BY <1>1 DEF NodeRec, Restored, Disconnected
<1>2. CASE ~lost
  BY <1>2 DEF NodeRec, Restored, Disconnected
<1> QED BY <1>1, <1>2

(* The connection of a peer ends: the rest of its record stays.            *)
LEMMA EndedIs ==
  ASSUME NEW r
  PROVE  LET e == [r EXCEPT !.ended = TRUE]
         IN  /\ r \in SchedulerRec =>
                   /\ e \in SchedulerRec /\ e.uuid = r.uuid /\ e.offline = r.offline
                   /\ e.assigned_workers = r.assigned_workers /\ e.ended
             /\ r \in NodeRec =>
                   /\ e \in NodeRec /\ e.uuid = r.uuid /\ e.offline = r.offline
                   /\ e.platform = r.platform /\ e.assigned = r.assigned /\ e.ended
<1>1. ASSUME r \in SchedulerRec
      PROVE  LET e == [r EXCEPT !.ended = TRUE]
             IN  /\ e \in SchedulerRec /\ e.uuid = r.uuid /\ e.offline = r.offline
                 /\ e.assigned_workers = r.assigned_workers /\ e.ended
  BY <1>1 DEF SchedulerRec
<1>2. ASSUME r \in NodeRec
      PROVE  LET e == [r EXCEPT !.ended = TRUE]
             IN  /\ e \in NodeRec /\ e.uuid = r.uuid /\ e.offline = r.offline
                 /\ e.platform = r.platform /\ e.assigned = r.assigned /\ e.ended
  BY <1>2 DEF NodeRec
<1> QED BY <1>1, <1>2

(* EachWorkerOnce and DemandsExact of any pool, worker by worker.          *)
Once(un, wk, sch) ==
    /\ IsInjective(un)
    /\ \A w : w \in Range(un) <=> w \in DOMAIN wk /\ wk[w].assigned = Unassigned
    /\ \A s \in DOMAIN sch : IsInjective(sch[s].assigned_workers)
    /\ \A s \in DOMAIN sch : \A w :
         w \in Range(sch[s].assigned_workers) <=> w \in DOMAIN wk /\ wk[w].assigned = s
Exact(dem, ord, sch) ==
    /\ \A s \in DOMAIN dem :
         /\ dem[s].provided_workers = Len(sch[s].assigned_workers)
         /\ dem[s].required_workers # AnyNumber =>
              Len(sch[s].assigned_workers) <= dem[s].required_workers
    /\ \A s \in DOMAIN sch \ DOMAIN dem : sch[s].assigned_workers = <<>>
    /\ Range(ord) = DOMAIN dem /\ IsInjective(ord)

LEMMA OnceIs ==
  /\ EachWorkerOnce <=> Once(unassigned_workers, workers, schedulers)
  /\ EachWorkerOnce' <=> Once(unassigned_workers', workers', schedulers')
<1>1. EachWorkerOnce <=> Once(unassigned_workers, workers, schedulers)
  BY DEF EachWorkerOnce, Once
<1>2. EachWorkerOnce' <=> Once(unassigned_workers', workers', schedulers')
  BY DEF EachWorkerOnce, Once
<1> QED BY <1>1, <1>2

LEMMA ExactIs ==
  /\ DemandsExact <=> Exact(demands, order, schedulers)
  /\ DemandsExact' <=> Exact(demands', order', schedulers')
<1>1. DemandsExact <=> Exact(demands, order, schedulers)
  BY DEF DemandsExact, Exact
<1>2. DemandsExact' <=> Exact(demands', order', schedulers')
  BY DEF DemandsExact, Exact
<1> QED BY <1>1, <1>2

(* Sending, connecting and disconnecting change neither.                   *)
LEMMA OnceSame ==
  ASSUME NEW un, NEW wk, NEW sch, NEW wk2, NEW sch2, Once(un, wk, sch),
         DOMAIN wk2 = DOMAIN wk, \A w \in DOMAIN wk : wk2[w].assigned = wk[w].assigned,
         DOMAIN sch2 = DOMAIN sch,
         \A s \in DOMAIN sch : sch2[s].assigned_workers = sch[s].assigned_workers
  PROVE  Once(un, wk2, sch2)
BY DEF Once

LEMMA ExactSame ==
  ASSUME NEW dem, NEW ord, NEW sch, NEW sch2, Exact(dem, ord, sch),
         DOMAIN dem \subseteq DOMAIN sch, DOMAIN sch2 = DOMAIN sch,
         \A s \in DOMAIN sch : sch2[s].assigned_workers = sch[s].assigned_workers
  PROVE  Exact(dem, ord, sch2)
BY DEF Exact
-----------------------------------------------------------------------------
(* What the invariant says of the entries of the tables.                   *)
LEMMA Tables ==
  ASSUME IInv
  PROVE  /\ \A s \in DOMAIN schedulers : schedulers[s] \in SchedulerRec
         /\ \A s \in DOMAIN schedulers : s \in SchedulerIds /\ s # Unassigned
         /\ \A w \in DOMAIN workers : w \in WorkerIds /\ workers[w] \in NodeRec
         /\ \A s \in DOMAIN demands : s \in DOMAIN schedulers /\ demands[s] \in DemandRec
         /\ order \in Seq(SchedulerIds) /\ unassigned_workers \in Seq(WorkerIds)
         /\ Once(unassigned_workers, workers, schedulers)
         /\ Exact(demands, order, schedulers)
<1> USE DEF IInv
<1>1. /\ \A s \in DOMAIN schedulers : schedulers[s] \in SchedulerRec
      /\ order \in Seq(SchedulerIds) /\ unassigned_workers \in Seq(WorkerIds)
  BY DEF TypeOK, SchedulerRec
<1>2. \A s \in DOMAIN schedulers : s \in SchedulerIds /\ s # Unassigned
  BY NodeManagerAssumption DEF TypeOK
<1>3. \A w \in DOMAIN workers : w \in WorkerIds /\ workers[w] \in NodeRec
  BY DEF TypeOK, NodeRec
<1>4. \A s \in DOMAIN demands : s \in DOMAIN schedulers /\ demands[s] \in DemandRec
  BY DEF TypeOK, PoolKnown, DemandRec
<1> QED BY <1>1, <1>2, <1>3, <1>4, OnceIs, ExactIs

LEMMA InitInv == Init => IInv
<1> SUFFICES ASSUME Init PROVE IInv
  OBVIOUS
<1>1. DOMAIN Empty = {} /\ Range(<<>>) = {} /\ IsInjective(<<>>)
  BY DEF Empty, Range, IsInjective
<1>2. TypeOK
  <2>1. <<>> \in Seq(SchedulerIds) /\ <<>> \in Seq(WorkerIds)
    BY EmptySeq
  <2> QED BY <1>1, <2>1 DEF Init, TypeOK
<1>3. PoolKnown /\ SessionsKept /\ KeptOffline /\ OneConnection
  BY <1>1 DEF Init, PoolKnown, SessionsKept, KeptOffline, OneConnection
<1>4. EachWorkerOnce /\ DemandsExact
  BY <1>1 DEF Init, EachWorkerOnce, DemandsExact
<1> QED BY <1>2, <1>3, <1>4 DEF IInv

LEMMA PanicInv ==
  ASSUME IInv, Panic
  PROVE  IInv'
<1> USE DEF Panic, pool, sessions, network
<1>1. TypeOK'
  BY DEF IInv, TypeOK
<1>2. PoolKnown' /\ SessionsKept' /\ KeptOffline' /\ OneConnection'
  BY DEF IInv, PoolKnown, SessionsKept, KeptOffline, OneConnection
<1>3. EachWorkerOnce' /\ DemandsExact'
  BY DEF IInv, EachWorkerOnce, DemandsExact
<1> QED BY <1>1, <1>2, <1>3 DEF IInv

LEMMA NewNodeInv ==
  ASSUME IInv, NEW u \in Nodes, NEW p \in Platforms, NEW c, NewNode(u, p, c)
  PROVE  IInv'
<1>1. PICK id \in WorkerIds \ DOMAIN workers, key \in Keys \ DOMAIN expirations :
         /\ expirations' = With(expirations, key, [type |-> "node", id |-> id])
         /\ workers' = With(workers, id, NodeSession(u, p, key))
         /\ unassigned_workers' = Append(Drop(unassigned_workers, id), id)
         /\ node_links' = node_links \cup {[uuid |-> u, number |-> c, id |-> id]}
  BY DEF NewNode
<1>2. /\ notified' = TRUE
      /\ UNCHANGED <<status, schedulers, demands, order, disconnected, scheduler_links>>
  BY DEF NewNode
<1>3. /\ DOMAIN workers' = DOMAIN workers \cup {id}
      /\ workers'[id] = NodeSession(u, p, key)
      /\ \A w \in DOMAIN workers : workers'[w] = workers[w]
  BY <1>1 DEF With
<1>4. NodeSession(u, p, key) \in NodeRec /\ NodeSession(u, p, key).assigned = Unassigned
  BY DEF NodeSession, NodeRec
<1>5. DOMAIN expirations' = DOMAIN expirations \cup {key}
  BY <1>1, WithIs
<1>6. id \notin Range(unassigned_workers)
  BY Tables DEF Once
<1>7. unassigned_workers' = Append(unassigned_workers, id)
  BY <1>1, <1>6 DEF Drop
<1>8. TypeOK'
  <2>1. unassigned_workers' \in Seq(WorkerIds)
    BY <1>7, Tables, AppendProperties
  <2>2. DOMAIN workers' \subseteq WorkerIds /\ \A w \in DOMAIN workers' : workers'[w] \in NodeRec
    BY <1>3, <1>4, Tables
  <2>3. DOMAIN expirations' \subseteq Keys
    BY <1>5 DEF IInv, TypeOK
  <2> QED BY <1>2, <2>1, <2>2, <2>3 DEF IInv, TypeOK, NodeRec
<1>9. PoolKnown'
  BY <1>2, <1>3, <1>4 DEF IInv, PoolKnown
<1>10. EachWorkerOnce'
  <2>1. IsInjective(unassigned_workers') /\ Range(unassigned_workers') = Range(unassigned_workers) \cup {id}
    BY <1>6, <1>7, Tables, AppendIs DEF Once
  <2> QED BY <1>2, <1>3, <1>4, <2>1, Tables, OnceIs DEF Once
<1>11. DemandsExact' /\ OneConnection'
  BY <1>2 DEF IInv, DemandsExact, OneConnection
<1>12. SessionsKept' /\ KeptOffline'
  BY <1>2, <1>3, NodeManagerAssumption DEF IInv, SessionsKept, KeptOffline
<1> QED BY <1>8, <1>9, <1>10, <1>11, <1>12 DEF IInv

(* A peer's connection comes or goes: the pool keeps its shape.            *)
LEMMA SamePool ==
  ASSUME IInv, UNCHANGED <<demands, order, unassigned_workers>>,
         DOMAIN workers' = DOMAIN workers, DOMAIN schedulers' = DOMAIN schedulers,
         \A w \in DOMAIN workers : workers'[w].assigned = workers[w].assigned,
         \A s \in DOMAIN schedulers :
            schedulers'[s].assigned_workers = schedulers[s].assigned_workers
  PROVE  PoolKnown' /\ EachWorkerOnce' /\ DemandsExact'
<1>1. PoolKnown'
  BY DEF IInv, PoolKnown
<1>2. EachWorkerOnce'
  <2>1. Once(unassigned_workers, workers, schedulers)
    BY Tables
  <2>2. Once(unassigned_workers, workers', schedulers')
    BY <2>1, OnceSame
  <2> QED BY <2>2, OnceIs
<1>3. DemandsExact'
  <2>1. Exact(demands, order, schedulers) /\ DOMAIN demands \subseteq DOMAIN schedulers
    BY Tables
  <2>2. Exact(demands, order, schedulers')
    BY <2>1, ExactSame
  <2> QED BY <2>2, ExactIs
<1> QED BY <1>1, <1>2, <1>3

LEMMA restore_node_sessionInv ==
  ASSUME IInv, NEW u \in Nodes, NEW c, restore_node_session(u, c)
  PROVE  IInv'
<1> DEFINE id == disconnected[u].id
<1>1. u \in DOMAIN disconnected
  BY DEF restore_node_session
<1>2. CASE Panic
  BY <1>2, PanicInv
<1>3. CASE ~Panic
  <2>0. PICK lost \in BOOLEAN : workers' = [workers EXCEPT ![id] = Restored(@, lost)]
    BY <1>3 DEF restore_node_session
  <2>1. /\ disconnected' = Without(disconnected, u)
        /\ UNCHANGED <<status, schedulers, demands, order, unassigned_workers,
                       expirations, notified, scheduler_links>>
    BY <1>3 DEF restore_node_session
  <2>2. /\ DOMAIN disconnected' = DOMAIN disconnected \ {u}
        /\ \A v \in DOMAIN disconnected' : disconnected'[v] = disconnected[v]
    BY <2>1 DEF Without
  <2>3. id \in DOMAIN workers /\ workers[id].uuid = u
    BY <1>1, NodeManagerAssumption DEF IInv, SessionsKept
  <2>4. /\ DOMAIN workers' = DOMAIN workers
        /\ workers'[id] = Restored(workers[id], lost)
        /\ \A w \in DOMAIN workers : w # id => workers'[w] = workers[w]
    BY <2>0, <2>3
  <2>5. /\ Restored(workers[id], lost) \in NodeRec
        /\ Restored(workers[id], lost).uuid = u
        /\ Restored(workers[id], lost).assigned = workers[id].assigned
    BY <2>3, Tables, NodeLinked
  <2> HIDE DEF id
  <2>6. TypeOK'
    <3>1. \A w \in DOMAIN workers' : workers'[w] \in NodeRec
      BY <2>4, <2>5, Tables
    <3> QED BY <2>1, <2>2, <2>4, <3>1 DEF IInv, TypeOK, NodeRec
  <2>7. PoolKnown' /\ EachWorkerOnce' /\ DemandsExact'
    BY <2>1, <2>4, <2>5, SamePool
  <2>8. OneConnection'
    BY <2>1 DEF IInv, OneConnection
  <2>9. SessionsKept'
    <3>1. \A w \in DOMAIN workers : workers'[w].uuid = workers[w].uuid
      BY <2>3, <2>4, <2>5
    <3> QED BY <2>1, <2>2, <2>4, <3>1 DEF IInv, SessionsKept
  <2>10. KeptOffline'
    <3>1. ASSUME NEW v \in DOMAIN disconnected', v \in Nodes
          PROVE  workers'[disconnected'[v].id].offline
      <4>1. /\ v \in DOMAIN disconnected /\ v # u /\ disconnected'[v] = disconnected[v]
        BY <2>2
      <4>2. disconnected[v].id \in DOMAIN workers /\ workers[disconnected[v].id].uuid = v
        BY <3>1, <4>1, NodeManagerAssumption DEF IInv, SessionsKept
      <4>3. workers[disconnected[v].id].offline
        BY <3>1, <4>1 DEF IInv, KeptOffline
      <4> QED BY <2>3, <2>4, <4>1, <4>2, <4>3
    <3> QED BY <2>1, <2>2, <3>1 DEF IInv, KeptOffline
  <2> QED BY <2>6, <2>7, <2>8, <2>9, <2>10 DEF IInv
<1> QED BY <1>2, <1>3

LEMMA NodeDisconnectInv ==
  ASSUME IInv, NEW link \in node_links, NodeDisconnect(link)
  PROVE  IInv'
<1> DEFINE id == link.id
<1>1. UNCHANGED <<status, schedulers, demands, order, unassigned_workers, expirations,
                  notified, scheduler_links>>
  BY DEF NodeDisconnect
<1>2. CASE id \notin DOMAIN workers
  <2>1. UNCHANGED <<disconnected, workers>>
    BY <1>2 DEF NodeDisconnect
  <2>2. TypeOK'
    BY <1>1, <2>1 DEF IInv, TypeOK
  <2>3. PoolKnown' /\ SessionsKept' /\ KeptOffline' /\ OneConnection'
    BY <1>1, <2>1 DEF IInv, PoolKnown, SessionsKept, KeptOffline, OneConnection
  <2>4. EachWorkerOnce' /\ DemandsExact'
    BY <1>1, <2>1 DEF IInv, EachWorkerOnce, DemandsExact
  <2> QED BY <2>2, <2>3, <2>4 DEF IInv
<1>3. CASE id \in DOMAIN workers
  <2> DEFINE u == workers[id].uuid
  <2>1. /\ disconnected' = With(disconnected, u, [id |-> id, key |-> workers[id].key])
        /\ workers' = [workers EXCEPT ![id] = Disconnected(@)]
    BY <1>3 DEF NodeDisconnect
  <2>2. /\ DOMAIN disconnected' = DOMAIN disconnected \cup {u}
        /\ disconnected'[u].id = id
        /\ \A v \in DOMAIN disconnected : v # u => disconnected'[v] = disconnected[v]
    BY <2>1 DEF With
  <2>3. /\ DOMAIN workers' = DOMAIN workers
        /\ workers'[id] = Disconnected(workers[id])
        /\ \A w \in DOMAIN workers : w # id => workers'[w] = workers[w]
    BY <1>3, <2>1
  <2>4. /\ u \in Nodes
        /\ Disconnected(workers[id]) \in NodeRec
        /\ Disconnected(workers[id]).uuid = u
        /\ Disconnected(workers[id]).offline
        /\ Disconnected(workers[id]).assigned = workers[id].assigned
    BY <1>3, Tables, NodeLinked DEF NodeRec
  <2> HIDE DEF id, u
  <2>5. TypeOK'
    <3>1. \A w \in DOMAIN workers' : workers'[w] \in NodeRec
      BY <2>3, <2>4, Tables
    <3>2. DOMAIN disconnected' \subseteq Nodes \cup Schedulers
      BY <2>2, <2>4 DEF IInv, TypeOK
    <3> QED BY <1>1, <2>3, <3>1, <3>2 DEF IInv, TypeOK, NodeRec
  <2>6. PoolKnown' /\ EachWorkerOnce' /\ DemandsExact'
    BY <1>1, <2>3, <2>4, SamePool
  <2>7. OneConnection'
    BY <1>1 DEF IInv, OneConnection
  <2>8. SessionsKept'
    <3>1. \A w \in DOMAIN workers : workers'[w].uuid = workers[w].uuid
      BY <2>3, <2>4 DEF u
    <3> QED BY <1>1, <1>3, <2>2, <2>3, <2>4, <3>1 DEF IInv, SessionsKept
  <2>9. KeptOffline'
    <3>1. \A w \in DOMAIN workers : workers[w].offline => workers'[w].offline
      BY <2>3, <2>4
    <3>2. \A v \in DOMAIN disconnected : v \in Nodes =>
             disconnected[v].id \in DOMAIN workers /\ workers[disconnected[v].id].offline
      BY NodeManagerAssumption DEF IInv, SessionsKept, KeptOffline
    <3> QED BY <1>1, <1>3, <2>2, <2>3, <2>4, <3>1, <3>2, NodeManagerAssumption
            DEF IInv, KeptOffline
  <2> QED BY <2>5, <2>6, <2>7, <2>8, <2>9 DEF IInv
<1> QED BY <1>2, <1>3

LEMMA NewSchedulerInv ==
  ASSUME IInv, NEW u \in Schedulers, NEW c, NewScheduler(u, c)
  PROVE  IInv'
<1> DEFINE new == [uuid |-> u, assigned_workers |-> <<>>, offline |-> FALSE,
                   ended |-> FALSE, heard |-> {}, pending |-> {}]
<1>1. PICK id \in SchedulerIds \ DOMAIN schedulers :
         /\ schedulers' = With(schedulers, id, new)
         /\ scheduler_links' = scheduler_links \cup {[uuid |-> u, number |-> c, id |-> id]}
  BY DEF NewScheduler
<1>2. UNCHANGED <<status, workers, demands, order, unassigned_workers, expirations,
                  disconnected, notified, node_links>>
  BY DEF NewScheduler, sessions
<1>3. /\ DOMAIN schedulers' = DOMAIN schedulers \cup {id}
      /\ schedulers'[id] = new
      /\ \A s \in DOMAIN schedulers : schedulers'[s] = schedulers[s]
  BY <1>1 DEF With
<1>4. /\ new \in SchedulerRec /\ new.assigned_workers = <<>> /\ ~new.offline
      /\ new.heard = {} /\ new.pending = {}
  BY EmptySeq DEF SchedulerRec
<1>5. Range(<<>>) = {} /\ IsInjective(<<>>)
  BY DEF Range, IsInjective
<1> HIDE DEF new
<1>6. TypeOK'
  <2>1. \A s \in DOMAIN schedulers' : schedulers'[s] \in SchedulerRec
    BY <1>3, <1>4, Tables
  <2>2. DOMAIN schedulers' \subseteq SchedulerIds
    BY <1>3, Tables
  <2> QED BY <1>2, <2>1, <2>2 DEF IInv, TypeOK, SchedulerRec
<1>7. PoolKnown'
  BY <1>2, <1>3 DEF IInv, PoolKnown
<1>8. EachWorkerOnce'
  <2>1. \A w \in DOMAIN workers : workers[w].assigned # id
    BY NodeManagerAssumption DEF IInv, PoolKnown
  <2>2. Once(unassigned_workers, workers, schedulers)
    BY Tables
  <2>3. Once(unassigned_workers, workers, schedulers')
    BY <1>3, <1>4, <1>5, <2>1, <2>2 DEF Once
  <2> QED BY <1>2, <2>3, OnceIs
<1>9. DemandsExact'
  <2>1. Exact(demands, order, schedulers) /\ DOMAIN demands \subseteq DOMAIN schedulers
    BY Tables
  <2>2. Exact(demands, order, schedulers')
    BY <1>3, <1>4, <2>1 DEF Exact
  <2> QED BY <1>2, <2>2, ExactIs
<1>10. SessionsKept' /\ KeptOffline'
  BY <1>2, <1>3, NodeManagerAssumption DEF IInv, SessionsKept, KeptOffline
<1>11. OneConnection'
  <2>1. \A l \in scheduler_links : l.id \in DOMAIN schedulers /\ ~schedulers[l.id].offline
    BY DEF IInv, OneConnection
  <2>2. \A l \in scheduler_links' : l \in scheduler_links \/ (l.id = id /\ l = [uuid |-> u, number |-> c, id |-> id])
    BY <1>1
  <2> QED BY <1>3, <1>4, <2>1, <2>2 DEF IInv, OneConnection
<1> QED BY <1>6, <1>7, <1>8, <1>9, <1>10, <1>11 DEF IInv

LEMMA restore_scheduler_sessionInv ==
  ASSUME IInv, NEW u \in Schedulers, NEW c, restore_scheduler_session(u, c)
  PROVE  IInv'
<1> DEFINE id == disconnected[u].id
           new == [uuid |-> u, number |-> c, id |-> id]
<1>1. u \in DOMAIN disconnected
  BY DEF restore_scheduler_session
<1>2. CASE Panic
  BY <1>2, PanicInv
<1>3. CASE ~Panic
  <2>0. PICK lost \in BOOLEAN : schedulers' = [schedulers EXCEPT ![id] = Restored(@, lost)]
    BY <1>3 DEF restore_scheduler_session
  <2>1. /\ expirations' = Without(expirations, disconnected[u].key)
        /\ disconnected' = Without(disconnected, u)
        /\ scheduler_links' = scheduler_links \cup {new}
        /\ UNCHANGED <<status, workers, demands, order, unassigned_workers,
                       notified, node_links>>
    BY <1>3 DEF restore_scheduler_session
  <2>2. /\ DOMAIN disconnected' = DOMAIN disconnected \ {u}
        /\ \A v \in DOMAIN disconnected' : disconnected'[v] = disconnected[v]
        /\ DOMAIN expirations' \subseteq DOMAIN expirations
    BY <2>1 DEF Without
  <2>3. id \in DOMAIN schedulers /\ schedulers[id].uuid = u /\ schedulers[id].offline
    BY <1>1, NodeManagerAssumption DEF IInv, SessionsKept, KeptOffline
  <2>4. /\ DOMAIN schedulers' = DOMAIN schedulers
        /\ schedulers'[id] = Restored(schedulers[id], lost)
        /\ \A s \in DOMAIN schedulers : s # id => schedulers'[s] = schedulers[s]
    BY <2>0, <2>3
  <2>5. /\ Restored(schedulers[id], lost) \in SchedulerRec
        /\ Restored(schedulers[id], lost).uuid = u
        /\ ~Restored(schedulers[id], lost).offline
        /\ Restored(schedulers[id], lost).assigned_workers = schedulers[id].assigned_workers
    BY <2>3, Tables, SchedulerLinked
  <2>6. new.id = id
    OBVIOUS
  <2> HIDE DEF id, new
  <2>7. TypeOK'
    <3>1. \A s \in DOMAIN schedulers' : schedulers'[s] \in SchedulerRec
      BY <2>4, <2>5, Tables
    <3> QED BY <2>1, <2>2, <2>4, <3>1 DEF IInv, TypeOK, SchedulerRec
  <2>8. PoolKnown' /\ EachWorkerOnce' /\ DemandsExact'
    BY <2>1, <2>4, <2>5, SamePool
  <2>9. OneConnection'
    <3>1. \A l \in scheduler_links : l.id # id
      BY <2>3 DEF IInv, OneConnection
    <3> QED BY <2>1, <2>3, <2>4, <2>5, <2>6, <3>1 DEF IInv, OneConnection
  <2>10. SessionsKept'
    <3>1. \A s \in DOMAIN schedulers : schedulers'[s].uuid = schedulers[s].uuid
      BY <2>3, <2>4, <2>5
    <3> QED BY <2>1, <2>2, <2>4, <3>1 DEF IInv, SessionsKept
  <2>11. KeptOffline'
    <3>1. ASSUME NEW v \in DOMAIN disconnected', v \in Schedulers
          PROVE  schedulers'[disconnected'[v].id].offline
      <4>1. /\ v \in DOMAIN disconnected /\ v # u /\ disconnected'[v] = disconnected[v]
        BY <2>2
      <4>2. disconnected[v].id \in DOMAIN schedulers /\ schedulers[disconnected[v].id].uuid = v
        BY <3>1, <4>1, NodeManagerAssumption DEF IInv, SessionsKept
      <4>3. schedulers[disconnected[v].id].offline
        BY <3>1, <4>1 DEF IInv, KeptOffline
      <4> QED BY <2>3, <2>4, <4>1, <4>2, <4>3
    <3> QED BY <2>1, <2>2, <3>1 DEF IInv, KeptOffline
  <2> QED BY <2>7, <2>8, <2>9, <2>10, <2>11 DEF IInv
<1> QED BY <1>2, <1>3

LEMMA SchedulerDisconnectInv ==
  ASSUME IInv, NEW link \in scheduler_links, SchedulerDisconnect(link)
  PROVE  IInv'
<1> DEFINE id == link.id
           u == schedulers[id].uuid
<1>1. PICK key \in Keys \ DOMAIN expirations :
         /\ expirations' = With(expirations, key, [type |-> "scheduler", id |-> id])
         /\ disconnected' = With(disconnected, u, [id |-> id, key |-> key])
  BY DEF SchedulerDisconnect
<1>2. /\ schedulers' = [schedulers EXCEPT ![id] = Disconnected(@)]
      /\ scheduler_links' = scheduler_links \ {link}
      /\ UNCHANGED <<status, workers, demands, order, unassigned_workers, notified, node_links>>
  BY DEF SchedulerDisconnect
<1>3. /\ DOMAIN disconnected' = DOMAIN disconnected \cup {u}
      /\ disconnected'[u].id = id
      /\ \A v \in DOMAIN disconnected : v # u => disconnected'[v] = disconnected[v]
      /\ DOMAIN expirations' = DOMAIN expirations \cup {key}
  BY <1>1 DEF With
<1>4. id \in DOMAIN schedulers /\ ~schedulers[id].offline
  BY DEF IInv, OneConnection
<1>5. /\ DOMAIN schedulers' = DOMAIN schedulers
      /\ schedulers'[id] = Disconnected(schedulers[id])
      /\ \A s \in DOMAIN schedulers : s # id => schedulers'[s] = schedulers[s]
  BY <1>2, <1>4
<1>6. /\ u \in Schedulers
      /\ Disconnected(schedulers[id]) \in SchedulerRec
      /\ Disconnected(schedulers[id]).uuid = u
      /\ Disconnected(schedulers[id]).offline
      /\ Disconnected(schedulers[id]).assigned_workers = schedulers[id].assigned_workers
  BY <1>4, Tables, SchedulerLinked DEF SchedulerRec
<1>7. \A l \in scheduler_links' : l \in scheduler_links /\ l.id # id
  BY <1>2 DEF IInv, OneConnection
<1> HIDE DEF id, u
<1>8. TypeOK'
  <2>1. \A s \in DOMAIN schedulers' : schedulers'[s] \in SchedulerRec
    BY <1>5, <1>6, Tables
  <2>2. DOMAIN disconnected' \subseteq Nodes \cup Schedulers /\ DOMAIN expirations' \subseteq Keys
    BY <1>3, <1>6 DEF IInv, TypeOK
  <2> QED BY <1>2, <1>5, <2>1, <2>2 DEF IInv, TypeOK, SchedulerRec
<1>9. PoolKnown' /\ EachWorkerOnce' /\ DemandsExact'
  BY <1>2, <1>5, <1>6, SamePool
<1>10. OneConnection'
  BY <1>5, <1>7 DEF IInv, OneConnection
<1>11. SessionsKept'
  <2>1. \A s \in DOMAIN schedulers : schedulers'[s].uuid = schedulers[s].uuid
    BY <1>5, <1>6 DEF u
  <2> QED BY <1>2, <1>3, <1>4, <1>5, <1>6, <2>1 DEF IInv, SessionsKept
<1>12. KeptOffline'
  <2>1. \A s \in DOMAIN schedulers : schedulers[s].offline => schedulers'[s].offline
    BY <1>5, <1>6
  <2>2. \A v \in DOMAIN disconnected : v \in Schedulers =>
           disconnected[v].id \in DOMAIN schedulers /\ schedulers[disconnected[v].id].offline
    BY NodeManagerAssumption DEF IInv, SessionsKept, KeptOffline
  <2> QED BY <1>2, <1>3, <1>4, <1>5, <1>6, <2>1, <2>2, NodeManagerAssumption
          DEF IInv, KeptOffline
<1> QED BY <1>8, <1>9, <1>10, <1>11, <1>12 DEF IInv

(* The worker waited: nobody holds it.                                     *)
LEMMA WaitingLost ==
  ASSUME IInv, NEW id \in DOMAIN workers, workers[id].assigned = Unassigned,
         process_node_disconnection(id)
  PROVE  /\ workers' = Without(workers, id)
         /\ disconnected' = Without(disconnected, workers[id].uuid)
         /\ unassigned_workers' = Drop(unassigned_workers, id)
         /\ UNCHANGED <<schedulers, demands, order, notified>>
<1>1. Unassigned \notin DOMAIN schedulers
  BY Tables
<1> QED BY <1>1 DEF process_node_disconnection, SessionsAfterLoss

(* The worker was lent: its scheduler holds it and has a demand.           *)
LEMMA LentLost ==
  ASSUME IInv, NEW id \in DOMAIN workers, workers[id].assigned # Unassigned,
         process_node_disconnection(id)
  PROVE  LET s == workers[id].assigned
         IN  /\ s \in DOMAIN schedulers /\ s \in DOMAIN demands
             /\ id \in Range(schedulers[s].assigned_workers)
             /\ workers' = Without(workers, id)
             /\ disconnected' = Without(disconnected, workers[id].uuid)
             /\ schedulers' = [schedulers EXCEPT ![s] =
                   SchedulerTold([schedulers[s] EXCEPT !.assigned_workers =
                                     Drop(schedulers[s].assigned_workers, id)], {id}, {})]
             /\ demands' = [demands EXCEPT ![s].provided_workers = @ - 1]
             /\ notified' = TRUE
             /\ UNCHANGED <<unassigned_workers, order>>
<1> DEFINE s == workers[id].assigned
<1>1. s \in DOMAIN schedulers
  BY DEF IInv, PoolKnown
<1>2. id \in Range(schedulers[s].assigned_workers)
  BY <1>1, Tables DEF Once
<1>3. Range(<<>>) = {}
  BY DEF Range
<1>4. s \in DOMAIN demands
  BY <1>1, <1>2, <1>3, Tables DEF Exact
<1>5. /\ workers' = Without(workers, id)
      /\ disconnected' = Without(disconnected, workers[id].uuid)
      /\ UNCHANGED <<unassigned_workers, order>>
  BY DEF process_node_disconnection, SessionsAfterLoss
<1>6. /\ schedulers' = [schedulers EXCEPT ![s] =
            SchedulerTold([schedulers[s] EXCEPT !.assigned_workers = Drop(@, id)], {id}, {})]
      /\ demands' = ProvidedAfterLoss(s)
      /\ notified' = TRUE
  BY <1>1, <1>2 DEF process_node_disconnection
<1> HIDE DEF s
<1>7. demands' = [demands EXCEPT ![s].provided_workers = @ - 1]
  BY <1>4, <1>6 DEF ProvidedAfterLoss
<1>8. schedulers' = [schedulers EXCEPT ![s] =
            SchedulerTold([schedulers[s] EXCEPT !.assigned_workers =
                              Drop(schedulers[s].assigned_workers, id)], {id}, {})]
  BY <1>6
<1> QED BY <1>1, <1>2, <1>4, <1>5, <1>6, <1>7, <1>8 DEF s

(* What a lost worker leaves behind in either case.                        *)
LEMMA SessionLost ==
  ASSUME IInv, NEW id \in DOMAIN workers,
         workers' = Without(workers, id), disconnected' = Without(disconnected, workers[id].uuid),
         DOMAIN schedulers' = DOMAIN schedulers,
         \A s \in DOMAIN schedulers : schedulers'[s].uuid = schedulers[s].uuid
                                        /\ schedulers'[s].offline = schedulers[s].offline
  PROVE  SessionsKept' /\ KeptOffline'
<1>1. /\ DOMAIN workers' = DOMAIN workers \ {id}
      /\ \A w \in DOMAIN workers' : workers'[w] = workers[w]
      /\ DOMAIN disconnected' = DOMAIN disconnected \ {workers[id].uuid}
      /\ \A u \in DOMAIN disconnected' : disconnected'[u] = disconnected[u]
  BY DEF Without
<1>2. ASSUME NEW u \in DOMAIN disconnected', u \in Nodes
      PROVE  /\ disconnected'[u].id \in DOMAIN workers' /\ workers'[disconnected'[u].id].uuid = u
             /\ workers'[disconnected'[u].id].offline
  <2>1. u \in DOMAIN disconnected /\ u # workers[id].uuid /\ disconnected'[u] = disconnected[u]
    BY <1>1
  <2>2. disconnected[u].id \in DOMAIN workers /\ workers[disconnected[u].id].uuid = u
    BY <1>2, <2>1, NodeManagerAssumption DEF IInv, SessionsKept
  <2>3. workers[disconnected[u].id].offline
    BY <1>2, <2>1 DEF IInv, KeptOffline
  <2> QED BY <1>1, <2>1, <2>2, <2>3
<1>3. ASSUME NEW u \in DOMAIN disconnected', u \in Schedulers
      PROVE  /\ disconnected'[u].id \in DOMAIN schedulers'
             /\ schedulers'[disconnected'[u].id].uuid = u
             /\ schedulers'[disconnected'[u].id].offline
  <2>1. u \in DOMAIN disconnected /\ disconnected'[u] = disconnected[u]
    BY <1>1
  <2>2. disconnected[u].id \in DOMAIN schedulers /\ schedulers[disconnected[u].id].uuid = u
    BY <1>3, <2>1, NodeManagerAssumption DEF IInv, SessionsKept
  <2>3. schedulers[disconnected[u].id].offline
    BY <1>3, <2>1 DEF IInv, KeptOffline
  <2> QED BY <2>1, <2>2, <2>3
<1>4. DOMAIN disconnected' \subseteq Nodes \cup Schedulers
  BY <1>1 DEF IInv, TypeOK
<1> QED BY <1>2, <1>3, <1>4 DEF SessionsKept, KeptOffline

LEMMA WaitingLostInv ==
  ASSUME IInv, NEW id \in DOMAIN workers, workers[id].assigned = Unassigned,
         process_node_disconnection(id), DOMAIN expirations' \subseteq DOMAIN expirations,
         UNCHANGED <<status, network>>
  PROVE  IInv'
<1>1. /\ workers' = Without(workers, id)
      /\ disconnected' = Without(disconnected, workers[id].uuid)
      /\ unassigned_workers' = Drop(unassigned_workers, id)
      /\ UNCHANGED <<schedulers, demands, order, notified, scheduler_links>>
  BY WaitingLost DEF network
<1>2. /\ DOMAIN workers' = DOMAIN workers \ {id}
      /\ \A w \in DOMAIN workers' : workers'[w] = workers[w]
      /\ DOMAIN disconnected' \subseteq DOMAIN disconnected
  BY <1>1 DEF Without
<1>3. /\ unassigned_workers' \in Seq(WorkerIds)
      /\ IsInjective(unassigned_workers')
      /\ Range(unassigned_workers') = Range(unassigned_workers) \ {id}
  BY <1>1, Tables, DropIs DEF Once
<1>4. TypeOK'
  BY <1>1, <1>2, <1>3 DEF IInv, TypeOK
<1>5. PoolKnown' /\ DemandsExact' /\ OneConnection'
  BY <1>1, <1>2 DEF IInv, PoolKnown, DemandsExact, OneConnection
<1>6. SessionsKept' /\ KeptOffline'
  BY <1>1, SessionLost
<1>7. EachWorkerOnce'
  <2>1. \A s \in DOMAIN schedulers : s # Unassigned
    BY Tables
  <2>2. Once(unassigned_workers, workers, schedulers)
    BY Tables
  <2>3. Once(unassigned_workers', workers', schedulers)
    BY <1>2, <1>3, <2>1, <2>2 DEF Once
  <2> QED BY <1>1, <2>3, OnceIs
<1> QED BY <1>4, <1>5, <1>6, <1>7 DEF IInv

LEMMA LentLostInv ==
  ASSUME IInv, NEW id \in DOMAIN workers, workers[id].assigned # Unassigned,
         process_node_disconnection(id), DOMAIN expirations' \subseteq DOMAIN expirations,
         UNCHANGED <<status, network>>
  PROVE  IInv'
<1> DEFINE s == workers[id].assigned
           held == schedulers[s].assigned_workers
           left == Drop(held, id)
           told == SchedulerTold([schedulers[s] EXCEPT !.assigned_workers = left], {id}, {})
<1>1. /\ s \in DOMAIN schedulers /\ s \in DOMAIN demands
      /\ id \in Range(held)
      /\ workers' = Without(workers, id)
      /\ disconnected' = Without(disconnected, workers[id].uuid)
      /\ schedulers' = [schedulers EXCEPT ![s] = told]
      /\ demands' = [demands EXCEPT ![s].provided_workers = @ - 1]
      /\ notified' = TRUE
      /\ UNCHANGED <<unassigned_workers, order, scheduler_links>>
  BY LentLost DEF network
<1>2. /\ DOMAIN workers' = DOMAIN workers \ {id}
      /\ \A w \in DOMAIN workers' : workers'[w] = workers[w]
      /\ DOMAIN disconnected' \subseteq DOMAIN disconnected
  BY <1>1 DEF Without
<1>3. held \in Seq(WorkerIds) /\ IsInjective(held)
  BY <1>1, Tables DEF Once, SchedulerRec
<1>4. /\ left \in Seq(WorkerIds) /\ IsInjective(left)
      /\ Range(left) = Range(held) \ {id} /\ Len(left) = Len(held) - 1
      /\ Len(held) \in Nat /\ Len(left) \in Nat
  BY <1>1, <1>3, DropIs, LenProperties
<1>5. /\ told \in SchedulerRec /\ told.uuid = schedulers[s].uuid
      /\ told.offline = schedulers[s].offline
      /\ told.assigned_workers = left
  <2> DEFINE r == schedulers[s]
             gone == {id}
             come == {}
             t == SchedulerTold([r EXCEPT !.assigned_workers = left], gone, come)
  <2>1. /\ r \in SchedulerRec /\ left \in Seq(WorkerIds)
        /\ gone \in SUBSET WorkerIds /\ come \in SUBSET WorkerIds
    BY <1>1, <1>4, Tables
  <2>2. told = t
    OBVIOUS
  <2> HIDE DEF r, gone, come, left, s
  <2>3. /\ t \in SchedulerRec /\ t.uuid = r.uuid /\ t.offline = r.offline
        /\ t.assigned_workers = left
    <3>1. TellsOf(r, left, gone, come)
      BY ONLY <2>1, SchedulerSent
    <3> QED BY <3>1 DEF TellsOf
  <2> HIDE DEF t, told
  <2> QED BY <2>2, <2>3 DEF r
<1>6. /\ DOMAIN schedulers' = DOMAIN schedulers /\ schedulers'[s] = told
      /\ \A r \in DOMAIN schedulers : r # s => schedulers'[r] = schedulers[r]
  BY <1>1
<1>7. /\ DOMAIN demands' = DOMAIN demands
      /\ demands'[s] = [demands[s] EXCEPT !.provided_workers = @ - 1]
      /\ \A r \in DOMAIN demands : r # s => demands'[r] = demands[r]
  BY <1>1
<1>8. demands[s] \in DemandRec /\ demands[s].provided_workers = Len(held)
      /\ (demands[s].required_workers # AnyNumber => Len(held) <= demands[s].required_workers)
  BY <1>1, Tables DEF Exact
<1> HIDE DEF held, left, told
<1>9. /\ demands'[s] \in DemandRec
      /\ demands'[s].provided_workers = Len(left)
      /\ demands'[s].required_workers = demands[s].required_workers
  BY <1>4, <1>7, <1>8 DEF DemandRec
<1> HIDE DEF s
<1>10. TypeOK'
  <2>1. \A r \in DOMAIN schedulers' : schedulers'[r] \in SchedulerRec
    BY <1>5, <1>6, Tables
  <2>2. \A r \in DOMAIN demands' : demands'[r] \in DemandRec
    BY <1>7, <1>9, Tables
  <2> QED BY <1>1, <1>2, <1>6, <1>7, <2>1, <2>2 DEF IInv, TypeOK, SchedulerRec, DemandRec
<1>11. PoolKnown'
  BY <1>2, <1>6, <1>7 DEF IInv, PoolKnown
<1>12. EachWorkerOnce'
  <2>1. Once(unassigned_workers, workers, schedulers)
    BY Tables
  <2>2. workers[id].assigned = s
    BY DEF s
  <2>3. ASSUME NEW r \in DOMAIN schedulers, NEW w
        PROVE  w \in Range(schedulers'[r].assigned_workers)
                 <=> w \in DOMAIN workers' /\ workers'[w].assigned = r
    <3>1. CASE r = s
      BY <1>2, <1>4, <1>5, <1>6, <2>1, <3>1 DEF Once, held
    <3>2. CASE r # s
      BY <1>2, <1>6, <2>1, <2>2, <3>2 DEF Once
    <3> QED BY <3>1, <3>2
  <2>4. \A r \in DOMAIN schedulers : IsInjective(schedulers'[r].assigned_workers)
    BY <1>4, <1>5, <1>6, <2>1 DEF Once
  <2>5. id \notin Range(unassigned_workers)
    BY <2>1 DEF Once
  <2>6. \A w : w \in Range(unassigned_workers)
                 <=> w \in DOMAIN workers' /\ workers'[w].assigned = Unassigned
    BY <1>2, <2>1, <2>5 DEF Once
  <2>7. Once(unassigned_workers, workers', schedulers')
    BY <1>6, <2>1, <2>3, <2>4, <2>6 DEF Once
  <2> QED BY <1>1, <2>7, OnceIs
<1>13. DemandsExact'
  <2>1. Exact(demands, order, schedulers) /\ DOMAIN demands \subseteq DOMAIN schedulers
    BY Tables
  <2>2. ASSUME NEW r \in DOMAIN demands
        PROVE  /\ demands'[r].provided_workers = Len(schedulers'[r].assigned_workers)
               /\ demands'[r].required_workers # AnyNumber =>
                    Len(schedulers'[r].assigned_workers) <= demands'[r].required_workers
    <3>1. CASE r = s
      <4>1. demands[s].required_workers # AnyNumber => demands[s].required_workers \in Nat
        BY <1>8, NodeManagerAssumption DEF DemandRec
      <4>2. schedulers'[s].assigned_workers = left
        BY <1>5, <1>6
      <4>3. demands[s].required_workers # AnyNumber => Len(left) <= demands[s].required_workers
        BY <1>4, <1>8, <4>1
      <4> QED BY SMTT(30), <1>9, <3>1, <4>2, <4>3
    <3>2. CASE r # s
      BY <1>6, <1>7, <2>1, <3>2 DEF Exact
    <3> QED BY <3>1, <3>2
  <2>3. Exact(demands', order, schedulers')
    BY <1>1, <1>6, <1>7, <2>1, <2>2 DEF Exact
  <2> QED BY <1>1, <2>3, ExactIs
<1>14. SessionsKept' /\ KeptOffline'
  BY <1>1, <1>5, <1>6, SessionLost
<1>15. OneConnection'
  BY <1>1, <1>5, <1>6 DEF IInv, OneConnection
<1> QED BY <1>10, <1>11, <1>12, <1>13, <1>14, <1>15 DEF IInv

LEMMA process_expirationInv ==
  ASSUME IInv, NEW key \in DOMAIN expirations, process_expiration(key)
  PROVE  IInv'
<1>1. DOMAIN expirations' \subseteq DOMAIN expirations /\ UNCHANGED <<status, network>>
  BY DEF process_expiration, Without
<1>2. ASSUME UNCHANGED <<pool, disconnected, notified>> PROVE IInv'
  <2>1. TypeOK'
    BY <1>1, <1>2 DEF IInv, TypeOK, pool
  <2>2. PoolKnown' /\ SessionsKept' /\ KeptOffline' /\ OneConnection'
    BY <1>1, <1>2 DEF IInv, PoolKnown, SessionsKept, KeptOffline, OneConnection,
                      pool, network
  <2>3. EachWorkerOnce' /\ DemandsExact'
    BY <1>2 DEF IInv, EachWorkerOnce, DemandsExact, pool
  <2> QED BY <2>1, <2>2, <2>3 DEF IInv
<1>3. ASSUME NEW id, process_node_disconnection(id) PROVE IInv'
  <2>1. CASE id \notin DOMAIN workers
    BY <1>2, <1>3, <2>1 DEF process_node_disconnection
  <2>2. CASE id \in DOMAIN workers /\ workers[id].assigned = Unassigned
    BY <1>1, <1>3, <2>2, WaitingLostInv
  <2>3. CASE id \in DOMAIN workers /\ workers[id].assigned # Unassigned
    BY <1>1, <1>3, <2>3, LentLostInv
  <2> QED BY <2>1, <2>2, <2>3
<1> QED BY <1>2, <1>3 DEF process_expiration

(* A scheduler that sends or releases its demand holds no worker from then *)
(* on, and those it held wait again.                                       *)
LEMMA Returned ==
  ASSUME IInv, NEW s \in DOMAIN schedulers, release_workers(s)
  PROVE  /\ DOMAIN workers' = DOMAIN workers
         /\ \A w \in DOMAIN workers :
              workers'[w] = IF workers[w].assigned = s THEN release_worker(w) ELSE workers[w]
         /\ unassigned_workers' \in Seq(WorkerIds) /\ IsInjective(unassigned_workers')
         /\ Range(unassigned_workers') =
              Range(unassigned_workers) \cup Range(schedulers[s].assigned_workers)
         /\ schedulers' = [schedulers EXCEPT ![s].assigned_workers = <<>>,
                                             ![s].heard = {}, ![s].pending = {}]
<1> DEFINE held == schedulers[s].assigned_workers
           I == {i \in DOMAIN held : held[i] \in DOMAIN workers}
           released == Picked(held, I)
<1>1. held \in Seq(WorkerIds) /\ IsInjective(held) /\ s # Unassigned
  BY Tables DEF Once, SchedulerRec
<1>2. \A w : w \in Range(held) <=> w \in DOMAIN workers /\ workers[w].assigned = s
  BY Tables DEF Once
<1>3. /\ workers' = [w \in DOMAIN workers |->
            IF w \in Range(released) THEN release_worker(w) ELSE workers[w]]
      /\ unassigned_workers' = unassigned_workers \o released
      /\ schedulers' = [schedulers EXCEPT ![s].assigned_workers = <<>>,
                                          ![s].heard = {}, ![s].pending = {}]
  BY DEF release_workers
<1> HIDE DEF held
<1>4. I = 1 .. Len(held) /\ I = DOMAIN held
  <2>1. DOMAIN held = 1 .. Len(held)
    BY <1>1, LenProperties
  <2>2. \A i \in DOMAIN held : held[i] \in Range(held)
    BY DEF Range
  <2> QED BY <1>2, <2>1, <2>2
<1>5. /\ released \in Seq(WorkerIds) /\ IsInjective(released)
      /\ Range(released) = {held[i] : i \in I}
  <2>1. I \in SUBSET (1 .. Len(held))
    BY <1>4
  <2> HIDE DEF I
  <2> QED BY <1>1, <2>1, PickedIs
<1>6. Range(released) = Range(held)
  BY <1>4, <1>5 DEF Range
<1> HIDE DEF released, I
<1>7. /\ unassigned_workers \in Seq(WorkerIds) /\ IsInjective(unassigned_workers)
      /\ \A w \in Range(unassigned_workers) : workers[w].assigned = Unassigned
  BY Tables DEF Once
<1>8. Range(unassigned_workers) \cap Range(released) = {}
  BY <1>1, <1>2, <1>6, <1>7
<1>9. /\ unassigned_workers' \in Seq(WorkerIds) /\ IsInjective(unassigned_workers')
      /\ Range(unassigned_workers') = Range(unassigned_workers) \cup Range(released)
  BY <1>3, <1>5, <1>7, <1>8, ConcatIs
<1>10. \A w \in DOMAIN workers :
         workers'[w] = IF workers[w].assigned = s THEN release_worker(w) ELSE workers[w]
  BY <1>2, <1>3, <1>6
<1> QED BY <1>3, <1>6, <1>9, <1>10 DEF held

Forgets(s) ==
    IF s \in DOMAIN demands
    THEN release_workers(s)
    ELSE /\ schedulers' = [schedulers EXCEPT ![s].heard = {}, ![s].pending = {}]
         /\ UNCHANGED <<workers, unassigned_workers>>

LEMMA Forgotten ==
  ASSUME IInv, NEW s \in DOMAIN schedulers, Forgets(s)
  PROVE  /\ DOMAIN workers' = DOMAIN workers
         /\ \A w \in DOMAIN workers :
              workers'[w] = IF workers[w].assigned = s THEN release_worker(w) ELSE workers[w]
         /\ unassigned_workers' \in Seq(WorkerIds) /\ IsInjective(unassigned_workers')
         /\ Range(unassigned_workers') =
              Range(unassigned_workers) \cup Range(schedulers[s].assigned_workers)
         /\ DOMAIN schedulers' = DOMAIN schedulers
         /\ \A r \in DOMAIN schedulers : r # s => schedulers'[r] = schedulers[r]
         /\ schedulers'[s] = [schedulers[s] EXCEPT !.assigned_workers = <<>>,
                                                   !.heard = {}, !.pending = {}]
<1>1. schedulers[s] \in SchedulerRec
  BY SMTT(30), Tables
<1>2. CASE s \in DOMAIN demands
  <2>1. release_workers(s)
    BY SMTT(30), <1>2 DEF Forgets
  <2>2. schedulers' = [schedulers EXCEPT ![s].assigned_workers = <<>>,
                                         ![s].heard = {}, ![s].pending = {}]
    BY <2>1, Returned
  <2>3. /\ DOMAIN schedulers' = DOMAIN schedulers
        /\ \A r \in DOMAIN schedulers : r # s => schedulers'[r] = schedulers[r]
        /\ schedulers'[s] = [schedulers[s] EXCEPT !.assigned_workers = <<>>,
                                                  !.heard = {}, !.pending = {}]
    BY <1>1, <2>2 DEF SchedulerRec
  <2> QED BY <2>1, <2>3, Returned
<1>3. CASE s \notin DOMAIN demands
  <2>1. /\ schedulers' = [schedulers EXCEPT ![s].heard = {}, ![s].pending = {}]
        /\ UNCHANGED <<workers, unassigned_workers>>
    BY <1>3 DEF Forgets
  <2>2. schedulers[s].assigned_workers = <<>> /\ Range(<<>>) = {}
    BY <1>3, Tables DEF Exact, Range
  <2>3. /\ DOMAIN schedulers' = DOMAIN schedulers
        /\ \A r \in DOMAIN schedulers : r # s => schedulers'[r] = schedulers[r]
        /\ schedulers'[s] = [schedulers[s] EXCEPT !.assigned_workers = <<>>,
                                                  !.heard = {}, !.pending = {}]
    BY <1>1, <2>1, <2>2 DEF SchedulerRec
  <2>4. \A w \in DOMAIN workers : workers[w].assigned # s
    BY <2>2, Tables DEF Once
  <2> QED BY <2>1, <2>2, <2>3, <2>4, Tables DEF Once
<1> QED BY <1>2, <1>3

LEMMA DemandInv ==
  ASSUME IInv, NEW s \in DOMAIN schedulers, Forgets(s), notified' = TRUE,
         UNCHANGED <<status, sessions, network>>,
         DOMAIN demands' \ {s} = DOMAIN demands \ {s},
         \A r \in DOMAIN demands \ {s} : demands'[r] = demands[r],
         s \in DOMAIN demands' => demands'[s] \in DemandRec /\ demands'[s].provided_workers = 0,
         order' \in Seq(SchedulerIds), IsInjective(order'), Range(order') = DOMAIN demands'
  PROVE  IInv'
<1> DEFINE held == schedulers[s].assigned_workers
<1>1. /\ DOMAIN workers' = DOMAIN workers
      /\ \A w \in DOMAIN workers :
           workers'[w] = IF workers[w].assigned = s THEN release_worker(w) ELSE workers[w]
      /\ unassigned_workers' \in Seq(WorkerIds) /\ IsInjective(unassigned_workers')
      /\ Range(unassigned_workers') = Range(unassigned_workers) \cup Range(held)
      /\ DOMAIN schedulers' = DOMAIN schedulers
      /\ \A r \in DOMAIN schedulers : r # s => schedulers'[r] = schedulers[r]
      /\ schedulers'[s] = [schedulers[s] EXCEPT !.assigned_workers = <<>>,
                                                !.heard = {}, !.pending = {}]
  BY Forgotten
<1>2. \A w \in DOMAIN workers :
        /\ release_worker(w) \in NodeRec /\ release_worker(w).uuid = workers[w].uuid
        /\ release_worker(w).offline = workers[w].offline
        /\ release_worker(w).assigned = Unassigned
  BY Tables, NodeSent DEF release_worker
<1>3. /\ schedulers'[s] \in SchedulerRec /\ schedulers'[s].uuid = schedulers[s].uuid
      /\ schedulers'[s].offline = schedulers[s].offline
      /\ schedulers'[s].assigned_workers = <<>>
      /\ schedulers'[s].heard = {} /\ schedulers'[s].pending = {}
  <2>1. schedulers[s] \in SchedulerRec
    BY Tables
  <2> DEFINE f == [schedulers[s] EXCEPT !.assigned_workers = <<>>, !.heard = {}, !.pending = {}]
  <2>2. /\ f \in SchedulerRec /\ f.uuid = schedulers[s].uuid
        /\ f.offline = schedulers[s].offline
        /\ f.assigned_workers = <<>> /\ f.heard = {} /\ f.pending = {}
    BY <2>1, SchedulerForgets
  <2>3. schedulers'[s] = f
    BY <1>1
  <2> HIDE DEF f
  <2> QED BY <2>2, <2>3
<1>4. Range(<<>>) = {} /\ IsInjective(<<>>) /\ Len(<<>>) = 0
  BY DEF Range, IsInjective
<1>5. s # Unassigned /\ s \in SchedulerIds /\ \A w : w \in Range(held) <=> w \in DOMAIN workers /\ workers[w].assigned = s
  BY Tables DEF Once
<1> HIDE DEF held
<1>6. TypeOK'
  <2>1. \A r \in DOMAIN schedulers' : schedulers'[r] \in SchedulerRec
    BY <1>1, <1>3, Tables
  <2>2. \A w \in DOMAIN workers' : workers'[w] \in NodeRec
    BY <1>1, <1>2, Tables
  <2>3. \A r \in DOMAIN demands' : demands'[r] \in DemandRec
    BY Tables
  <2>4. DOMAIN demands' \subseteq SchedulerIds
    BY <1>5 DEF IInv, TypeOK
  <2> QED BY <1>1, <2>1, <2>2, <2>3, <2>4
          DEF IInv, TypeOK, SchedulerRec, NodeRec, DemandRec, sessions
<1>7. PoolKnown'
  BY <1>1, <1>2 DEF IInv, PoolKnown
<1>8. EachWorkerOnce'
  <2>1. Once(unassigned_workers, workers, schedulers)
    BY Tables
  <2>2. ASSUME NEW r \in DOMAIN schedulers, NEW w
        PROVE  w \in Range(schedulers'[r].assigned_workers)
                 <=> w \in DOMAIN workers' /\ workers'[w].assigned = r
    <3>1. r # Unassigned
      BY Tables
    <3>2. CASE r = s
      <4>1. \A v \in DOMAIN workers : workers'[v].assigned # s
        BY <1>1, <1>2, <1>5
      <4> QED BY <1>1, <1>3, <1>4, <3>2, <4>1
    <3>3. CASE r # s
      BY <1>1, <1>2, <2>1, <3>1, <3>3 DEF Once
    <3> QED BY <3>2, <3>3
  <2>3. \A r \in DOMAIN schedulers : IsInjective(schedulers'[r].assigned_workers)
    BY <1>1, <1>3, <1>4, <2>1 DEF Once
  <2>4. \A w : w \in Range(unassigned_workers')
                 <=> w \in DOMAIN workers' /\ workers'[w].assigned = Unassigned
    BY <1>1, <1>2, <1>5, <2>1 DEF Once
  <2>5. Once(unassigned_workers', workers', schedulers')
    BY <1>1, <2>2, <2>3, <2>4 DEF Once
  <2> QED BY <2>5, OnceIs
<1>9. DemandsExact'
  <2>1. Exact(demands, order, schedulers) /\ DOMAIN demands \subseteq DOMAIN schedulers
    BY Tables
  <2>2. ASSUME NEW r \in DOMAIN demands'
        PROVE  /\ demands'[r].provided_workers = Len(schedulers'[r].assigned_workers)
               /\ demands'[r].required_workers # AnyNumber =>
                    Len(schedulers'[r].assigned_workers) <= demands'[r].required_workers
    <3>1. CASE r = s
      <4>1. demands'[s].required_workers # AnyNumber => demands'[s].required_workers \in Nat
        BY <3>1, NodeManagerAssumption DEF DemandRec
      <4> QED BY <1>3, <1>4, <3>1, <4>1
    <3>2. CASE r # s
      BY <1>1, <2>1, <3>2 DEF Exact
    <3> QED BY <3>1, <3>2
  <2>3. \A r \in DOMAIN schedulers' \ DOMAIN demands' : schedulers'[r].assigned_workers = <<>>
    BY <1>1, <1>3, <2>1 DEF Exact
  <2>4. Exact(demands', order', schedulers')
    BY <2>2, <2>3 DEF Exact
  <2> QED BY <2>4, ExactIs
<1>10. SessionsKept' /\ KeptOffline'
  <2>1. /\ \A r \in DOMAIN schedulers : /\ schedulers'[r].uuid = schedulers[r].uuid
                                        /\ schedulers'[r].offline = schedulers[r].offline
        /\ \A w \in DOMAIN workers : /\ workers'[w].uuid = workers[w].uuid
                                     /\ workers'[w].offline = workers[w].offline
    BY <1>1, <1>2, <1>3
  <2>2. SessionsKept'
    BY <1>1, <2>1 DEF IInv, SessionsKept, sessions
  <2>3. \A u \in DOMAIN disconnected :
           /\ u \in Nodes => disconnected[u].id \in DOMAIN workers
           /\ u \in Schedulers => disconnected[u].id \in DOMAIN schedulers
    BY NodeManagerAssumption DEF IInv, SessionsKept
  <2>4. KeptOffline'
    BY <1>1, <2>1, <2>3 DEF IInv, KeptOffline, sessions
  <2> QED BY <2>2, <2>4
<1>11. OneConnection'
  BY <1>1, <1>3 DEF IInv, OneConnection, network
<1> QED BY <1>6, <1>7, <1>8, <1>9, <1>10, <1>11 DEF IInv

LEMMA WorkersDemandInv ==
  ASSUME IInv, NEW link \in scheduler_links, NEW required \in Required,
         NEW platforms \in SUBSET Platforms, WorkersDemand(link, required, platforms)
  PROVE  IInv'
<1> DEFINE s == link.id
           demand == [provided_workers |-> 0, required_workers |-> required,
                      supported_platforms |-> platforms]
<1>1. s \in DOMAIN schedulers /\ s \in SchedulerIds
  BY Tables DEF IInv, OneConnection
<1>2. /\ demands' = With(demands, s, demand)
      /\ order' = Append(Drop(order, s), s)
      /\ Forgets(s)
      /\ notified' = TRUE
      /\ UNCHANGED <<status, sessions, network>>
  BY DEF WorkersDemand, Forgets, DemandNoticed
<1>3. demand \in DemandRec /\ demand.provided_workers = 0
  BY DEF DemandRec
<1> HIDE DEF s, demand
<1>4. /\ DOMAIN demands' = DOMAIN demands \cup {s} /\ demands'[s] = demand
      /\ \A r \in DOMAIN demands \ {s} : demands'[r] = demands[r]
  BY <1>2 DEF With
<1>5. /\ Drop(order, s) \in Seq(SchedulerIds) /\ IsInjective(Drop(order, s))
      /\ Range(Drop(order, s)) = DOMAIN demands \ {s}
  BY Tables, DropIs DEF Exact
<1>6. /\ order' \in Seq(SchedulerIds) /\ IsInjective(order')
      /\ Range(order') = DOMAIN demands'
  BY <1>1, <1>2, <1>4, <1>5, AppendIs, AppendProperties
<1> QED BY <1>1, <1>2, <1>3, <1>4, <1>6, DemandInv

LEMMA ReleaseDemandInv ==
  ASSUME IInv, NEW link \in scheduler_links, ReleaseDemand(link)
  PROVE  IInv'
<1> DEFINE s == link.id
<1>1. s \in DOMAIN schedulers
  BY DEF IInv, OneConnection
<1>2. /\ demands' = Without(demands, s)
      /\ order' = Drop(order, s)
      /\ Forgets(s)
      /\ notified' = TRUE
      /\ UNCHANGED <<status, sessions, network>>
  BY DEF ReleaseDemand, Forgets
<1> HIDE DEF s
<1>3. /\ DOMAIN demands' = DOMAIN demands \ {s}
      /\ \A r \in DOMAIN demands \ {s} : demands'[r] = demands[r]
  BY <1>2 DEF Without
<1>4. /\ order' \in Seq(SchedulerIds) /\ IsInjective(order')
      /\ Range(order') = DOMAIN demands'
  BY <1>2, <1>3, Tables, DropIs DEF Exact
<1> QED BY <1>1, <1>2, <1>3, <1>4, DemandInv

(* One pass over the queue, with the workers it lends and to whom.         *)
Lending(n, given) ==
    /\ Lendable(given)
    /\ unassigned_workers' = SubSeq(unassigned_workers, n + 1, Len(unassigned_workers))
    /\ demands' = [s \in DOMAIN demands |->
          [demands[s] EXCEPT !.provided_workers = ProvidedAfterLending(given, s)]]
    /\ schedulers' = [s \in DOMAIN schedulers |->
          SchedulerTold([schedulers[s] EXCEPT !.assigned_workers = @ \o Lent(given, s)],
                        {}, Range(Lent(given, s)))]
    /\ workers' = [w \in DOMAIN workers |->
          IF \E i \in 1 .. n : unassigned_workers[i] = w
          THEN LET s == given[CHOOSE i \in 1 .. n : unassigned_workers[i] = w]
               IN  NodeTold([workers[w] EXCEPT !.assigned = s], s)
          ELSE workers[w]]

(* The places in line of the workers that s gets. *)
Places(given, s) == {i \in 1 .. Len(given) : given[i] = s}

LEMMA LentIs ==
  ASSUME IInv, NEW n \in 0 .. Len(unassigned_workers), NEW given \in [1 .. n -> DOMAIN demands],
         NEW s
  PROVE  /\ n \in Nat /\ Len(given) = n
         /\ Places(given, s) \in SUBSET (1 .. n)
         /\ Lent(given, s) \in Seq(WorkerIds) /\ IsInjective(Lent(given, s))
         /\ Len(Lent(given, s)) = Cardinality(Places(given, s))
         /\ \A w : w \in Range(Lent(given, s))
                     <=> \E i \in 1 .. n : given[i] = s /\ unassigned_workers[i] = w
         /\ s \notin DOMAIN demands => Lent(given, s) = <<>>
<1> DEFINE un == unassigned_workers
           J == Places(given, s)
           l == Lent(given, s)
<1>1. un \in Seq(WorkerIds) /\ IsInjective(un) /\ Len(un) \in Nat
  BY Tables, LenProperties DEF Once
<1>2. n \in Nat /\ n <= Len(un)
  BY <1>1
<1>3. Len(given) = n
  BY <1>2
<1>4. J \in SUBSET (1 .. n) /\ \A i : i \in J <=> i \in 1 .. n /\ given[i] = s
  BY <1>3 DEF Places
<1>5. J \in SUBSET (1 .. Len(un))
  BY <1>1, <1>2, <1>4
<1>6. l = Picked(un, J)
  BY DEF Lent, Places
<1> HIDE DEF un, J, l
<1>7. /\ l \in Seq(WorkerIds) /\ IsInjective(l) /\ Len(l) = Cardinality(J)
      /\ Range(l) = {un[i] : i \in J}
  BY <1>1, <1>5, <1>6, PickedIs
<1>8. \A w : w \in Range(l) <=> \E i \in 1 .. n : given[i] = s /\ un[i] = w
  BY <1>4, <1>7
<1>9. ASSUME s \notin DOMAIN demands PROVE l = <<>>
  <2>1. J = {}
    BY <1>4, <1>9
  <2> QED BY <1>7, <2>1, FS_EmptySet, EmptySeq
<1> QED BY <1>2, <1>3, <1>4, <1>7, <1>8, <1>9 DEF un, J, l

(* What the queue counts after i workers, and when all are lent.           *)
LEMMA ProvidedIs ==
  ASSUME IInv, NEW n \in 0 .. Len(unassigned_workers), NEW given \in [1 .. n -> DOMAIN demands],
         NEW s \in DOMAIN demands, NEW i \in 0 .. n
  PROVE  Provided(given, i)[s] =
           demands[s].provided_workers + Cardinality(UpTo(Places(given, s), i))
<1>1. n \in Nat /\ Len(given) = n
  BY LentIs
<1>2. \A j : j \in 1 .. i /\ given[j] = s <=> j \in UpTo(Places(given, s), i)
  BY <1>1 DEF UpTo, Places
<1>3. {j \in 1 .. i : given[j] = s} = UpTo(Places(given, s), i)
  BY <1>2
<1> QED BY <1>3 DEF Provided

(* No demand is given more than it requires.                               *)
LEMMA NeverTooMany ==
  ASSUME IInv, NEW n \in 0 .. Len(unassigned_workers), NEW given \in [1 .. n -> DOMAIN demands],
         Lendable(given), NEW s \in DOMAIN demands, demands[s].required_workers # AnyNumber
  PROVE  demands[s].provided_workers + Cardinality(Places(given, s)) <= demands[s].required_workers
<1> DEFINE J == Places(given, s)
           k == demands[s].required_workers
           p == demands[s].provided_workers
           c(m) == Cardinality(UpTo(J, m))
           T == {m \in 0 .. n : p + c(m) > k}
<1>1. n \in Nat /\ Len(given) = n /\ J \in SUBSET (1 .. n)
  BY LentIs
<1>2. k \in Nat /\ p \in Nat /\ p <= k
  <2>1. demands[s] \in DemandRec /\ demands[s].provided_workers = Len(schedulers[s].assigned_workers)
        /\ Len(schedulers[s].assigned_workers) <= k
    BY Tables DEF Exact
  <2> QED BY <2>1, NodeManagerAssumption DEF DemandRec
<1>3. c(0) = 0 /\ c(n) = Cardinality(J)
  BY <1>1, UpToEnds
<1>4. \A m \in Nat : /\ c(m) \in Nat
                     /\ m + 1 \in J => c(m + 1) = c(m) + 1
                     /\ m + 1 \notin J => c(m + 1) = c(m)
  BY <1>1, UpToGrows
<1>5. \A m \in 0 .. n : Provided(given, m)[s] = p + c(m)
  BY ProvidedIs
<1>6. \A i \in 1 .. n : given[i] = s => k # Provided(given, i - 1)[s]
  BY <1>1 DEF Lendable, FirstAccepting, Accepts
<1>7. \A i \in J : i \in 1 .. n /\ given[i] = s
  BY <1>1 DEF Places
<1> HIDE DEF J, k, p, c
<1>8. T = {}
  <2> SUFFICES ASSUME T # {} PROVE FALSE
    OBVIOUS
  <2>1. PICK m \in T : \A x \in T : m <= x
    <3>1. T \subseteq Nat
      BY <1>1
    <3> HIDE DEF T
    <3> QED BY <3>1, LeastNatural
  <2>2. m \in 0 .. n /\ p + c(m) > k
    OBVIOUS
  <2>3. m # 0
    BY <1>2, <1>3, <2>2
  <2>4. m - 1 \in 0 .. n /\ m - 1 \in Nat /\ (m - 1) + 1 = m /\ m - 1 \notin T
    BY <1>1, <2>1, <2>2, <2>3
  <2>5. c(m - 1) \in Nat /\ ~(p + c(m - 1) > k)
    BY <1>4, <2>4
  <2>6. (m \in J => c(m) = c(m - 1) + 1) /\ (m \notin J => c(m) = c(m - 1))
    BY <1>4, <2>4
  <2>7. m \in J /\ p + c(m - 1) = k
    BY <1>2, <2>2, <2>5, <2>6
  <2>8. k # Provided(given, m - 1)[s]
    BY <1>6, <1>7, <2>7
  <2> QED BY <1>5, <2>4, <2>7, <2>8
<1>9. n \in 0 .. n /\ n \notin T
  BY <1>1, <1>8
<1>10. ~(p + c(n) > k) /\ c(n) \in Nat
  BY <1>1, <1>4, <1>9
<1> QED BY <1>2, <1>3, <1>10 DEF J, k, p

(* The tables after a pass.                                                *)
LEMMA LendingIs ==
  ASSUME IInv, NEW n \in 0 .. Len(unassigned_workers), NEW given \in [1 .. n -> DOMAIN demands],
         Lending(n, given)
  PROVE  /\ DOMAIN workers' = DOMAIN workers
         /\ \A i \in 1 .. n : /\ unassigned_workers[i] \in DOMAIN workers
                              /\ workers'[unassigned_workers[i]] =
                                   NodeTold([workers[unassigned_workers[i]] EXCEPT
                                               !.assigned = given[i]], given[i])
         /\ \A w \in DOMAIN workers :
              (\A i \in 1 .. n : unassigned_workers[i] # w) => workers'[w] = workers[w]
         /\ DOMAIN schedulers' = DOMAIN schedulers
         /\ \A s \in DOMAIN schedulers :
              schedulers'[s] =
                SchedulerTold([schedulers[s] EXCEPT !.assigned_workers =
                                  schedulers[s].assigned_workers \o Lent(given, s)],
                              {}, Range(Lent(given, s)))
         /\ DOMAIN demands' = DOMAIN demands
         /\ \A s \in DOMAIN demands :
              demands'[s] = [demands[s] EXCEPT !.provided_workers =
                                demands[s].provided_workers + Len(Lent(given, s))]
<1> DEFINE un == unassigned_workers
<1>1. un \in Seq(WorkerIds) /\ IsInjective(un) /\ Len(un) \in Nat /\ DOMAIN un = 1 .. Len(un)
      /\ \A w \in Range(un) : w \in DOMAIN workers
  BY Tables, LenProperties DEF Once
<1>2. \A i \in 1 .. n : i \in DOMAIN un /\ un[i] \in DOMAIN workers
  BY <1>1 DEF Range
<1>3. ASSUME NEW i \in 1 .. n
      PROVE  workers'[un[i]] = NodeTold([workers[un[i]] EXCEPT !.assigned = given[i]], given[i])
  <2>1. (CHOOSE j \in 1 .. n : un[j] = un[i]) = i
    BY <1>1, <1>2 DEF IsInjective
  <2> QED BY <1>2, <2>1 DEF Lending
<1>4. \A w \in DOMAIN workers : (\A i \in 1 .. n : un[i] # w) => workers'[w] = workers[w]
  BY DEF Lending
<1>5. DOMAIN workers' = DOMAIN workers /\ DOMAIN schedulers' = DOMAIN schedulers
      /\ DOMAIN demands' = DOMAIN demands
  BY DEF Lending
<1>6. \A s \in DOMAIN schedulers :
        schedulers'[s] =
          SchedulerTold([schedulers[s] EXCEPT !.assigned_workers =
                            schedulers[s].assigned_workers \o Lent(given, s)],
                        {}, Range(Lent(given, s)))
  BY DEF Lending
<1>7. \A s \in DOMAIN demands :
        demands'[s] = [demands[s] EXCEPT !.provided_workers =
                          demands[s].provided_workers + Len(Lent(given, s))]
  BY DEF Lending, ProvidedAfterLending
<1> QED BY <1>2, <1>3, <1>4, <1>5, <1>6, <1>7

LEMMA LendingInv ==
  ASSUME IInv, NEW n \in 0 .. Len(unassigned_workers), NEW given \in [1 .. n -> DOMAIN demands],
         Lending(n, given), notified' = FALSE, UNCHANGED <<status, order, sessions, network>>
  PROVE  IInv'
<1> DEFINE un == unassigned_workers
           L(s) == Lent(given, s)
           lent(i) == NodeTold([workers[un[i]] EXCEPT !.assigned = given[i]], given[i])
           told(s) == SchedulerTold([schedulers[s] EXCEPT !.assigned_workers =
                                        schedulers[s].assigned_workers \o L(s)],
                                    {}, Range(L(s)))
<1>1. un \in Seq(WorkerIds) /\ IsInjective(un) /\ Len(un) \in Nat /\ DOMAIN un = 1 .. Len(un)
  BY Tables, LenProperties DEF Once
<1>2. n \in Nat /\ n <= Len(un) /\ \A i \in 1 .. n : i \in DOMAIN un
  BY <1>1
<1>3. /\ un' \in Seq(WorkerIds) /\ IsInjective(un')
      /\ \A y : y \in Range(un') <=> \E i \in n + 1 .. Len(un) : un[i] = y
  BY <1>1, SuffixIs DEF Lending
<1>4. \A s : /\ L(s) \in Seq(WorkerIds) /\ IsInjective(L(s))
             /\ \A w : w \in Range(L(s)) <=> \E i \in 1 .. n : given[i] = s /\ un[i] = w
  BY LentIs
<1>5. /\ DOMAIN workers' = DOMAIN workers
      /\ \A i \in 1 .. n : un[i] \in DOMAIN workers /\ workers'[un[i]] = lent(i)
      /\ \A w \in DOMAIN workers : (\A i \in 1 .. n : un[i] # w) => workers'[w] = workers[w]
      /\ DOMAIN schedulers' = DOMAIN schedulers
      /\ \A s \in DOMAIN schedulers : schedulers'[s] = told(s)
      /\ DOMAIN demands' = DOMAIN demands
      /\ \A s \in DOMAIN demands :
           demands'[s] = [demands[s] EXCEPT !.provided_workers =
                             demands[s].provided_workers + Len(L(s))]
  BY LendingIs
<1>6. \A i \in 1 .. n :
        /\ lent(i) \in NodeRec /\ lent(i).assigned = given[i]
        /\ lent(i).uuid = workers[un[i]].uuid /\ lent(i).offline = workers[un[i]].offline
        /\ given[i] \in DOMAIN schedulers /\ given[i] # Unassigned
  <2> SUFFICES ASSUME NEW i \in 1 .. n
               PROVE  /\ lent(i) \in NodeRec /\ lent(i).assigned = given[i]
                      /\ lent(i).uuid = workers[un[i]].uuid
                      /\ lent(i).offline = workers[un[i]].offline
                      /\ given[i] \in DOMAIN schedulers /\ given[i] # Unassigned
    OBVIOUS
  <2>1. /\ given[i] \in DOMAIN schedulers /\ given[i] # Unassigned /\ given[i] \in SchedulerIds
        /\ workers[un[i]] \in NodeRec
    BY <1>5, Tables
  <2> QED BY <2>1, NodeSent
<1>7. \A s \in DOMAIN schedulers :
        /\ schedulers[s].assigned_workers \in Seq(WorkerIds)
        /\ \A w \in Range(schedulers[s].assigned_workers) : w \in DOMAIN workers /\ workers[w].assigned = s
        /\ schedulers[s].assigned_workers \o L(s) \in Seq(WorkerIds)
        /\ Range(schedulers[s].assigned_workers \o L(s)) =
             Range(schedulers[s].assigned_workers) \cup Range(L(s))
        /\ Len(schedulers[s].assigned_workers \o L(s)) =
             Len(schedulers[s].assigned_workers) + Len(L(s))
        /\ IsInjective(schedulers[s].assigned_workers \o L(s))
  <2> SUFFICES ASSUME NEW s \in DOMAIN schedulers
               PROVE  LET held == schedulers[s].assigned_workers
                      IN  /\ held \in Seq(WorkerIds)
                          /\ \A w \in Range(held) : w \in DOMAIN workers /\ workers[w].assigned = s
                          /\ held \o L(s) \in Seq(WorkerIds)
                          /\ Range(held \o L(s)) = Range(held) \cup Range(L(s))
                          /\ Len(held \o L(s)) = Len(held) + Len(L(s))
                          /\ IsInjective(held \o L(s))
    OBVIOUS
  <2> DEFINE held == schedulers[s].assigned_workers
  <2>1. held \in Seq(WorkerIds) /\ IsInjective(held) /\ s # Unassigned
        /\ \A w \in Range(held) : w \in DOMAIN workers /\ workers[w].assigned = s
    BY Tables DEF Once, SchedulerRec
  <2>2. \A i \in 1 .. n : workers[un[i]].assigned = Unassigned
    BY <1>2, Tables DEF Once, Range
  <2>3. Range(held) \cap Range(L(s)) = {}
    BY <1>4, <2>1, <2>2
  <2> HIDE DEF held, L
  <2>4. L(s) \in Seq(WorkerIds) /\ IsInjective(L(s))
    BY <1>4
  <2>5. /\ held \o L(s) \in Seq(WorkerIds)
        /\ Range(held \o L(s)) = Range(held) \cup Range(L(s))
        /\ Len(held \o L(s)) = Len(held) + Len(L(s))
        /\ IsInjective(held \o L(s))
    BY <2>1, <2>3, <2>4, ConcatIs
  <2> QED BY <2>1, <2>5 DEF held
<1>8. \A s \in DOMAIN schedulers :
        /\ told(s) \in SchedulerRec /\ told(s).uuid = schedulers[s].uuid
        /\ told(s).offline = schedulers[s].offline
        /\ told(s).assigned_workers = schedulers[s].assigned_workers \o L(s)
  <2> SUFFICES ASSUME NEW s \in DOMAIN schedulers
               PROVE  /\ told(s) \in SchedulerRec /\ told(s).uuid = schedulers[s].uuid
                      /\ told(s).offline = schedulers[s].offline
                      /\ told(s).assigned_workers = schedulers[s].assigned_workers \o L(s)
    OBVIOUS
  <2> DEFINE r == schedulers[s]
             held == schedulers[s].assigned_workers \o L(s)
             gone == {}
             come == Range(L(s))
             t == SchedulerTold([r EXCEPT !.assigned_workers = held], gone, come)
  <2>1. r \in SchedulerRec /\ held \in Seq(WorkerIds)
    BY <1>7, Tables
  <2>2. come \in SUBSET WorkerIds /\ gone \in SUBSET WorkerIds
    BY <1>4, <1>5, Tables
  <2>3. told(s) = t
    OBVIOUS
  <2> HIDE DEF r, held, gone, come
  <2>4. /\ t \in SchedulerRec /\ t.uuid = r.uuid /\ t.offline = r.offline
        /\ t.assigned_workers = held
    <3>1. TellsOf(r, held, gone, come)
      BY ONLY <2>1, <2>2, SchedulerSent
    <3> QED BY <3>1 DEF TellsOf
  <2> HIDE DEF t, told
  <2> QED BY <2>3, <2>4 DEF r, held
<1> DEFINE total(s) == schedulers[s].assigned_workers \o L(s)
<1>8a. \A s \in DOMAIN schedulers :
         schedulers'[s].assigned_workers = total(s)
  <2> HIDE DEF told, L
  <2> QED BY <1>5, <1>8
<1>8b. \A s \in DOMAIN schedulers :
         /\ Range(total(s)) = Range(schedulers[s].assigned_workers) \cup Range(L(s))
         /\ Len(total(s)) = Len(schedulers[s].assigned_workers) + Len(L(s))
  <2> HIDE DEF L
  <2> QED BY <1>7
<1> HIDE DEF un, L, lent, told, total
<1>9. TypeOK'
  <2>1. \A s \in DOMAIN schedulers' : schedulers'[s] \in SchedulerRec
    BY <1>5, <1>8
  <2>2. \A w \in DOMAIN workers' : workers'[w] \in NodeRec
    <3> SUFFICES ASSUME NEW w \in DOMAIN workers PROVE workers'[w] \in NodeRec
      BY <1>5
    <3>1. CASE \E i \in 1 .. n : un[i] = w
      BY <1>5, <1>6, <3>1
    <3>2. CASE \A i \in 1 .. n : un[i] # w
      BY <1>5, <3>2, Tables
    <3> QED BY <3>1, <3>2
  <2>3. \A s \in DOMAIN demands' : demands'[s] \in DemandRec
    <3> SUFFICES ASSUME NEW s \in DOMAIN demands PROVE demands'[s] \in DemandRec
      BY <1>5
    <3>1. Len(L(s)) \in Nat /\ demands[s] \in DemandRec
      BY <1>4, Tables, LenProperties
    <3> QED BY SMTT(30), <1>5, <3>1 DEF DemandRec
  <2>4. un' = unassigned_workers'
    BY DEF un
  <2> QED BY <1>3, <1>5, <2>1, <2>2, <2>3, <2>4
          DEF IInv, TypeOK, SchedulerRec, NodeRec, DemandRec, sessions
<1>10. PoolKnown'
  <2> SUFFICES ASSUME NEW w \in DOMAIN workers
               PROVE  workers'[w].assigned \in DOMAIN schedulers \cup {Unassigned}
    BY <1>5 DEF IInv, PoolKnown
  <2>1. CASE \E i \in 1 .. n : un[i] = w
    BY <1>5, <1>6, <2>1
  <2>2. CASE \A i \in 1 .. n : un[i] # w
    BY <1>5, <2>2 DEF IInv, PoolKnown
  <2> QED BY <2>1, <2>2
<1>11. \A w \in DOMAIN workers : /\ workers'[w].uuid = workers[w].uuid
                                 /\ workers'[w].offline = workers[w].offline
  <2> SUFFICES ASSUME NEW w \in DOMAIN workers
               PROVE  /\ workers'[w].uuid = workers[w].uuid
                      /\ workers'[w].offline = workers[w].offline
    OBVIOUS
  <2>1. CASE \E i \in 1 .. n : un[i] = w
    BY <1>5, <1>6, <2>1
  <2>2. CASE \A i \in 1 .. n : un[i] # w
    BY <1>5, <2>2
  <2> QED BY <2>1, <2>2
<1>12. SessionsKept' /\ KeptOffline'
  <2>1. \A s \in DOMAIN schedulers : /\ schedulers'[s].uuid = schedulers[s].uuid
                                     /\ schedulers'[s].offline = schedulers[s].offline
    BY <1>5, <1>8
  <2>2. SessionsKept'
    BY <1>5, <1>11, <2>1 DEF IInv, SessionsKept, sessions
  <2>3. \A u \in DOMAIN disconnected :
           /\ u \in Nodes => disconnected[u].id \in DOMAIN workers
           /\ u \in Schedulers => disconnected[u].id \in DOMAIN schedulers
    BY NodeManagerAssumption DEF IInv, SessionsKept
  <2>4. KeptOffline'
    BY <1>5, <1>11, <2>1, <2>3 DEF IInv, KeptOffline, sessions
  <2> QED BY <2>2, <2>4
<1>13. OneConnection'
  BY <1>5, <1>8 DEF IInv, OneConnection, network
<1>14. DemandsExact'
  <2>1. Exact(demands, order, schedulers) /\ DOMAIN demands \subseteq DOMAIN schedulers
    BY Tables
  <2>2. ASSUME NEW s \in DOMAIN demands
        PROVE  /\ demands'[s].provided_workers = Len(schedulers'[s].assigned_workers)
               /\ demands'[s].required_workers # AnyNumber =>
                    Len(schedulers'[s].assigned_workers) <= demands'[s].required_workers
    <3>1. demands[s] \in DemandRec /\ demands[s].provided_workers = Len(schedulers[s].assigned_workers)
      BY <2>1, Tables DEF Exact
    <3>2. /\ demands'[s].provided_workers = demands[s].provided_workers + Len(L(s))
          /\ demands'[s].required_workers = demands[s].required_workers
      BY <1>5, <3>1 DEF DemandRec
    <3>3. Len(schedulers'[s].assigned_workers) = demands[s].provided_workers + Len(L(s))
      BY <1>8a, <1>8b, <2>1, <3>1
    <3>4. Len(L(s)) = Cardinality(Places(given, s))
      BY LentIs DEF L
    <3>5. Lendable(given)
      BY DEF Lending
    <3> QED BY <3>2, <3>3, <3>4, <3>5, NeverTooMany
  <2>3. ASSUME NEW s \in DOMAIN schedulers \ DOMAIN demands
        PROVE  schedulers'[s].assigned_workers = <<>>
    <3>1. L(s) = <<>>
      BY LentIs DEF L
    <3>2. schedulers[s].assigned_workers = <<>>
      BY <2>1 DEF Exact
    <3>3. <<>> \o <<>> = <<>>
      BY EmptySeq, ConcatEmptySeq
    <3> QED BY <1>5, <1>8, <3>1, <3>2, <3>3
  <2>4. Exact(demands', order, schedulers')
    BY <1>5, <2>1, <2>2, <2>3 DEF Exact
  <2> QED BY <2>4, ExactIs
<1>15. EachWorkerOnce'
  <2>1. Once(un, workers, schedulers)
    BY Tables DEF un
  <2>2. ASSUME NEW s \in DOMAIN schedulers, NEW w
        PROVE  w \in Range(schedulers'[s].assigned_workers)
                 <=> w \in DOMAIN workers /\ workers'[w].assigned = s
    <3>1. w \in Range(schedulers'[s].assigned_workers) <=>
            \/ w \in DOMAIN workers /\ workers[w].assigned = s
            \/ \E i \in 1 .. n : given[i] = s /\ un[i] = w
      <4>1. w \in Range(schedulers'[s].assigned_workers) <=>
              w \in Range(schedulers[s].assigned_workers) \/ w \in Range(L(s))
        BY <1>8a, <1>8b
      <4>2. w \in Range(schedulers[s].assigned_workers) <=>
              w \in DOMAIN workers /\ workers[w].assigned = s
        BY <2>1 DEF Once
      <4>3. w \in Range(L(s)) <=> \E i \in 1 .. n : given[i] = s /\ un[i] = w
        BY <1>4
      <4> QED BY <4>1, <4>2, <4>3
    <3>2. ASSUME NEW i \in 1 .. n, un[i] = w
          PROVE  /\ w \in DOMAIN workers /\ workers[w].assigned # s
                 /\ workers'[w].assigned = given[i]
      <4>1. un[i] \in Range(un)
        BY <1>2 DEF Range
      <4>2. s # Unassigned
        BY Tables
      <4> QED BY <1>5, <1>6, <2>1, <3>2, <4>1, <4>2 DEF Once
    <3>3. CASE \E i \in 1 .. n : un[i] = w
      <4>1. PICK i \in 1 .. n : un[i] = w
        BY <3>3
      <4>2. \A j \in 1 .. n : un[j] = w => j = i
        BY <1>1, <1>2, <4>1 DEF IsInjective
      <4> QED BY <3>1, <3>2, <4>1, <4>2
    <3>4. CASE \A i \in 1 .. n : un[i] # w
      BY <1>5, <3>1, <3>4
    <3> QED BY <3>3, <3>4
  <2>3. \A s \in DOMAIN schedulers : IsInjective(schedulers'[s].assigned_workers)
    BY ZenonT(40), <1>5, <1>7, <1>8
  <2>4. ASSUME NEW w
        PROVE  w \in Range(un') <=> w \in DOMAIN workers /\ workers'[w].assigned = Unassigned
    <3>1. CASE \E i \in 1 .. n : un[i] = w
      <4>1. PICK i \in 1 .. n : un[i] = w
        BY <3>1
      <4>2. workers'[w].assigned # Unassigned
        BY <1>5, <1>6, <4>1
      <4>3. \A j \in n + 1 .. Len(un) : j \in DOMAIN un /\ j # i
        BY <1>1, <1>2
      <4>4. \A j \in n + 1 .. Len(un) : un[j] # w
        BY <1>1, <1>2, <4>1, <4>3 DEF IsInjective
      <4> QED BY <1>3, <4>2, <4>4
    <3>2. CASE \A i \in 1 .. n : un[i] # w
      <4>1. w \in Range(un) <=> \E i \in 1 .. Len(un) : un[i] = w
        BY <1>1 DEF Range
      <4>2. \A i \in 1 .. Len(un) : i \in 1 .. n \/ i \in n + 1 .. Len(un)
        BY <1>1, <1>2
      <4>3. \A i \in n + 1 .. Len(un) : i \in 1 .. Len(un)
        BY <1>1, <1>2
      <4>4. w \in Range(un') <=> w \in Range(un)
        BY <1>3, <3>2, <4>1, <4>2, <4>3
      <4> QED BY <1>5, <2>1, <3>2, <4>4 DEF Once
    <3> QED BY <3>1, <3>2
  <2>5. Once(un', workers', schedulers')
    BY <1>3, <1>5, <2>2, <2>3, <2>4 DEF Once
  <2> QED BY <2>5, OnceIs DEF un
<1> QED BY <1>9, <1>10, <1>12, <1>13, <1>14, <1>15 DEF IInv

LEMMA process_queueInv ==
  ASSUME IInv, process_queue
  PROVE  IInv'
<1>1. PICK n \in 0 .. Len(unassigned_workers) : \E given \in [1 .. n -> DOMAIN demands] :
         Lending(n, given)
  BY DEF process_queue, Lending
<1>2. PICK given \in [1 .. n -> DOMAIN demands] : Lending(n, given)
  BY <1>1
<1>3. notified' = FALSE /\ UNCHANGED <<status, order, sessions, network>>
  BY DEF process_queue
<1> QED BY <1>2, <1>3, LendingInv

LEMMA NodeConnectionEndsInv ==
  ASSUME IInv, NEW id \in DOMAIN workers, NodeConnectionEnds(id)
  PROVE  IInv'
<1>1. /\ workers' = [workers EXCEPT ![id].ended = TRUE]
      /\ UNCHANGED <<status, schedulers, demands, order, unassigned_workers, expirations,
                     disconnected, notified, node_links, scheduler_links>>
  BY DEF NodeConnectionEnds, sessions, network
<1>2. /\ DOMAIN workers' = DOMAIN workers
      /\ workers'[id] = [workers[id] EXCEPT !.ended = TRUE]
      /\ \A w \in DOMAIN workers : w # id => workers'[w] = workers[w]
  BY <1>1
<1>3. \A w \in DOMAIN workers :
        /\ workers'[w] \in NodeRec /\ workers'[w].uuid = workers[w].uuid
        /\ workers'[w].offline = workers[w].offline
        /\ workers'[w].assigned = workers[w].assigned
  <2> DEFINE r == workers[id]
             e == [r EXCEPT !.ended = TRUE]
  <2>1. r \in NodeRec /\ workers'[id] = e
    BY <1>2, Tables
  <2> HIDE DEF r
  <2>2. e \in NodeRec /\ e.uuid = r.uuid /\ e.offline = r.offline /\ e.assigned = r.assigned
    BY ONLY <2>1, EndedIs
  <2> HIDE DEF e
  <2> QED BY <1>2, <2>1, <2>2, Tables DEF r
<1>4. TypeOK'
  BY <1>1, <1>2, <1>3 DEF IInv, TypeOK, NodeRec
<1>5. PoolKnown' /\ EachWorkerOnce' /\ DemandsExact'
  BY <1>1, <1>2, <1>3, SamePool
<1>6. SessionsKept'
  BY <1>1, <1>2, <1>3 DEF IInv, SessionsKept
<1>7. KeptOffline' /\ OneConnection'
  BY <1>1, <1>2, <1>3, NodeManagerAssumption DEF IInv, SessionsKept, KeptOffline, OneConnection
<1> QED BY <1>4, <1>5, <1>6, <1>7 DEF IInv

LEMMA SchedulerConnectionEndsInv ==
  ASSUME IInv, NEW id \in DOMAIN schedulers, SchedulerConnectionEnds(id)
  PROVE  IInv'
<1>1. /\ schedulers' = [schedulers EXCEPT ![id].ended = TRUE]
      /\ UNCHANGED <<status, workers, demands, order, unassigned_workers, expirations,
                     disconnected, notified, node_links, scheduler_links>>
  BY DEF SchedulerConnectionEnds, sessions, network
<1>2. /\ DOMAIN schedulers' = DOMAIN schedulers
      /\ schedulers'[id] = [schedulers[id] EXCEPT !.ended = TRUE]
      /\ \A s \in DOMAIN schedulers : s # id => schedulers'[s] = schedulers[s]
  BY <1>1
<1>3. \A s \in DOMAIN schedulers :
        /\ schedulers'[s] \in SchedulerRec /\ schedulers'[s].uuid = schedulers[s].uuid
        /\ schedulers'[s].offline = schedulers[s].offline
        /\ schedulers'[s].assigned_workers = schedulers[s].assigned_workers
  <2> DEFINE r == schedulers[id]
             e == [r EXCEPT !.ended = TRUE]
  <2>1. r \in SchedulerRec /\ schedulers'[id] = e
    BY <1>2, Tables
  <2> HIDE DEF r
  <2>2. /\ e \in SchedulerRec /\ e.uuid = r.uuid /\ e.offline = r.offline
        /\ e.assigned_workers = r.assigned_workers
    BY ONLY <2>1, EndedIs
  <2> HIDE DEF e
  <2> QED BY <1>2, <2>1, <2>2, Tables DEF r
<1>4. TypeOK'
  BY <1>1, <1>2, <1>3 DEF IInv, TypeOK, SchedulerRec
<1>5. PoolKnown' /\ EachWorkerOnce' /\ DemandsExact'
  BY <1>1, <1>2, <1>3, SamePool
<1>6. SessionsKept'
  BY <1>1, <1>2, <1>3 DEF IInv, SessionsKept
<1>7. KeptOffline' /\ OneConnection'
  BY <1>1, <1>2, <1>3, NodeManagerAssumption DEF IInv, SessionsKept, KeptOffline, OneConnection
<1> QED BY <1>4, <1>5, <1>6, <1>7 DEF IInv

LEMMA NextInv == IInv /\ [Next]_vars => IInv'
<1> SUFFICES ASSUME IInv, [Next]_vars PROVE IInv'
  OBVIOUS
<1>1. ASSUME NEW u \in Nodes, NEW p \in Platforms, NodeConnect(u, p) PROVE IInv'
  BY <1>1, NewNodeInv, restore_node_sessionInv DEF NodeConnect
<1>2. ASSUME NEW link \in node_links, NodeDisconnect(link) PROVE IInv'
  BY <1>2, NodeDisconnectInv
<1>3. ASSUME NEW link \in node_links, HeartbeatPanics(link) PROVE IInv'
  BY <1>3, PanicInv DEF HeartbeatPanics
<1>4. ASSUME NEW key \in DOMAIN expirations, process_expiration(key) PROVE IInv'
  BY <1>4, process_expirationInv
<1>5. ASSUME NEW u \in Schedulers, SchedulerConnect(u) PROVE IInv'
  BY <1>5, NewSchedulerInv, restore_scheduler_sessionInv DEF SchedulerConnect
<1>6. ASSUME NEW link \in scheduler_links, SchedulerDisconnect(link) PROVE IInv'
  BY <1>6, SchedulerDisconnectInv
<1>7. ASSUME NEW link \in scheduler_links, NEW required \in Required,
             NEW platforms \in Demanded, WorkersDemand(link, required, platforms)
      PROVE  IInv'
  BY <1>7, WorkersDemandInv, NodeManagerAssumption
<1>8. ASSUME NEW link \in scheduler_links, ReleaseDemand(link) PROVE IInv'
  BY <1>8, ReleaseDemandInv
<1>9. CASE process_queue
  BY <1>9, process_queueInv
<1>10. ASSUME NEW w \in DOMAIN workers, NodeConnectionEnds(w) PROVE IInv'
  BY <1>10, NodeConnectionEndsInv
<1>11. ASSUME NEW s \in DOMAIN schedulers, SchedulerConnectionEnds(s) PROVE IInv'
  BY <1>11, SchedulerConnectionEndsInv
<1>12. CASE UNCHANGED vars
  <2> USE DEF vars, pool, sessions, network
  <2>1. TypeOK'
    BY <1>12 DEF IInv, TypeOK
  <2>2. PoolKnown' /\ SessionsKept' /\ KeptOffline' /\ OneConnection'
    BY <1>12 DEF IInv, PoolKnown, SessionsKept, KeptOffline, OneConnection
  <2>3. EachWorkerOnce' /\ DemandsExact'
    BY <1>12 DEF IInv, EachWorkerOnce, DemandsExact
  <2> QED BY <2>1, <2>2, <2>3 DEF IInv
<1> QED BY <1>1, <1>2, <1>3, <1>4, <1>5, <1>6, <1>7, <1>8, <1>9, <1>10, <1>11, <1>12 DEF Next
-----------------------------------------------------------------------------
(* The inductive invariant holds of every behaviour of the event loop.     *)
THEOREM Inductive == Spec => []IInv
<1>1. Init => IInv
  BY InitInv
<1>2. IInv /\ [Next]_vars => IInv'
  BY NextInv
<1> QED BY <1>1, <1>2, PTL DEF Spec

(* The tables of the node manager keep their types; provided_workers does  *)
(* not underflow.                                                          *)
THEOREM TypeCorrect == Spec => []TypeOK
<1>1. IInv => TypeOK
  BY DEF IInv
<1> QED BY <1>1, Inductive, PTL

(* Each worker is lent to one scheduler or waits in line, and exactly the  *)
(* workers that exist are (process_queue, release_workers,                 *)
(* process_node_disconnection).                                            *)
THEOREM LentOnce == Spec => []EachWorkerOnce
<1>1. IInv => EachWorkerOnce
  BY DEF IInv
<1> QED BY <1>1, Inductive, PTL

(* A demand counts exactly the workers it was given and is given at most   *)
(* what it asks for (process_queue, WorkersDemand, ReleaseDemand).         *)
THEOREM DemandsCounted == Spec => []DemandsExact
<1>1. IInv => DemandsExact
  BY DEF IInv
<1> QED BY <1>1, Inductive, PTL

(* The session kept for a peer is its own, so that indexing the slab with  *)
(* its id in restore_node_session and restore_scheduler_session finds it.  *)
THEOREM SessionsOwn == Spec => []SessionsKept
<1>1. IInv => SessionsKept
  BY DEF IInv
<1> QED BY <1>1, Inductive, PTL
-----------------------------------------------------------------------------
(* What a node and what a scheduler has been told.                         *)
Informs(r) == r.assigned = IF r.offline THEN r.pending ELSE r.heard
Informed(r) == Range(r.assigned_workers) = IF r.offline THEN r.pending ELSE r.heard

LEMMA ToldInforms ==
  ASSUME NEW r \in NodeRec, NEW known \in SchedulerIds \cup {Unassigned}
  PROVE  LET t == NodeTold([r EXCEPT !.assigned = known], known)
         IN  Informs(t) \/ Unreachable(t)
<1> DEFINE t == NodeTold([r EXCEPT !.assigned = known], known)
<1>1. /\ t.offline = r.offline /\ t.ended = r.ended /\ t.assigned = known
      /\ r.offline => t.pending = known
      /\ ~r.offline /\ ~r.ended => t.heard = known
  BY NodeSent
<1> HIDE DEF t
<1>2. Informs(t) \/ Unreachable(t)
  BY <1>1 DEF Informs, Unreachable
<1> QED BY <1>2 DEF t

StaysInformed(r, held, gone, come) ==
    LET t == SchedulerTold([r EXCEPT !.assigned_workers = held], gone, come)
    IN  Informed(t) \/ Unreachable(t)

LEMMA ToldInformed ==
  ASSUME NEW r \in SchedulerRec, NEW gone \in SUBSET WorkerIds, NEW come \in SUBSET WorkerIds,
         NEW held \in Seq(WorkerIds), Informed(r),
         Range(held) = (Range(r.assigned_workers) \ gone) \cup come
  PROVE  StaysInformed(r, held, gone, come)
<1> DEFINE t == SchedulerTold([r EXCEPT !.assigned_workers = held], gone, come)
<1>1. /\ t.offline = r.offline /\ t.ended = r.ended /\ t.assigned_workers = held
      /\ r.offline => t.pending = (r.pending \ gone) \cup come
      /\ ~r.offline /\ ~r.ended => t.heard = (r.heard \ gone) \cup come
  <2>1. TellsOf(r, held, gone, come)
    BY SchedulerSent
  <2> QED BY <2>1 DEF TellsOf
<1> HIDE DEF t
<1>2. ASSUME r.offline PROVE Informed(t)
  BY <1>1, <1>2 DEF Informed
<1>3. ASSUME ~r.offline, ~r.ended PROVE Informed(t)
  BY <1>1, <1>3 DEF Informed
<1>4. ASSUME ~r.offline, r.ended PROVE Unreachable(t)
  BY <1>1, <1>4 DEF Unreachable
<1>5. Informed(t) \/ Unreachable(t)
  BY <1>2, <1>3, <1>4
<1> QED BY <1>5 DEF t, StaysInformed

(* How a node may miss messages: they are sent to a connection that has    *)
(* ended, or a second Disconnect empties the buffer.                       *)
Missed(w) ==
    \/ Unreachable(workers'[w])
    \/ /\ w \in DOMAIN workers /\ workers[w].offline /\ workers'[w].offline
       /\ node_links' # node_links

LEMMA NodesInformedStep ==
  ASSUME IInv, Next, NEW w \in DOMAIN workers',
         w \in DOMAIN workers => Informs(workers[w]), ~Informs(workers'[w])
  PROVE  Missed(w)
<1>1. ASSUME workers' = workers PROVE FALSE
  BY <1>1
<1>2. ASSUME Panic PROVE FALSE
  BY <1>1, <1>2 DEF Panic, pool
<1>3. ASSUME NEW u \in Nodes, NEW p \in Platforms, NEW c, NewNode(u, p, c) PROVE FALSE
  <2>1. PICK id \in WorkerIds \ DOMAIN workers, key \in Keys \ DOMAIN expirations :
          workers' = With(workers, id, NodeSession(u, p, key))
    BY <1>3 DEF NewNode
  <2>2. Informs(NodeSession(u, p, key))
    BY DEF NodeSession, Informs
  <2> QED BY <2>1, <2>2 DEF With
<1>4. ASSUME NEW u \in Nodes, NEW c, restore_node_session(u, c) PROVE Missed(w)
  <2> DEFINE id == disconnected[u].id
  <2>1. u \in DOMAIN disconnected
    BY <1>2, <1>4 DEF restore_node_session
  <2>2. PICK lost \in BOOLEAN : workers' = [workers EXCEPT ![id] = Restored(@, lost)]
    BY <1>2, <1>4 DEF restore_node_session
  <2>3. id \in DOMAIN workers /\ workers[id].offline
    BY <2>1, NodeManagerAssumption DEF IInv, SessionsKept, KeptOffline
  <2> DEFINE r == Restored(workers[id], lost)
  <2>4. /\ r.assigned = workers[id].assigned /\ ~r.offline
        /\ r.ended \/ r.heard = workers[id].pending
    BY <2>3, Tables, NodeLinked
  <2>5. workers' = [workers EXCEPT ![id] = r]
    BY <2>2
  <2> HIDE DEF id, r
  <2>6. w = id /\ workers'[id] = r
    BY <2>3, <2>5
  <2> QED BY <2>3, <2>4, <2>6 DEF Informs, Missed, Unreachable
<1>5. ASSUME NEW link \in node_links, NodeDisconnect(link) PROVE Missed(w)
  <2> DEFINE id == link.id
             r == Disconnected(workers[id])
  <2>1. node_links' # node_links
    BY <1>5 DEF NodeDisconnect
  <2>2. id \in DOMAIN workers /\ workers' = [workers EXCEPT ![id] = Disconnected(@)]
    BY <1>1, <1>5 DEF NodeDisconnect
  <2>3. r.assigned = workers[id].assigned /\ r.offline /\ r.pending = workers[id].heard
    BY <2>2, Tables, NodeLinked
  <2>4. workers' = [workers EXCEPT ![id] = r]
    BY <2>2
  <2> HIDE DEF id, r
  <2>5. w = id /\ workers'[id] = r
    BY <2>2, <2>4
  <2> QED BY <2>1, <2>2, <2>3, <2>5 DEF Informs, Missed
<1>6. ASSUME NEW key, process_expiration(key) PROVE FALSE
  <2>1. workers' = workers \/ \E id : workers' = Without(workers, id)
    BY <1>6 DEF process_expiration, process_node_disconnection, pool
  <2> QED BY <1>1, <2>1 DEF Without
<1>7. ASSUME NEW s \in DOMAIN schedulers, Forgets(s) PROVE Missed(w)
  <2>1. /\ DOMAIN workers' = DOMAIN workers
        /\ workers'[w] = IF workers[w].assigned = s THEN release_worker(w) ELSE workers[w]
    BY ZenonT(40), <1>7, Forgotten
  <2>2. Informs(release_worker(w)) \/ Unreachable(release_worker(w))
    BY <2>1, Tables, ToldInforms DEF release_worker
  <2> QED BY <2>1, <2>2 DEF Missed
<1>8. ASSUME NEW n \in 0 .. Len(unassigned_workers), NEW given \in [1 .. n -> DOMAIN demands],
             Lending(n, given)
      PROVE  Missed(w)
  <2>1. CASE \E i \in 1 .. n : unassigned_workers[i] = w
    <3>1. PICK i \in 1 .. n : unassigned_workers[i] = w
      BY <2>1
    <3>2. w \in DOMAIN workers
          /\ workers'[w] = NodeTold([workers[w] EXCEPT !.assigned = given[i]], given[i])
      BY <1>8, <3>1, LendingIs
    <3>3. given[i] \in SchedulerIds /\ workers[w] \in NodeRec
      BY <3>2, Tables
    <3> QED BY <3>2, <3>3, ToldInforms DEF Missed
  <2>2. CASE \A i \in 1 .. n : unassigned_workers[i] # w
    BY <1>8, <2>2, LendingIs
  <2> QED BY <2>1, <2>2
<1>9. ASSUME NEW u \in Nodes, NEW p \in Platforms, NodeConnect(u, p) PROVE Missed(w)
  BY <1>3, <1>4, <1>9 DEF NodeConnect
<1>10. ASSUME NEW link \in node_links, HeartbeatPanics(link) PROVE FALSE
  BY <1>2, <1>10 DEF HeartbeatPanics
<1>11. ASSUME NEW u \in Schedulers, SchedulerConnect(u) PROVE FALSE
  BY <1>1, <1>2, <1>11 DEF SchedulerConnect, NewScheduler, restore_scheduler_session
<1>12. ASSUME NEW link \in scheduler_links, SchedulerDisconnect(link) PROVE FALSE
  BY <1>1, <1>12 DEF SchedulerDisconnect
<1>13. ASSUME NEW link \in scheduler_links, NEW required, NEW platforms,
              WorkersDemand(link, required, platforms) \/ ReleaseDemand(link)
       PROVE  Missed(w)
  <2>1. link.id \in DOMAIN schedulers
    BY DEF IInv, OneConnection
  <2> QED BY <1>7, <1>13, <2>1 DEF WorkersDemand, ReleaseDemand, Forgets
<1>14. ASSUME process_queue PROVE Missed(w)
  BY <1>8, <1>14 DEF process_queue, Lending
<1>15. ASSUME NEW id \in DOMAIN workers, NodeConnectionEnds(id) PROVE Missed(w)
  <2>1. workers' = [workers EXCEPT ![id].ended = TRUE] /\ ~workers[id].offline
    BY <1>15 DEF NodeConnectionEnds
  <2> DEFINE r == [workers[id] EXCEPT !.ended = TRUE]
  <2>2. r.offline = workers[id].offline /\ r.ended
    BY Tables, EndedIs
  <2>3. workers' = [workers EXCEPT ![id] = r]
    BY <2>1
  <2> HIDE DEF r
  <2>4. w = id /\ workers'[id] = r
    BY <2>3
  <2> QED BY <2>1, <2>2, <2>4 DEF Missed, Unreachable
<1>16. ASSUME NEW id, SchedulerConnectionEnds(id) PROVE FALSE
  BY <1>1, <1>16 DEF SchedulerConnectionEnds
<1> QED BY <1>5, <1>6, <1>9, <1>10, <1>11, <1>12, <1>13, <1>14, <1>15, <1>16 DEF Next

(* A node has the right idea of its client, or will have it when it comes  *)
(* back, until its connection ends or a late second Disconnect empties its *)
(* buffer (Node::send, NodeEvent::Disconnect, restore_node_session).       *)
THEOREM NodesTold == Spec => NodesInformed
<1>1. IInv /\ [Next]_vars =>
        [\A w \in DOMAIN workers' :
            (w \in DOMAIN workers => NodeInformed(w)) /\ ~NodeInformed(w)' =>
               \/ Unreachable(workers'[w])
               \/ /\ w \in DOMAIN workers /\ workers[w].offline /\ workers'[w].offline
                  /\ node_links' # node_links]_vars
  <2> SUFFICES ASSUME IInv, Next, NEW w \in DOMAIN workers',
                      w \in DOMAIN workers => NodeInformed(w), ~NodeInformed(w)'
               PROVE  Missed(w)
    BY DEF Missed
  <2>1. (w \in DOMAIN workers => Informs(workers[w])) /\ ~Informs(workers'[w])
    BY DEF NodeInformed, Informs
  <2> QED BY <2>1, NodesInformedStep
<1> QED BY <1>1, Inductive, PTL DEF Spec, NodesInformed

LEMMA SchedulersInformedStep ==
  ASSUME IInv, Next, NEW s \in DOMAIN schedulers',
         s \in DOMAIN schedulers => Informed(schedulers[s]), ~Informed(schedulers'[s])
  PROVE  Unreachable(schedulers'[s])
<1>1. ASSUME schedulers' = schedulers PROVE FALSE
  BY <1>1
<1>2. ASSUME Panic PROVE FALSE
  BY <1>1, <1>2 DEF Panic, pool
<1>3. ASSUME NEW u \in Schedulers, NEW c, NewScheduler(u, c) PROVE FALSE
  <2> DEFINE new == [uuid |-> u, assigned_workers |-> <<>>, offline |-> FALSE,
                     ended |-> FALSE, heard |-> {}, pending |-> {}]
  <2>1. PICK id \in SchedulerIds \ DOMAIN schedulers : schedulers' = With(schedulers, id, new)
    BY <1>3 DEF NewScheduler
  <2>2. Informed(new)
    BY DEF Informed, Range
  <2> HIDE DEF new
  <2> QED BY <2>1, <2>2 DEF With
<1>4. ASSUME NEW u \in Schedulers, NEW c, restore_scheduler_session(u, c)
      PROVE  Unreachable(schedulers'[s])
  <2> DEFINE id == disconnected[u].id
  <2>1. u \in DOMAIN disconnected
    BY <1>2, <1>4 DEF restore_scheduler_session
  <2>2. PICK lost \in BOOLEAN : schedulers' = [schedulers EXCEPT ![id] = Restored(@, lost)]
    BY <1>2, <1>4 DEF restore_scheduler_session
  <2>3. id \in DOMAIN schedulers /\ schedulers[id].offline
    BY <2>1, NodeManagerAssumption DEF IInv, SessionsKept, KeptOffline
  <2> DEFINE r == Restored(schedulers[id], lost)
  <2>4. /\ r.assigned_workers = schedulers[id].assigned_workers /\ ~r.offline
        /\ r.ended \/ r.heard = schedulers[id].pending
    BY <2>3, Tables, SchedulerLinked
  <2>5. schedulers' = [schedulers EXCEPT ![id] = r]
    BY <2>2
  <2> HIDE DEF id, r
  <2>6. s = id /\ schedulers'[id] = r
    BY <2>3, <2>5
  <2> QED BY <2>3, <2>4, <2>6 DEF Informed, Unreachable
<1>5. ASSUME NEW link \in scheduler_links, SchedulerDisconnect(link) PROVE FALSE
  <2> DEFINE id == link.id
             r == Disconnected(schedulers[id])
  <2>1. id \in DOMAIN schedulers /\ ~schedulers[id].offline
    BY DEF IInv, OneConnection
  <2>2. schedulers' = [schedulers EXCEPT ![id] = Disconnected(@)]
    BY <1>5 DEF SchedulerDisconnect
  <2>3. /\ r.assigned_workers = schedulers[id].assigned_workers /\ r.offline
        /\ r.pending = schedulers[id].heard
    BY <2>1, Tables, SchedulerLinked
  <2>4. schedulers' = [schedulers EXCEPT ![id] = r]
    BY <2>2
  <2> HIDE DEF id, r
  <2>5. s = id /\ schedulers'[id] = r
    BY <2>1, <2>4
  <2> QED BY <2>1, <2>3, <2>5 DEF Informed
<1>6. ASSUME NEW id, process_node_disconnection(id) PROVE Unreachable(schedulers'[s])
  <2>1. CASE id \notin DOMAIN workers
    BY <1>1, <1>6, <2>1 DEF process_node_disconnection, pool
  <2>2. CASE id \in DOMAIN workers /\ workers[id].assigned = Unassigned
    BY <1>1, <1>6, <2>2, WaitingLost
  <2>3. CASE id \in DOMAIN workers /\ workers[id].assigned # Unassigned
    <3> DEFINE c == workers[id].assigned
               r == schedulers[c]
               held == r.assigned_workers
               left == Drop(held, id)
               gone == {id}
               come == {}
               t == SchedulerTold([r EXCEPT !.assigned_workers = left], gone, come)
    <3>1. c \in DOMAIN schedulers /\ schedulers' = [schedulers EXCEPT ![c] = t]
      BY <1>6, <2>3, LentLost
    <3>2. r \in SchedulerRec /\ held \in Seq(WorkerIds) /\ IsInjective(held)
      BY <3>1, Tables DEF Once, SchedulerRec
    <3>3. left \in Seq(WorkerIds) /\ Range(left) = (Range(held) \ gone) \cup come
      BY <3>2, DropIs
    <3>4. gone \in SUBSET WorkerIds /\ come \in SUBSET WorkerIds
      BY <2>3, Tables
    <3> HIDE DEF t, c
    <3>5. s = c /\ schedulers'[s] = t /\ Informed(r)
      BY <3>1 DEF r
    <3> HIDE DEF r, held, left, gone, come
    <3>6. Range(left) = (Range(r.assigned_workers) \ gone) \cup come
      BY <3>3 DEF held
    <3>7. StaysInformed(r, left, gone, come)
      BY ONLY <3>2, <3>3, <3>4, <3>5, <3>6, ToldInformed
    <3> QED BY <3>5, <3>7 DEF StaysInformed, t
  <2> QED BY <2>1, <2>2, <2>3
<1>7. ASSUME NEW key, process_expiration(key) PROVE Unreachable(schedulers'[s])
  BY <1>1, <1>6, <1>7 DEF process_expiration, pool
<1>8. ASSUME NEW c \in DOMAIN schedulers, Forgets(c) PROVE FALSE
  <2> DEFINE f == [schedulers[c] EXCEPT !.assigned_workers = <<>>, !.heard = {}, !.pending = {}]
  <2>1. /\ DOMAIN schedulers' = DOMAIN schedulers
        /\ \A r \in DOMAIN schedulers : r # c => schedulers'[r] = schedulers[r]
        /\ schedulers'[c] = f
    BY <1>8, Forgotten
  <2>2. f.assigned_workers = <<>> /\ f.heard = {} /\ f.pending = {}
    BY Tables, SchedulerForgets
  <2> HIDE DEF f
  <2>3. Informed(f)
    BY <2>2 DEF Informed, Range
  <2> QED BY <2>1, <2>3
<1>9. ASSUME NEW n \in 0 .. Len(unassigned_workers), NEW given \in [1 .. n -> DOMAIN demands],
             Lending(n, given)
      PROVE  Unreachable(schedulers'[s])
  <2> DEFINE r == schedulers[s]
             held == r.assigned_workers
             L == Lent(given, s)
             total == held \o L
             gone == {}
             come == Range(L)
             t == SchedulerTold([r EXCEPT !.assigned_workers = total], gone, come)
  <2>1. s \in DOMAIN schedulers /\ schedulers'[s] = t
    BY <1>9, LendingIs
  <2>2. r \in SchedulerRec /\ held \in Seq(WorkerIds) /\ Informed(r)
    BY <2>1, Tables DEF SchedulerRec
  <2>3. L \in Seq(WorkerIds)
    BY LentIs
  <2>4. come \in SUBSET WorkerIds /\ gone \in SUBSET WorkerIds
    BY <2>3, RangeOfSeq
  <2> HIDE DEF t, held, L
  <2>5. total \in Seq(WorkerIds) /\ Range(total) = Range(held) \cup Range(L)
    BY <2>2, <2>3, ConcatIs
  <2>6. Range(total) = (Range(r.assigned_workers) \ gone) \cup come
    BY <2>5 DEF held
  <2> HIDE DEF r, total, gone, come
  <2>7. StaysInformed(r, total, gone, come)
    BY ONLY <2>2, <2>4, <2>5, <2>6, ToldInformed
  <2> QED BY <2>1, <2>7 DEF StaysInformed, t
<1>10. ASSUME NEW u \in Schedulers, SchedulerConnect(u) PROVE Unreachable(schedulers'[s])
  BY <1>3, <1>4, <1>10 DEF SchedulerConnect
<1>11. ASSUME NEW u \in Nodes, NEW p \in Platforms, NodeConnect(u, p) PROVE FALSE
  BY <1>1, <1>2, <1>11 DEF NodeConnect, NewNode, restore_node_session
<1>12. ASSUME NEW link \in node_links, NodeDisconnect(link) \/ HeartbeatPanics(link) PROVE FALSE
  BY <1>1, <1>2, <1>12 DEF NodeDisconnect, HeartbeatPanics
<1>13. ASSUME NEW link \in scheduler_links, NEW required, NEW platforms,
              WorkersDemand(link, required, platforms) \/ ReleaseDemand(link)
       PROVE  FALSE
  <2>1. link.id \in DOMAIN schedulers
    BY DEF IInv, OneConnection
  <2> QED BY <1>8, <1>13, <2>1 DEF WorkersDemand, ReleaseDemand, Forgets
<1>14. ASSUME process_queue PROVE Unreachable(schedulers'[s])
  BY <1>9, <1>14 DEF process_queue, Lending
<1>15. ASSUME NEW id, NodeConnectionEnds(id) PROVE FALSE
  BY <1>1, <1>15 DEF NodeConnectionEnds
<1>16. ASSUME NEW id \in DOMAIN schedulers, SchedulerConnectionEnds(id)
       PROVE  Unreachable(schedulers'[s])
  <2>1. schedulers' = [schedulers EXCEPT ![id].ended = TRUE] /\ ~schedulers[id].offline
    BY <1>16 DEF SchedulerConnectionEnds
  <2> DEFINE r == [schedulers[id] EXCEPT !.ended = TRUE]
  <2>2. r.offline = schedulers[id].offline /\ r.ended
    BY Tables, EndedIs
  <2>3. schedulers' = [schedulers EXCEPT ![id] = r]
    BY <2>1
  <2> HIDE DEF r
  <2>4. s = id /\ schedulers'[id] = r
    BY <2>3
  <2> QED BY <2>1, <2>2, <2>4 DEF Unreachable
<1> QED BY <1>5, <1>7, <1>10, <1>11, <1>12, <1>13, <1>14, <1>15, <1>16 DEF Next

(* A scheduler knows the workers lent to it, or will know them when it     *)
(* comes back, until its connection ends before its Disconnect is read:    *)
(* no reset of the buffer, no return, release, expiry or reuse of an id    *)
(* leaves it uninformed (Scheduler::send, SchedulerEvent::Disconnect,      *)
(* restore_scheduler_session, process_queue).                              *)
THEOREM SchedulersTold == Spec => SchedulersInformed
<1>1. IInv /\ [Next]_vars =>
        [\A s \in DOMAIN schedulers' :
            (s \in DOMAIN schedulers => SchedulerInformed(s)) /\ ~SchedulerInformed(s)' =>
               Unreachable(schedulers'[s])]_vars
  <2> SUFFICES ASSUME IInv, Next, NEW s \in DOMAIN schedulers',
                      s \in DOMAIN schedulers => SchedulerInformed(s), ~SchedulerInformed(s)'
               PROVE  Unreachable(schedulers'[s])
    OBVIOUS
  <2>1. (s \in DOMAIN schedulers => Informed(schedulers[s])) /\ ~Informed(schedulers'[s])
    BY DEF SchedulerInformed, Informed
  <2> QED BY <2>1, SchedulersInformedStep
<1> QED BY <1>1, Inductive, PTL DEF Spec, SchedulersInformed
-----------------------------------------------------------------------------
(* Some demand accepts worker w.                                           *)
Serves(dem, wk, w) ==
    \E s \in DOMAIN dem :
        /\ dem[s].required_workers # dem[s].provided_workers
        /\ wk[w].platform \in dem[s].supported_platforms

LEMMA ServesIs ==
  ASSUME IInv
  PROVE  HeadServable <=> /\ Running /\ unassigned_workers # <<>>
                          /\ Serves(demands, workers, Head(unassigned_workers))
<1>1. \A s : {j \in 1 .. 0 : <<>>[j] = s} = {}
  OBVIOUS
<1>2. \A s \in DOMAIN demands : demands[s].provided_workers \in Nat
  BY Tables DEF DemandRec
<1>3. \A s \in DOMAIN demands : Provided(<<>>, 0)[s] = demands[s].provided_workers
  BY <1>1, <1>2, FS_EmptySet DEF Provided
<1> QED BY <1>3 DEF HeadServable, NobodyAccepts, Accepts, Serves

LEMMA ServesNext ==
  ASSUME IInv'
  PROVE  HeadServable' => /\ status' = "running" /\ unassigned_workers' # <<>>
                          /\ Serves(demands', workers', Head(unassigned_workers'))
<1>1. \A s : {j \in 1 .. 0 : <<>>[j] = s} = {}
  OBVIOUS
<1>2. \A s \in DOMAIN demands' : demands'[s].provided_workers \in Nat
  BY DEF IInv, TypeOK
<1>3. \A s \in DOMAIN demands' :
        demands'[s].provided_workers + Cardinality({j \in 1 .. 0 : <<>>[j] = s})
          = demands'[s].provided_workers
  BY <1>1, <1>2, FS_EmptySet
<1> QED BY <1>3 DEF HeadServable, NobodyAccepts, Accepts, Serves, Provided, Running

(* A step that leaves the line, the demands and the platforms alone.       *)
LEMMA StillAsleep ==
  ASSUME IInv, IInv', ~Overslept, UNCHANGED <<status, notified, demands, unassigned_workers>>,
         \A w \in DOMAIN workers : workers'[w].platform = workers[w].platform
  PROVE  ~Overslept'
<1>1. ASSUME unassigned_workers # <<>> PROVE Head(unassigned_workers) \in DOMAIN workers
  <2>1. unassigned_workers \in Seq(WorkerIds) /\ 1 \in DOMAIN unassigned_workers
    BY <1>1, Tables, EmptySeq, LenProperties
  <2>2. unassigned_workers[1] \in Range(unassigned_workers)
    BY <2>1 DEF Range
  <2> QED BY <2>1, <2>2, Tables DEF Once
<1> QED BY <1>1, ServesIs, ServesNext DEF Overslept, Running, Serves

LEMMA WakeupsKeptStep ==
  ASSUME IInv, IInv', Next, ~Overslept, Overslept'
  PROVE  Head(unassigned_workers) \notin DOMAIN workers'
<1>1. notified' # TRUE
  BY DEF Overslept
<1>2. ASSUME Panic PROVE FALSE
  BY <1>2, ServesNext DEF Panic, Overslept
<1>3. ASSUME NEW u \in Nodes, NEW p \in Platforms, NEW c, NewNode(u, p, c) PROVE FALSE
  BY <1>1, <1>3 DEF NewNode
<1>4. ASSUME NEW u \in Nodes, NEW c, restore_node_session(u, c) PROVE FALSE
  <2> DEFINE id == disconnected[u].id
  <2>1. /\ u \in DOMAIN disconnected
        /\ UNCHANGED <<status, notified, demands, unassigned_workers>>
    BY <1>2, <1>4 DEF restore_node_session
  <2>2. PICK lost \in BOOLEAN : workers' = [workers EXCEPT ![id] = Restored(@, lost)]
    BY <1>2, <1>4 DEF restore_node_session
  <2>3. id \in DOMAIN workers
    BY <2>1, NodeManagerAssumption DEF IInv, SessionsKept
  <2>4. Restored(workers[id], lost).platform = workers[id].platform
    BY <2>3, Tables, NodeLinked
  <2> HIDE DEF id
  <2>5. \A w \in DOMAIN workers : workers'[w].platform = workers[w].platform
    BY <2>2, <2>3, <2>4
  <2> QED BY <2>1, <2>5, StillAsleep
<1>5. ASSUME NEW link \in node_links, NodeDisconnect(link) PROVE FALSE
  <2> DEFINE id == link.id
  <2>1. UNCHANGED <<status, notified, demands, unassigned_workers>>
    BY <1>5 DEF NodeDisconnect
  <2>2. CASE id \in DOMAIN workers
    <3>1. workers' = [workers EXCEPT ![id] = Disconnected(@)]
      BY <1>5, <2>2 DEF NodeDisconnect
    <3>2. Disconnected(workers[id]).platform = workers[id].platform
      BY <2>2, Tables, NodeLinked
    <3> HIDE DEF id
    <3>3. \A w \in DOMAIN workers : workers'[w].platform = workers[w].platform
      BY <2>2, <3>1, <3>2
    <3> QED BY <2>1, <3>3, StillAsleep
  <2>3. CASE id \notin DOMAIN workers
    <3>1. workers' = workers
      BY <1>5, <2>3 DEF NodeDisconnect
    <3> QED BY <2>1, <3>1, StillAsleep
  <2> QED BY <2>2, <2>3
<1>6. ASSUME NEW id, process_node_disconnection(id), UNCHANGED <<status, network>>
      PROVE  Head(unassigned_workers) \notin DOMAIN workers'
  <2>1. CASE id \notin DOMAIN workers
    <3>1. UNCHANGED <<status, notified, demands, unassigned_workers, workers>>
      BY <1>6, <2>1 DEF process_node_disconnection, pool
    <3> QED BY <3>1, StillAsleep
  <2>2. CASE id \in DOMAIN workers /\ workers[id].assigned # Unassigned
    BY <1>1, <1>6, <2>2, LentLost
  <2>3. CASE id \in DOMAIN workers /\ workers[id].assigned = Unassigned
    <3>1. /\ workers' = Without(workers, id)
          /\ unassigned_workers' = Drop(unassigned_workers, id)
          /\ UNCHANGED <<status, demands, notified>>
      BY <1>6, <2>3, WaitingLost
    <3>2. /\ unassigned_workers \in Seq(WorkerIds)
          /\ IsInjective(unassigned_workers)
          /\ unassigned_workers' \in Seq(WorkerIds)
          /\ unassigned_workers # <<>> /\ unassigned_workers[1] # id =>
               unassigned_workers' # <<>> /\ unassigned_workers'[1] = unassigned_workers[1]
      BY <3>1, Tables, DropIs DEF Once
    <3>3. unassigned_workers # <<>>
      <4>1. unassigned_workers' # <<>>
        BY ServesNext DEF Overslept
      <4>2. Range(<<>>) = {}
        BY DEF Range
      <4> QED BY <3>1, <4>1, <4>2 DEF Drop
    <3>4. CASE unassigned_workers[1] = id
      BY <3>1, <3>2, <3>3, <3>4 DEF Without
    <3>5. CASE unassigned_workers[1] # id
      <4>1. Head(unassigned_workers') = Head(unassigned_workers) /\ Head(unassigned_workers) # id
        BY <3>2, <3>3, <3>5
      <4>2. Head(unassigned_workers) \in DOMAIN workers
        <5>1. unassigned_workers[1] \in Range(unassigned_workers)
          BY <3>2, <3>3, EmptySeq, LenProperties DEF Range
        <5> QED BY <3>2, <3>3, <5>1, Tables DEF Once
      <4>3. workers'[Head(unassigned_workers)] = workers[Head(unassigned_workers)]
        BY <3>1, <4>1, <4>2 DEF Without
      <4>4. Serves(demands, workers, Head(unassigned_workers)) /\ status = "running"
        BY <3>1, <4>1, <4>3, ServesNext DEF Overslept, Serves
      <4> QED BY <3>1, <3>3, <4>4, ServesIs DEF Overslept, Running
    <3> QED BY <3>4, <3>5
  <2> QED BY <2>1, <2>2, <2>3
<1>7. ASSUME NEW key, process_expiration(key)
      PROVE  Head(unassigned_workers) \notin DOMAIN workers'
  <2>1. CASE UNCHANGED <<pool, disconnected, notified>>
    <3>1. UNCHANGED <<status, notified, demands, unassigned_workers, workers>>
      BY <1>7, <2>1 DEF process_expiration, pool
    <3> QED BY <3>1, StillAsleep
  <2>2. CASE process_node_disconnection(expirations[key].id)
    BY <1>6, <1>7, <2>2 DEF process_expiration
  <2> QED BY <1>7, <2>1, <2>2 DEF process_expiration
<1>8. ASSUME NEW n \in 0 .. Len(unassigned_workers), NEW given \in [1 .. n -> DOMAIN demands],
             Lending(n, given)
      PROVE  FALSE
  <2> DEFINE un == unassigned_workers
  <2>1. un \in Seq(WorkerIds) /\ IsInjective(un) /\ Len(un) \in Nat /\ DOMAIN un = 1 .. Len(un)
    BY Tables, LenProperties DEF Once
  <2>2. /\ un' \in Seq(WorkerIds) /\ Len(un') = Len(un) - n
        /\ \A i \in 1 .. Len(un) - n : un'[i] = un[n + i]
    BY <1>8, <2>1, SuffixIs DEF Lending
  <2>3. un' # <<>>
    BY ServesNext DEF Overslept
  <2>4. n \in Nat /\ n < Len(un) /\ n + 1 \in DOMAIN un
    BY <2>1, <2>2, <2>3, EmptySeq
  <2>5. Head(un') = un[n + 1]
    BY <2>1, <2>2, <2>3, <2>4
  <2>6. Len(given) = n /\ NobodyAccepts(Provided(given, n), un[n + 1])
    BY <1>8, <2>4, LentIs DEF Lending, Lendable
  <2>7. un[n + 1] \in DOMAIN workers /\ workers'[un[n + 1]] = workers[un[n + 1]]
    <3>1. un[n + 1] \in Range(un)
      BY <2>4 DEF Range
    <3>2. \A i \in 1 .. n : i \in DOMAIN un /\ i # n + 1
      BY <2>1, <2>4
    <3>3. \A i \in 1 .. n : un[i] # un[n + 1]
      BY <2>1, <2>4, <3>2 DEF IsInjective
    <3>4. un[n + 1] \in DOMAIN workers
      BY <3>1, Tables DEF Once
    <3> QED BY <1>8, <3>3, <3>4, LendingIs
  <2>8. PICK s \in DOMAIN demands' :
          /\ demands'[s].required_workers # demands'[s].provided_workers
          /\ workers'[un[n + 1]].platform \in demands'[s].supported_platforms
    BY <2>5, ServesNext DEF Overslept, Serves
  <2>9. /\ s \in DOMAIN demands /\ demands[s] \in DemandRec
        /\ demands'[s] = [demands[s] EXCEPT !.provided_workers =
                             demands[s].provided_workers + Len(Lent(given, s))]
    BY <1>8, LendingIs, Tables
  <2>10. demands'[s].provided_workers = Provided(given, n)[s]
    <3>1. Places(given, s) \in SUBSET (1 .. n) /\ Len(Lent(given, s)) = Cardinality(Places(given, s))
      BY LentIs
    <3>2. Cardinality(UpTo(Places(given, s), n)) = Cardinality(Places(given, s))
      BY <2>4, <3>1, UpToEnds
    <3>3. n \in 0 .. n
      BY <2>4
    <3>4. Provided(given, n)[s] =
            demands[s].provided_workers + Cardinality(UpTo(Places(given, s), n))
      BY <2>9, <3>3, ProvidedIs
    <3> QED BY <2>9, <3>1, <3>2, <3>4 DEF DemandRec
  <2>11. /\ demands'[s].required_workers = demands[s].required_workers
         /\ demands'[s].supported_platforms = demands[s].supported_platforms
    BY <2>9 DEF DemandRec
  <2> QED BY <2>6, <2>7, <2>8, <2>9, <2>10, <2>11 DEF NobodyAccepts, Accepts
<1>9. ASSUME NEW u \in Nodes, NEW p \in Platforms, NodeConnect(u, p) PROVE FALSE
  BY <1>3, <1>4, <1>9 DEF NodeConnect
<1>10. ASSUME NEW link \in node_links, HeartbeatPanics(link) PROVE FALSE
  BY <1>2, <1>10 DEF HeartbeatPanics
<1>11. ASSUME UNCHANGED <<status, notified, demands, unassigned_workers, workers>> PROVE FALSE
  BY <1>11, StillAsleep
<1>12. ASSUME NEW u \in Schedulers, SchedulerConnect(u) PROVE FALSE
  BY <1>2, <1>11, <1>12 DEF SchedulerConnect, NewScheduler, restore_scheduler_session
<1>13. ASSUME NEW link \in scheduler_links, SchedulerDisconnect(link) PROVE FALSE
  BY <1>11, <1>13 DEF SchedulerDisconnect
<1>14. ASSUME NEW link \in scheduler_links, NEW required, NEW platforms,
              WorkersDemand(link, required, platforms) \/ ReleaseDemand(link)
       PROVE  FALSE
  BY <1>1, <1>14 DEF WorkersDemand, ReleaseDemand, DemandNoticed
<1>15. ASSUME process_queue PROVE FALSE
  BY <1>8, <1>15 DEF process_queue, Lending
<1>16. ASSUME NEW id \in DOMAIN workers, NodeConnectionEnds(id) PROVE FALSE
  <2>1. /\ workers' = [workers EXCEPT ![id].ended = TRUE]
        /\ UNCHANGED <<status, notified, demands, unassigned_workers>>
    BY <1>16 DEF NodeConnectionEnds
  <2> DEFINE r == [workers[id] EXCEPT !.ended = TRUE]
  <2>2. r.platform = workers[id].platform
    BY Tables, EndedIs
  <2>3. workers' = [workers EXCEPT ![id] = r]
    BY <2>1
  <2> HIDE DEF r
  <2>4. \A w \in DOMAIN workers : workers'[w].platform = workers[w].platform
    BY <2>2, <2>3
  <2> QED BY <2>1, <2>4, StillAsleep
<1>17. ASSUME NEW id, SchedulerConnectionEnds(id) PROVE FALSE
  BY <1>11, <1>17 DEF SchedulerConnectionEnds
<1> QED BY <1>5, <1>7, <1>9, <1>10, <1>12, <1>13, <1>14, <1>15, <1>16, <1>17 DEF Next

(* No wake-up of process_queue is lost, but for the one the expiry of the  *)
(* first waiting worker would owe (need_process_queue.notify_one).         *)
THEOREM WakeupsNotLost == Spec => WakeupsKept
<1>1. IInv /\ IInv' /\ [Next]_vars =>
        [~Overslept /\ Overslept' => Head(unassigned_workers) \notin DOMAIN workers']_vars
  BY WakeupsKeptStep
<1> QED BY <1>1, Inductive, PTL DEF Spec, WakeupsKept
=============================================================================
