-------------------------------- MODULE Basics --------------------------------
(***************************************************************************)
(* What the proofs share: induction and recursion on numbers, and the      *)
(* maps and lists of module Collections.                                   *)
(***************************************************************************)
EXTENDS Collections, FiniteSetTheorems, SequenceTheorems, WellFoundedInduction, TLAPS

-----------------------------------------------------------------------------
(* Induction on numbers without an operator as a parameter: a set of       *)
(* numbers that is not empty has a least one.                              *)

LEMMA StrictlyInside ==
  ASSUME NEW A \in SUBSET Nat, NEW B \in SUBSET Nat, A \subseteq B, A # B
  PROVE  <<A, B>> \in StrictSubsetOrdering(Nat)
BY DEF StrictSubsetOrdering

(* The intervals 0 .. m of the members m are finite sets, among which one  *)
(* has no other inside it.                                                 *)
LEMMA LeastNatural ==
  ASSUME NEW T, T \subseteq Nat, T # {}
  PROVE  \E m \in T : \A x \in T : m <= x
<1> DEFINE F == {0 .. m : m \in T}
           R == StrictSubsetOrdering(Nat)
<1>1. F \subseteq FiniteSubsetsOf(Nat)
  <2> SUFFICES ASSUME NEW m \in T PROVE IsFiniteSet(0 .. m) /\ 0 .. m \subseteq Nat
    BY DEF FiniteSubsetsOf
  <2> QED BY FS_Interval
<1>2. IsWellFoundedOn(R, FiniteSubsetsOf(Nat))
  BY FS_StrictSubsetOrderingWellFounded
<1>3. F # {}
  OBVIOUS
<1>4. \E X \in F : \A Y \in F : ~(<<Y, X>> \in R)
  <2> HIDE DEF F, R
  <2> QED BY <1>1, <1>2, <1>3, WFMin
<1>5. PICK m \in T : \A x \in T : ~(<<0 .. x, 0 .. m>> \in R)
  BY <1>4
<1>6. ASSUME NEW x \in T, ~(m <= x) PROVE FALSE
  <2>1. m \in 0 .. m /\ m \notin 0 .. x /\ 0 .. x \subseteq 0 .. m
    BY <1>6
  <2>2. 0 .. x # 0 .. m /\ 0 .. x \in SUBSET Nat /\ 0 .. m \in SUBSET Nat
    BY <2>1
  <2> QED BY <2>1, <2>2, <1>5, StrictlyInside
<1> QED BY <1>6

(* Induction: what has 0 and the successor of each member has all numbers. *)
LEMMA EveryNatural ==
  ASSUME NEW T, 0 \in T, \A n \in Nat : n \in T => n + 1 \in T
  PROVE  \A n \in Nat : n \in T
<1> SUFFICES ASSUME Nat \ T # {} PROVE FALSE
  OBVIOUS
<1>1. PICK m \in Nat \ T : \A x \in Nat \ T : m <= x
  <2> DEFINE R == Nat \ T
  <2>1. R \subseteq Nat /\ R # {}
    OBVIOUS
  <2>2. \E m \in R : \A x \in R : m <= x
    <3> HIDE DEF R
    <3> QED BY <2>1, LeastNatural
  <2> QED BY <2>2
<1>2. m # 0 /\ m - 1 \in Nat
  OBVIOUS
<1>3. m - 1 \in T
  BY <1>1, <1>2
<1> QED BY <1>2, <1>3

-----------------------------------------------------------------------------
(* Definition by recursion: the function that starts with base and goes    *)
(* from each value to the next by step.  Part is what it is up to m.       *)
Follows(g, base, step, m) ==
    g[0] = base /\ \A k \in 1 .. m : g[k] = step[k][g[k - 1]]

LEMMA PartExists ==
  ASSUME NEW S, NEW base \in S, NEW step \in [Nat -> [S -> S]]
  PROVE  \A m \in Nat : \E g \in [0 .. m -> S] : Follows(g, base, step, m)
<1> DEFINE T == {m \in Nat : \E g \in [0 .. m -> S] : Follows(g, base, step, m)}
<1>1. 0 \in T
  <2> DEFINE g == [k \in 0 .. 0 |-> base]
  <2>1. g \in [0 .. 0 -> S] /\ Follows(g, base, step, 0)
    BY DEF Follows
  <2> QED BY <2>1
<1>2. ASSUME NEW m \in Nat, m \in T PROVE m + 1 \in T
  <2>1. PICK f \in [0 .. m -> S] : Follows(f, base, step, m)
    BY <1>2
  <2> DEFINE g == [k \in 0 .. m + 1 |-> IF k = m + 1 THEN step[m + 1][f[m]] ELSE f[k]]
  <2>2. step[m + 1][f[m]] \in S
    OBVIOUS
  <2>3. g \in [0 .. m + 1 -> S]
    BY <2>2
  <2>4. g[0] = base
    BY <2>1 DEF Follows
  <2>5. ASSUME NEW k \in 1 .. m + 1 PROVE g[k] = step[k][g[k - 1]]
    <3>1. CASE k = m + 1
      BY <3>1
    <3>2. CASE k # m + 1
      BY <3>2, <2>1 DEF Follows
    <3> QED BY <3>1, <3>2
  <2>6. Follows(g, base, step, m + 1)
    BY <2>4, <2>5 DEF Follows
  <2>7. \E h \in [0 .. m + 1 -> S] : Follows(h, base, step, m + 1)
    <3> HIDE DEF g
    <3> QED BY <2>3, <2>6
  <2> QED BY <2>7
<1>3. \A m \in Nat : m \in T
  <2> HIDE DEF T
  <2> QED BY <1>1, <1>2, EveryNatural
<1> QED BY <1>3 DEF T

LEMMA Recursion ==
  ASSUME NEW S, NEW base \in S, NEW step \in [Nat -> [S -> S]]
  PROVE  \E g \in [Nat -> S] : \A m \in Nat : Follows(g, base, step, m)
<1> DEFINE P(m) == CHOOSE f \in [0 .. m -> S] : Follows(f, base, step, m)
           g == [k \in Nat |-> P(k)[k]]
<1>1. ASSUME NEW m \in Nat PROVE P(m) \in [0 .. m -> S] /\ Follows(P(m), base, step, m)
  BY PartExists
<1> HIDE DEF P
<1>2. g \in [Nat -> S]
  BY <1>1
<1>3. g[0] = base
  BY <1>1 DEF Follows
<1>4. ASSUME NEW k \in Nat, k # 0 PROVE g[k] = step[k][g[k - 1]]
  <2>1. k - 1 \in Nat /\ k - 1 <= k /\ k \in 1 .. k
    BY <1>4
  <2>2. P(k - 1)[k - 1] = P(k)[k - 1]
    <3> DEFINE l == k - 1
               f == P(l)
               h == P(k)
    <3>1. f \in [0 .. l -> S] /\ Follows(f, base, step, l)
      BY <2>1, <1>1
    <3>2. h \in [0 .. k -> S] /\ Follows(h, base, step, k)
      BY <1>1
    <3>3. l \in Nat /\ l <= k
      BY <2>1
    <3> HIDE DEF l, f, h
    <3>4. f[l] = h[l]
      <4> DEFINE T == {j \in Nat : j <= l => f[j] = h[j]}
      <4>1. 0 \in T
        BY <3>1, <3>2 DEF Follows
      <4>2. ASSUME NEW j \in Nat, j \in T PROVE j + 1 \in T
        <5> SUFFICES ASSUME j + 1 <= l PROVE f[j + 1] = h[j + 1]
          OBVIOUS
        <5>1. j + 1 \in 1 .. l /\ j + 1 \in 1 .. k /\ (j + 1) - 1 = j
          BY <3>3
        <5>2. f[j + 1] = step[j + 1][f[j]] /\ h[j + 1] = step[j + 1][h[j]]
          BY <3>1, <3>2, <5>1 DEF Follows
        <5>3. f[j] = h[j]
          BY <4>2, <5>1, <3>3
        <5> QED BY <5>2, <5>3
      <4>3. \A j \in Nat : j \in T
        <5> HIDE DEF T
        <5> QED BY <4>1, <4>2, EveryNatural
      <4> QED BY <4>3, <3>3
    <3> QED BY <3>4 DEF l, f, h
  <2>3. P(k)[k] = step[k][P(k)[k - 1]]
    BY <2>1, <1>1 DEF Follows
  <2> QED BY <2>1, <2>2, <2>3
<1>5. ASSUME NEW m \in Nat PROVE Follows(g, base, step, m)
  <2>1. ASSUME NEW k \in 1 .. m PROVE g[k] = step[k][g[k - 1]]
    BY <1>4
  <2> HIDE DEF g
  <2> QED BY <1>3, <2>1 DEF Follows
<1> HIDE DEF g
<1> QED BY <1>2, <1>5
-----------------------------------------------------------------------------
(* Maps and lists. *)
LEMMA WithIs ==
  ASSUME NEW f, NEW x, NEW v
  PROVE  /\ DOMAIN With(f, x, v) = DOMAIN f \cup {x}
         /\ With(f, x, v)[x] = v
         /\ \A y \in DOMAIN f \ {x} : With(f, x, v)[y] = f[y]
BY DEF With

LEMMA WithoutIs ==
  ASSUME NEW f, NEW x
  PROVE  /\ DOMAIN Without(f, x) = DOMAIN f \ {x}
         /\ \A y \in DOMAIN f \ {x} : Without(f, x)[y] = f[y]
BY DEF Without

LEMMA RemoveAtIs ==
  ASSUME NEW S, NEW s \in Seq(S), NEW i \in 1 .. Len(s)
  PROVE  /\ RemoveAt(s, i) \in Seq(S)
         /\ Len(RemoveAt(s, i)) = Len(s) - 1
         /\ \A k \in 1 .. Len(s) - 1 : RemoveAt(s, i)[k] = IF k < i THEN s[k] ELSE s[k + 1]
<1> DEFINE a == SubSeq(s, 1, i - 1)
           b == SubSeq(s, i + 1, Len(s))
           d == RemoveAt(s, i)
<1>1. Len(s) \in Nat /\ i \in Int /\ \A k \in 1 .. Len(s) : s[k] \in S
  BY LenProperties, ElementOfSeq
<1>2. /\ a \in Seq(S) /\ Len(a) = i - 1
      /\ \A k \in 1 .. i - 1 : a[k] = s[k]
  <2>1. \A k \in 1 .. i - 1 : s[k] \in S
    BY <1>1
  <2> QED BY <1>1, <2>1, SubSeqProperties
<1>3. /\ b \in Seq(S) /\ Len(b) = Len(s) - i
      /\ \A k \in 1 .. Len(s) - i : b[k] = s[k + i]
  <2>1. \A k \in i + 1 .. Len(s) : s[k] \in S
    BY <1>1
  <2> QED BY <1>1, <2>1, SubSeqProperties
<1>4. d = a \o b
  BY DEF RemoveAt
<1> HIDE DEF a, b, d
<1>5. /\ d \in Seq(S) /\ Len(d) = Len(s) - 1
      /\ \A k \in 1 .. Len(s) - 1 :
            d[k] = IF k <= i - 1 THEN a[k] ELSE b[k - (i - 1)]
  <2>1. /\ d \in Seq(S) /\ Len(d) = Len(a) + Len(b)
        /\ \A k \in 1 .. Len(a) + Len(b) :
              d[k] = IF k <= Len(a) THEN a[k] ELSE b[k - Len(a)]
    BY <1>2, <1>3, <1>4, ConcatProperties
  <2>2. Len(a) + Len(b) = Len(s) - 1
    BY <1>1, <1>2, <1>3
  <2> QED BY <1>2, <2>1, <2>2
<1>6. ASSUME NEW k \in 1 .. Len(s) - 1 PROVE d[k] = IF k < i THEN s[k] ELSE s[k + 1]
  <2>1. CASE k < i
    <3>1. k \in 1 .. i - 1 /\ k <= i - 1
      BY <1>1, <2>1
    <3>2. d[k] = a[k]
      BY <1>5, <3>1
    <3> QED BY <1>2, <2>1, <3>1, <3>2
  <2>2. CASE ~(k < i)
    <3>1. k - (i - 1) \in 1 .. Len(s) - i /\ (k - (i - 1)) + i = k + 1
      BY <1>1, <2>2
    <3>2. d[k] = b[k - (i - 1)]
      BY <1>1, <1>5, <2>2
    <3> QED BY <1>3, <2>2, <3>1, <3>2
  <2> QED BY <2>1, <2>2
<1> QED BY <1>5, <1>6 DEF d

LEMMA DropOne ==
  ASSUME NEW S, NEW s \in Seq(S), NEW x
  PROVE  /\ Drop(s, x) \in Seq(S)
         /\ Range(Drop(s, x)) \subseteq Range(s) /\ Range(s) \ {x} \subseteq Range(Drop(s, x))
         /\ Len(Drop(s, x)) = IF x \in Range(s) THEN Len(s) - 1 ELSE Len(s)
<1>1. CASE x \notin Range(s)
  BY <1>1 DEF Drop
<1>2. CASE x \in Range(s)
  <2> DEFINE i == CHOOSE j \in DOMAIN s : s[j] = x
             d == RemoveAt(s, i)
  <2>1. i \in 1 .. Len(s) /\ s[i] = x /\ DOMAIN s = 1 .. Len(s) /\ Len(s) \in Nat
    BY <1>2, LenProperties DEF Range
  <2>2. Drop(s, x) = d
    BY <1>2 DEF Drop
  <2> HIDE DEF i
  <2>3. /\ d \in Seq(S)
        /\ Len(d) = Len(s) - 1
        /\ \A k \in 1 .. Len(s) - 1 : d[k] = IF k < i THEN s[k] ELSE s[k + 1]
    BY <2>1, RemoveAtIs
  <2> HIDE DEF d
  <2>4. DOMAIN d = 1 .. Len(s) - 1
    BY <2>3, LenProperties
  <2>5. ASSUME NEW k \in 1 .. Len(s) - 1 PROVE d[k] \in Range(s)
    <3>1. k \in 1 .. Len(s) /\ k + 1 \in 1 .. Len(s)
      BY <2>1
    <3> QED BY <2>1, <2>3, <3>1 DEF Range
  <2>6. ASSUME NEW k \in 1 .. Len(s), s[k] # x PROVE s[k] \in Range(d)
    <3>1. k # i
      BY <2>1, <2>6
    <3>2. CASE k < i
      BY <2>1, <2>3, <2>4, <3>2 DEF Range
    <3>3. CASE k > i
      <4>1. k - 1 \in 1 .. Len(s) - 1 /\ ~(k - 1 < i) /\ (k - 1) + 1 = k
        BY <2>1, <3>3
      <4> QED BY <2>3, <2>4, <4>1 DEF Range
    <3> QED BY <2>1, <3>1, <3>2, <3>3
  <2>7. Range(d) \subseteq Range(s)
    BY <2>4, <2>5 DEF Range
  <2>8. ASSUME NEW y \in Range(s), y # x PROVE y \in Range(d)
    <3>1. PICK k \in 1 .. Len(s) : y = s[k]
      BY <2>1 DEF Range
    <3> QED BY <2>6, <2>8, <3>1
  <2> QED BY <1>2, <2>2, <2>3, <2>7, <2>8
<1> QED BY <1>1, <1>2

LEMMA DropIs ==
  ASSUME NEW S, NEW s \in Seq(S), NEW x, IsInjective(s)
  PROVE  /\ Drop(s, x) \in Seq(S)
         /\ IsInjective(Drop(s, x))
         /\ Range(Drop(s, x)) = Range(s) \ {x}
         /\ Len(Drop(s, x)) = IF x \in Range(s) THEN Len(s) - 1 ELSE Len(s)
         /\ s # <<>> /\ s[1] # x => Drop(s, x) # <<>> /\ Drop(s, x)[1] = s[1]
<1>1. CASE x \notin Range(s)
  BY <1>1 DEF Drop, Range
<1>2. CASE x \in Range(s)
  <2> DEFINE i == CHOOSE j \in DOMAIN s : s[j] = x
             d == RemoveAt(s, i)
  <2>1. i \in 1 .. Len(s) /\ s[i] = x
    BY <1>2 DEF Range
  <2>2. Drop(s, x) = d
    BY <1>2 DEF Drop
  <2> HIDE DEF i
  <2>3. /\ d \in Seq(S)
        /\ Len(d) = Len(s) - 1
        /\ \A k \in 1 .. Len(s) - 1 : d[k] = IF k < i THEN s[k] ELSE s[k + 1]
    BY <2>1, RemoveAtIs
  <2> HIDE DEF d
  <2>4. IsInjective(d)
    <3> SUFFICES ASSUME NEW k \in 1 .. Len(s) - 1, NEW l \in 1 .. Len(s) - 1, d[k] = d[l]
                 PROVE  k = l
      BY <2>3 DEF IsInjective
    <3>1. \A a, b \in 1 .. Len(s) : s[a] = s[b] => a = b
      BY DEF IsInjective
    <3> DEFINE p == IF k < i THEN k ELSE k + 1
               q == IF l < i THEN l ELSE l + 1
    <3>2. d[k] = s[p] /\ d[l] = s[q]
      BY <2>3
    <3>3. Len(s) \in Nat
      BY LenProperties
    <3>4. p \in 1 .. Len(s) /\ q \in 1 .. Len(s)
      BY <2>1, <3>3
    <3>5. p = q => k = l
      BY <2>1, <3>3
    <3> HIDE DEF p, q
    <3>6. p = q
      BY <3>1, <3>2, <3>4
    <3> QED BY <3>5, <3>6
  <2>5. Range(d) = Range(s) \ {x}
    <3>1. \A a, b \in 1 .. Len(s) : s[a] = s[b] => a = b
      BY DEF IsInjective
    <3>2. ASSUME NEW y \in Range(d) PROVE y \in Range(s) \ {x}
      <4>1. PICK k \in 1 .. Len(s) - 1 : y = d[k]
        BY <2>3 DEF Range
      <4> DEFINE p == IF k < i THEN k ELSE k + 1
      <4>2. Len(s) \in Nat
        BY LenProperties
      <4>3. y = s[p] /\ p \in 1 .. Len(s) /\ p # i
        BY <2>1, <2>3, <4>1, <4>2
      <4> HIDE DEF p
      <4>4. s[p] # s[i]
        BY <2>1, <3>1, <4>3
      <4>5. DOMAIN s = 1 .. Len(s)
        BY LenProperties
      <4> QED BY <2>1, <4>3, <4>4, <4>5 DEF Range
    <3>3. ASSUME NEW y \in Range(s), y # x PROVE y \in Range(d)
      <4>1. PICK k \in 1 .. Len(s) : y = s[k]
        BY DEF Range
      <4>2. k # i
        BY <2>1, <3>3, <4>1
      <4>3. CASE k < i
        BY <2>1, <2>3, <4>1, <4>3 DEF Range
      <4>4. CASE k > i
        <5>1. k - 1 \in 1 .. Len(s) - 1 /\ ~(k - 1 < i) /\ (k - 1) + 1 = k
          BY <2>1, <4>4
        <5> QED BY <2>3, <4>1, <5>1 DEF Range
      <4> QED BY <2>1, <4>2, <4>3, <4>4
    <3> QED BY <3>2, <3>3
  <2>6. ASSUME s[1] # x PROVE d # <<>> /\ d[1] = s[1]
    <3>1. i > 1 /\ Len(s) > 1
      BY <2>1, <2>6
    <3> QED BY <2>3, <3>1
  <2> QED BY <1>2, <2>2, <2>3, <2>4, <2>5, <2>6
<1> QED BY <1>1, <1>2

LEMMA AppendIs ==
  ASSUME NEW S, NEW s \in Seq(S), NEW x \in S
  PROVE  /\ Range(Append(s, x)) = Range(s) \cup {x}
         /\ IsInjective(s) /\ x \notin Range(s) => IsInjective(Append(s, x))
<1> DEFINE d == Append(s, x)
<1>1. /\ d \in Seq(S) /\ Len(d) = Len(s) + 1 /\ Len(s) \in Nat
      /\ \A i \in 1 .. Len(s) : d[i] = s[i]
      /\ d[Len(s) + 1] = x
  BY AppendProperties, LenProperties
<1>2. DOMAIN d = 1 .. Len(s) + 1 /\ DOMAIN s = 1 .. Len(s)
  BY <1>1, LenProperties
<1> HIDE DEF d
<1>3. \A i \in 1 .. Len(s) + 1 : i \in 1 .. Len(s) \/ i = Len(s) + 1
  BY <1>1
<1>4. \A i \in 1 .. Len(s) : i \in 1 .. Len(s) + 1
  BY <1>1
<1>5. Len(s) + 1 \in 1 .. Len(s) + 1
  BY <1>1
<1>6. \A y : y \in Range(d) <=> y \in Range(s) \cup {x}
  BY <1>1, <1>2, <1>3, <1>4, <1>5 DEF Range
<1>7. ASSUME IsInjective(s), x \notin Range(s) PROVE IsInjective(d)
  <2> SUFFICES ASSUME NEW a \in 1 .. Len(s) + 1, NEW b \in 1 .. Len(s) + 1, d[a] = d[b]
               PROVE  a = b
    BY <1>2 DEF IsInjective
  <2> QED BY <1>1, <1>2, <1>3, <1>7 DEF IsInjective, Range
<1> QED BY <1>6, <1>7 DEF d
(* The front and the last of a list. *)
LEMMA FrontIs ==
  ASSUME NEW S, NEW s \in Seq(S), s # <<>>
  PROVE  /\ Front(s) \in Seq(S) /\ Last(s) \in Range(s)
         /\ Range(Front(s)) \subseteq Range(s)
         /\ Range(s) = Range(Front(s)) \cup {Last(s)}
         /\ IsInjective(s) => IsInjective(Front(s)) /\ Last(s) \notin Range(Front(s))
<1> DEFINE n == Len(s)
           f == Front(s)
<1>1. n \in Nat /\ n # 0 /\ DOMAIN s = 1 .. n /\ \A i \in 1 .. n : s[i] \in S
  BY LenProperties, ElementOfSeq, EmptySeq
<1>2. f \in Seq(S) /\ Len(f) = n - 1 /\ \A i \in 1 .. n - 1 : f[i] = s[i]
  <2>1. \A k \in 1 .. n - 1 : s[k] \in S
    BY <1>1
  <2>2. f = SubSeq(s, 1, n - 1)
    BY DEF Front
  <2> HIDE DEF f
  <2> QED BY <1>1, <2>1, <2>2, SubSeqProperties
<1>3. DOMAIN f = 1 .. n - 1 /\ Last(s) = s[n]
  BY <1>2, LenProperties DEF Last
<1> HIDE DEF n, f
<1>4. ASSUME NEW i \in 1 .. n PROVE i \in 1 .. n - 1 \/ i = n
  BY <1>1
<1>5. \A y : y \in Range(s) <=> y \in Range(f) \cup {Last(s)}
  BY <1>1, <1>2, <1>3, <1>4 DEF Range
<1>6. ASSUME IsInjective(s) PROVE IsInjective(f) /\ Last(s) \notin Range(f)
  BY <1>1, <1>2, <1>3, <1>6 DEF IsInjective, Range
<1> QED BY <1>2, <1>5, <1>6 DEF f

LEMMA SeqIn ==
  ASSUME NEW S, NEW s \in Seq(S), NEW T, Range(s) \subseteq T
  PROVE  s \in Seq(T)
<1>1. Len(s) \in Nat /\ s \in [1 .. Len(s) -> S]
  BY LenProperties
<1>2. s \in [1 .. Len(s) -> T]
  BY <1>1 DEF Range
<1> QED BY <1>1, <1>2, SeqDef
-----------------------------------------------------------------------------
(* Loops: what each turn carries from S[k - 1] to S[k] ends in S[n], and a *)
(* function that is defined by such a recursion exists.                    *)
LEMMA LoopInvariant ==
  ASSUME NEW n \in Nat, NEW h, NEW S,
         h[0] \in S[0], \A k \in 1 .. n : h[k - 1] \in S[k - 1] => h[k] \in S[k]
  PROVE  \A k \in 0 .. n : h[k] \in S[k]
<1> DEFINE T == {k \in Nat : k <= n => h[k] \in S[k]}
<1>1. 0 \in T
  OBVIOUS
<1>2. ASSUME NEW k \in Nat, k \in T PROVE k + 1 \in T
  <2> SUFFICES ASSUME k + 1 <= n PROVE h[k + 1] \in S[k + 1]
    OBVIOUS
  <2>1. k + 1 \in 1 .. n /\ (k + 1) - 1 = k
    OBVIOUS
  <2>2. h[k] \in S[k]
    BY <1>2
  <2> QED BY <2>1, <2>2
<1>3. \A k \in Nat : k \in T
  <2> HIDE DEF T
  <2> QED BY <1>1, <1>2, EveryNatural
<1> QED BY <1>3

Loops(g, n, base, step) == g = [k \in 0 .. n |-> IF k = 0 THEN base ELSE step[k][g[k - 1]]]

LEMMA LoopExists ==
  ASSUME NEW U, NEW n \in Nat, NEW S \in [0 .. n -> SUBSET U], NEW base \in S[0], NEW step,
         \A k \in 1 .. n : \A s \in S[k - 1] : step[k][s] \in S[k]
  PROVE  \E g : Loops(g, n, base, step) /\ \A k \in 0 .. n : g[k] \in S[k]
<1> DEFINE one == [k \in Nat |-> [s \in U |-> IF k \in 1 .. n /\ s \in S[k - 1]
                                               THEN step[k][s] ELSE base]]
<1>1. base \in U
  OBVIOUS
<1>2. one \in [Nat -> [U -> U]]
  <2> SUFFICES ASSUME NEW k \in 1 .. n, NEW s \in S[k - 1] PROVE step[k][s] \in U
    BY <1>1
  <2>1. step[k][s] \in S[k]
    OBVIOUS
  <2>2. k \in 0 .. n
    OBVIOUS
  <2> QED BY <2>1, <2>2
<1>3. PICK f \in [Nat -> U] : \A m \in Nat : Follows(f, base, one, m)
  <2> HIDE DEF one
  <2> QED BY <1>1, <1>2, Recursion
<1>4. f[0] = base /\ \A k \in 1 .. n : f[k] = one[k][f[k - 1]]
  BY <1>3 DEF Follows
<1>5. ASSUME NEW k \in 1 .. n, f[k - 1] \in S[k - 1]
      PROVE  f[k] = step[k][f[k - 1]] /\ f[k] \in S[k]
  <2>1. k \in Nat /\ k - 1 \in Nat
    OBVIOUS
  <2>2. f[k - 1] \in U
    BY <2>1
  <2>3. one[k][f[k - 1]] = step[k][f[k - 1]]
    BY <2>1, <2>2, <1>5
  <2> HIDE DEF one
  <2> QED BY <1>4, <1>5, <2>3
<1>6. f[0] \in S[0]
  BY <1>4
<1>7. \A k \in 0 .. n : f[k] \in S[k]
  <2> HIDE DEF one
  <2> QED BY <1>5, <1>6, LoopInvariant
<1> DEFINE g == [k \in 0 .. n |-> f[k]]
<1>8. ASSUME NEW k \in 0 .. n
      PROVE  g[k] = (IF k = 0 THEN base ELSE step[k][g[k - 1]])
  <2>1. CASE k = 0
    BY <2>1, <1>4
  <2>2. CASE k # 0
    <3>1. k \in 1 .. n /\ k - 1 \in 0 .. n
      BY <2>2
    <3>2. g[k] = f[k] /\ g[k - 1] = f[k - 1]
      BY <3>1
    <3> HIDE DEF g, one
    <3> QED BY <2>2, <3>1, <3>2, <1>5, <1>7
  <2> QED BY <2>1, <2>2
<1>9. g = [k \in 0 .. n |-> IF k = 0 THEN base ELSE step[k][g[k - 1]]]
  <2>1. g = [k \in 0 .. n |-> g[k]]
    OBVIOUS
  <2> HIDE DEF g, one
  <2> QED BY <2>1, <1>8
<1>10. \A k \in 0 .. n : g[k] \in S[k]
  BY <1>7
<1>11. Loops(g, n, base, step)
  <2> HIDE DEF g
  <2> QED BY <1>9 DEF Loops
<1> HIDE DEF g
<1> QED BY <1>10, <1>11
-----------------------------------------------------------------------------
(* The values of a finite map. *)
LEMMA FiniteRange ==
  ASSUME NEW f, IsFiniteSet(DOMAIN f)
  PROVE  /\ IsFiniteSet(Range(f)) /\ Cardinality(Range(f)) <= Cardinality(DOMAIN f)
         /\ IsInjective(f) => Cardinality(Range(f)) = Cardinality(DOMAIN f)
<1> DEFINE D == DOMAIN f
           R == Range(f)
           g == [x \in D |-> f[x]]
<1>1. g \in Surjection(D, R)
  BY DEF Surjection, Range
<1>2. IsInjective(f) => g \in Injection(D, R)
  BY <1>1 DEF Injection, IsInjective, Surjection
<1> HIDE DEF g, D, R
<1>3. IsFiniteSet(D)
  BY DEF D
<1>4. IsFiniteSet(R) /\ Cardinality(R) <= Cardinality(D)
      /\ (Cardinality(R) = Cardinality(D) <=> g \in Injection(D, R))
  BY <1>1, <1>3, FS_Surjection
<1> QED BY <1>2, <1>4 DEF D, R

(* The members of a finite set one after the other. *)
LEMMA SetToSeqIs ==
  ASSUME NEW S, IsFiniteSet(S)
  PROVE  /\ SetToSeq(S) \in Seq(S)
         /\ IsInjective(SetToSeq(S)) /\ Range(SetToSeq(S)) = S
<1> DEFINE n == Cardinality(S)
           order == SetToSeq(S)
<1>1. n \in Nat /\ ExistsBijection(1 .. n, S)
  BY FS_CardinalityType
<1>2. PICK g : g \in Bijection(1 .. n, S)
  BY <1>1 DEF ExistsBijection
<1>3. g \in [1 .. n -> S] /\ IsInjective(g)
  BY <1>2 DEF Bijection, Injection, IsInjective
<1> HIDE DEF n
<1>4. order \in [1 .. n -> S] /\ IsInjective(order)
  <2>1. order = CHOOSE f \in [1 .. n -> S] : IsInjective(f)
    BY DEF SetToSeq, n
  <2> HIDE DEF order
  <2> QED BY <1>3, <2>1
<1> HIDE DEF order
<1>5. order \in Injection(1 .. n, S)
  BY <1>4 DEF Injection, IsInjective
<1>6. Cardinality(1 .. n) = n
  BY <1>1, FS_Interval
<1>7. order \in Surjection(1 .. n, S)
  BY <1>5, <1>6, FS_Injection DEF n
<1>8. Range(order) = S
  BY <1>7 DEF Surjection, Range
<1>9. order \in Seq(S)
  BY <1>1, <1>4, IsASeq
<1> QED BY <1>4, <1>8, <1>9 DEF order

(* The tail of a list. *)
LEMMA TailIs ==
  ASSUME NEW S, NEW s \in Seq(S), s # <<>>
  PROVE  /\ Tail(s) \in Seq(S) /\ Head(s) = s[1] /\ Head(s) \in S
         /\ Len(s) \in Nat \ {0} /\ Len(Tail(s)) = Len(s) - 1
         /\ DOMAIN s = 1 .. Len(s) /\ DOMAIN Tail(s) = 1 .. Len(Tail(s))
         /\ \A i \in 1 .. Len(Tail(s)) : Tail(s)[i] = s[i + 1]
         /\ ToSet(s) = ToSet(Tail(s)) \cup {Head(s)}
<1> DEFINE t == Tail(s)
           n == Len(s)
<1>1. n \in Nat \ {0} /\ DOMAIN s = 1 .. n
  BY LenProperties, EmptySeq
<1>2. t \in Seq(S) /\ Len(t) = n - 1 /\ (\A i \in 1 .. Len(t) : t[i] = s[i + 1]) /\ Head(s) = s[1]
  BY <1>1, HeadTailProperties
<1>3. DOMAIN t = 1 .. n - 1
  BY <1>2, LenProperties
<1>4. 1 \in 1 .. n /\ s[1] \in S
  BY <1>1, ElementOfSeq
<1>5. \A i \in 1 .. n - 1 : t[i] = s[i + 1] /\ i + 1 \in 1 .. n
  BY <1>1, <1>2
<1> HIDE DEF t, n
<1>6. ASSUME NEW i \in 1 .. n PROVE i = 1 \/ s[i] \in {t[j] : j \in 1 .. n - 1}
  <2>1. i = 1 \/ (i - 1 \in 1 .. n - 1 /\ (i - 1) + 1 = i)
    BY <1>1
  <2>2. i = 1 \/ (i - 1 \in 1 .. n - 1 /\ t[i - 1] = s[i])
    BY <1>5, <2>1
  <2> QED BY <2>2
<1>7. {s[i] : i \in 1 .. n} = {t[j] : j \in 1 .. n - 1} \cup {s[1]}
  BY <1>4, <1>5, <1>6
<1>8. ToSet(s) = ToSet(t) \cup {Head(s)}
  BY <1>1, <1>2, <1>3, <1>7 DEF ToSet
<1> QED BY <1>1, <1>2, <1>3, <1>4, <1>8 DEF t, n

(* A list with one member more. *)
LEMMA OneMoreIs ==
  ASSUME NEW S, NEW s \in Seq(S), NEW x \in S
  PROVE  /\ s \o <<x>> \in Seq(S) /\ s \o <<x>> # <<>>
         /\ Len(s) \in Nat
         /\ DOMAIN s = 1 .. Len(s) /\ DOMAIN (s \o <<x>>) = 1 .. Len(s) + 1
         /\ \A i \in 1 .. Len(s) : (s \o <<x>>)[i] = s[i]
         /\ (s \o <<x>>)[Len(s) + 1] = x
         /\ ToSet(s \o <<x>>) = ToSet(s) \cup {x}
<1> DEFINE t == s \o <<x>>
           n == Len(s)
           u == Append(s, x)
<1>1. t = u
  OBVIOUS
<1>2. n \in Nat /\ DOMAIN s = 1 .. n
  BY LenProperties
<1>3. u \in Seq(S) /\ Len(u) = n + 1 /\ (\A i \in 1 .. n : u[i] = s[i]) /\ u[n + 1] = x
  BY AppendProperties
<1>4. DOMAIN u = 1 .. n + 1
  BY <1>3, LenProperties
<1> HIDE DEF u, t, n
<1>5. \A i \in 1 .. n + 1 : i \in 1 .. n \/ i = n + 1
  BY <1>2
<1>6. (\A i \in 1 .. n : i \in 1 .. n + 1) /\ n + 1 \in 1 .. n + 1
  BY <1>2
<1>7. ToSet(u) = ToSet(s) \cup {x}
  BY <1>2, <1>3, <1>4, <1>5, <1>6 DEF ToSet
<1>8. u # <<>>
  BY <1>2, <1>3
<1> QED BY <1>1, <1>2, <1>3, <1>4, <1>7, <1>8 DEF t, n

(* Two sequences that agree at each place are equal. *)
LEMMA SeqIs ==
  ASSUME NEW S, NEW s \in Seq(S), NEW t \in Seq(S), Len(s) = Len(t),
         \A i \in 1 .. Len(s) : s[i] = t[i]
  PROVE  s = t
<1>1. /\ Len(s) \in Nat /\ s = [i \in 1 .. Len(s) |-> s[i]]
      /\ t = [i \in 1 .. Len(s) |-> t[i]]
  OBVIOUS
<1> QED BY <1>1

(* The two ends. *)
LEMMA RemoveEnds ==
  ASSUME NEW S, NEW s \in Seq(S), s # <<>>
  PROVE  RemoveAt(s, 1) = Tail(s) /\ RemoveAt(s, Len(s)) = Front(s)
<1>1. /\ Tail(s) \in Seq(S) /\ Head(s) = s[1] /\ Len(s) \in Nat \ {0} /\ Len(Tail(s)) = Len(s) - 1
      /\ \A i \in 1 .. Len(Tail(s)) : Tail(s)[i] = s[i + 1]
  BY TailIs
<1>2. 1 \in 1 .. Len(s) /\ Len(s) \in 1 .. Len(s)
  BY <1>1
<1>3. RemoveAt(s, 1) = Tail(s)
  <2> DEFINE t == RemoveAt(s, 1)
             u == Tail(s)
  <2>1. t \in Seq(S) /\ Len(t) = Len(s) - 1 /\ \A k \in 1 .. Len(s) - 1 : t[k] = IF k < 1 THEN s[k] ELSE s[k + 1]
    BY <1>2, RemoveAtIs
  <2>2. \A k \in 1 .. Len(s) - 1 : u[k] = s[k + 1] /\ ~(k < 1)
    BY <1>1
  <2>3. u \in Seq(S) /\ Len(u) = Len(s) - 1
    BY <1>1
  <2> HIDE DEF t, u
  <2>4. t = u
    BY <2>1, <2>2, <2>3, SeqIs
  <2> QED BY <2>4 DEF t, u
<1>4. RemoveAt(s, Len(s)) = Front(s)
  <2> DEFINE t == RemoveAt(s, Len(s))
             u == Front(s)
  <2>1. t \in Seq(S) /\ Len(t) = Len(s) - 1 /\ \A k \in 1 .. Len(s) - 1 : t[k] = IF k < Len(s) THEN s[k] ELSE s[k + 1]
    BY <1>2, RemoveAtIs
  <2>2. u \in Seq(S) /\ Len(u) = Len(s) - 1 /\ \A k \in 1 .. Len(s) - 1 : u[k] = s[k]
    BY <1>1 DEF Front
  <2>3. \A k \in 1 .. Len(s) - 1 : k < Len(s)
    BY <1>1
  <2> HIDE DEF t, u
  <2>4. t = u
    BY <2>1, <2>2, <2>3, SeqIs
  <2> QED BY <2>4 DEF t, u
<1> QED BY <1>3, <1>4

(* The members of a sequence of three and a rest. *)
LEMMA ListsIs ==
  ASSUME NEW S, NEW a \in S, NEW b \in S, NEW e \in S, NEW w \in Seq(S), NEW l, l = <<a, b, e>> \o w
  PROVE  /\ DOMAIN l = 1 .. 3 + Len(w) /\ Len(w) \in Nat
         /\ l[1] = a /\ l[2] = b /\ l[3] = e
         /\ \A i \in 1 .. Len(w) : l[3 + i] = w[i]
<1>1. <<a, b, e>> \in Seq(S) /\ Len(<<a, b, e>>) = 3
  OBVIOUS
<1>2. /\ l \in Seq(S) /\ Len(l) = 3 + Len(w) /\ Len(w) \in Nat
      /\ \A i \in 1 .. Len(l) : l[i] = IF i <= 3 THEN <<a, b, e>>[i] ELSE w[i - 3]
  BY <1>1, ConcatProperties
<1>3. \A i \in 1 .. Len(w) : 3 + i \in 1 .. Len(l) /\ ~(3 + i <= 3) /\ (3 + i) - 3 = i
  BY <1>2
<1>4. 1 \in 1 .. Len(l) /\ 2 \in 1 .. Len(l) /\ 3 \in 1 .. Len(l)
  BY <1>2
<1> QED BY <1>2, <1>3, <1>4
=============================================================================
