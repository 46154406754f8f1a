------------------------- MODULE PriorityQueueProofs -------------------------
(* The heap keeps its order and its index, for any ids and values. *)
EXTENDS PriorityQueue, SequenceTheorems, Basics, TLAPS

LEMMA Functions ==
  ASSUME NEW S, NEW m \in Nat, NEW h \in [1 .. m -> S]
  PROVE  h \in Seq(S) /\ Len(h) = m
BY IsASeq

LEMMA Halves ==
  ASSUME NEW i \in Nat, i > 1
  PROVE  parent(i) \in Nat /\ parent(i) >= 1 /\ parent(i) < i
BY DEF parent

LEMMA Shape ==
  ASSUME ContentsOK
  PROVE  /\ Size \in Nat
         /\ heap \in [1 .. Size -> Held]
         /\ \A id \in Held : value[id] \in Int
         /\ Vals \in [1 .. Size -> Int]
<1>1. heap \in Seq(Held)
  BY DEF ContentsOK
<1>2. Size \in Nat /\ heap \in [1 .. Size -> Held]
  BY <1>1, LenProperties DEF Size
<1>3. \A id \in Held : value[id] \in Int
  BY PriorityQueueAssumption DEF ContentsOK
<1>4. \A i \in 1 .. Size : Val(i) \in Int
  BY <1>2, <1>3 DEF Val
<1> QED BY <1>2, <1>3, <1>4 DEF Vals
-----------------------------------------------------------------------------
(* The steps of the loops on the values alone.  First bubble_up. *)
LEMMA RiseOrder ==
  ASSUME NEW m \in Nat, NEW v \in [1 .. m -> Int], NEW k \in 2 .. m,
         v[parent(k)] < v[k], OrderedExcept(v, m, k, TRUE),
         NEW w, w = [v EXCEPT ![k] = v[parent(k)], ![parent(k)] = v[k]]
  PROVE  OrderedExcept(w, m, parent(k), TRUE) /\ OrderedBelow(w, m, parent(k))
<1> DEFINE p == parent(k)
<1>1. p \in 1 .. m /\ p < k
  BY Halves
<1>2. \A i \in 2 .. m : parent(i) \in 1 .. m /\ parent(i) < i
  BY Halves
<1>3. w \in [1 .. m -> Int] /\ w[k] = v[p] /\ w[p] = v[k]
  BY <1>1
<1>4. \A i \in 1 .. m : i # k /\ i # p => w[i] = v[i]
  BY <1>1
<1>5. \A i \in 2 .. m : parent(i) = k \/ i = k \/ v[i] <= v[parent(i)]
  BY DEF OrderedExcept
<1>6. \A i \in 2 .. m : parent(i) = k => v[i] <= v[p]
  BY DEF OrderedExcept
<1> HIDE DEF p
<1>7. p = parent(k)
  BY DEF p
<1>8. \A i \in 2 .. m : parent(i) = p \/ i = p \/ w[i] <= w[parent(i)]
  <2> SUFFICES ASSUME NEW i \in 2 .. m, parent(i) # p, i # p PROVE w[i] <= w[parent(i)]
    OBVIOUS
  <2>1. i # k /\ w[i] = v[i]
    BY <1>4, <1>7
  <2>2. CASE parent(i) = k
    BY <1>3, <1>6, <2>1, <2>2
  <2>3. CASE parent(i) # k
    <3>1. w[parent(i)] = v[parent(i)]
      BY <1>2, <1>4, <2>3
    <3> QED BY <1>5, <2>1, <2>3, <3>1
  <2> QED BY <2>2, <2>3
<1>9. \A i \in 2 .. m : parent(i) = p => w[i] <= w[p]
  BY <1>1, <1>2, <1>3, <1>4, <1>5, <1>6, <1>7
<1>10. \A i \in 2 .. m : parent(i) = p /\ p > 1 => w[i] <= w[parent(p)]
  <2> SUFFICES ASSUME NEW i \in 2 .. m, parent(i) = p, p > 1 PROVE w[i] <= w[parent(p)]
    OBVIOUS
  <2>1. parent(p) \in 1 .. m /\ parent(p) < p /\ w[parent(p)] = v[parent(p)]
    BY <1>1, <1>2, <1>4
  <2>2. v[p] <= v[parent(p)]
    BY <1>1, <1>5, <2>1
  <2>3. CASE i = k
    BY <1>3, <2>1, <2>2, <2>3
  <2>4. CASE i # k
    <3>1. i # p /\ p # k
      BY <1>1, <1>2
    <3>2. w[i] = v[i] /\ v[i] <= v[p]
      BY <1>4, <1>5, <2>4, <3>1
    <3> QED BY <1>1, <2>1, <2>2, <3>2
  <2> QED BY <2>3, <2>4
<1> QED BY <1>7, <1>8, <1>9, <1>10 DEF OrderedExcept, OrderedBelow

(* Then heapify: the position changes places with its largest child. *)
LEMMA SinkOrder ==
  ASSUME NEW m \in Nat, NEW v \in [1 .. m -> Int], NEW k \in 1 .. m, NEW c \in 2 .. m,
         parent(c) = k, v[k] <= v[c], OrderedExcept(v, m, k, FALSE),
         \A i \in 2 .. m : parent(i) = k => v[i] <= v[c],
         NEW w, w = [v EXCEPT ![k] = v[c], ![c] = v[k]]
  PROVE  OrderedExcept(w, m, c, FALSE)
<1>1. \A i \in 2 .. m : parent(i) \in 1 .. m /\ parent(i) < i
  BY Halves
<1>2. w \in [1 .. m -> Int] /\ w[k] = v[c] /\ w[c] = v[k] /\ k # c
  BY <1>1
<1>3. \A i \in 1 .. m : i # k /\ i # c => w[i] = v[i]
  OBVIOUS
<1>4. \A i \in 2 .. m : parent(i) = k \/ v[i] <= v[parent(i)]
  BY DEF OrderedExcept
<1>5. \A i \in 2 .. m : parent(i) = k /\ k > 1 => v[i] <= v[parent(k)]
  BY DEF OrderedExcept
<1>6. \A i \in 2 .. m : parent(i) = c \/ w[i] <= w[parent(i)]
  <2> SUFFICES ASSUME NEW i \in 2 .. m, parent(i) # c PROVE w[i] <= w[parent(i)]
    OBVIOUS
  <2>1. CASE i = k
    <3>1. k > 1 /\ parent(k) \in 1 .. m /\ parent(k) # k /\ parent(k) # c
      BY <1>1, <2>1
    <3>2. w[parent(k)] = v[parent(k)]
      BY <1>3, <3>1
    <3>3. v[c] <= v[parent(k)]
      BY <1>5, <3>1
    <3> QED BY <1>2, <2>1, <3>2, <3>3
  <2>2. CASE i = c
    BY <1>2, <2>2
  <2>3. CASE i # k /\ i # c
    <3>1. w[i] = v[i]
      BY <1>3, <2>3
    <3>2. CASE parent(i) = k
      BY <1>2, <3>1, <3>2
    <3>3. CASE parent(i) # k
      <4>1. w[parent(i)] = v[parent(i)]
        BY <1>1, <1>3, <3>3
      <4> QED BY <1>4, <3>1, <3>3, <4>1
    <3> QED BY <3>2, <3>3
  <2> QED BY <2>1, <2>2, <2>3
<1>7. \A i \in 2 .. m : parent(i) = c => w[i] <= w[parent(c)]
  BY SMTT(30), <1>1, <1>2, <1>3, <1>4
<1> QED BY <1>6, <1>7 DEF OrderedExcept

(* A value changes where the order held. *)
LEMMA ChangeOrder ==
  ASSUME NEW m \in Nat, NEW v \in [1 .. m -> Int], NEW k \in 1 .. m,
         \A i \in 2 .. m : v[i] <= v[parent(i)],
         NEW x \in Int, NEW w, w = [v EXCEPT ![k] = x]
  PROVE  /\ OrderedExcept(w, m, k, TRUE)
         /\ x <= v[k] \/ k = 1 => OrderedExcept(w, m, k, FALSE)
<1>1. \A i \in 2 .. m : parent(i) \in 1 .. m /\ parent(i) < i
  BY Halves
<1>2. w[k] = x /\ \A i \in 1 .. m : i # k => w[i] = v[i]
  OBVIOUS
<1>3. \A i \in 2 .. m : parent(i) = k /\ k > 1 => w[i] <= w[parent(k)]
  <2> SUFFICES ASSUME NEW i \in 2 .. m, parent(i) = k, k > 1 PROVE w[i] <= w[parent(k)]
    OBVIOUS
  <2>1. w[i] = v[i] /\ parent(k) \in 1 .. m /\ w[parent(k)] = v[parent(k)]
    BY <1>1, <1>2
  <2>2. v[i] <= v[parent(i)]
    OBVIOUS
  <2>3. k \in 2 .. m
    OBVIOUS
  <2>4. v[k] <= v[parent(k)]
    BY <2>3
  <2>5. v[i] \in Int /\ v[k] \in Int /\ v[parent(k)] \in Int
    BY <2>1
  <2> QED BY <2>1, <2>2, <2>4, <2>5
<1>4. \A i \in 2 .. m : parent(i) = k \/ i = k \/ w[i] <= w[parent(i)]
  BY <1>1, <1>2
<1>5. x <= v[k] /\ k > 1 => w[k] <= w[parent(k)]
  <2> SUFFICES ASSUME x <= v[k], k > 1 PROVE w[k] <= w[parent(k)]
    OBVIOUS
  <2>1. parent(k) \in 1 .. m /\ w[parent(k)] = v[parent(k)] /\ v[k] <= v[parent(k)]
    BY <1>1, <1>2
  <2> QED BY <1>2, <2>1
<1>6. x <= v[k] \/ k = 1 => \A i \in 2 .. m : parent(i) = k \/ w[i] <= w[parent(i)]
  BY <1>4, <1>5
<1> QED BY <1>3, <1>4, <1>6 DEF OrderedExcept
-----------------------------------------------------------------------------
(* Two positions change places. *)
LEMMA Swapped ==
  ASSUME ContentsOK, NEW a \in 1 .. Size, NEW b \in 1 .. Size, a # b,
         heap' = [heap EXCEPT ![a] = heap[b], ![b] = heap[a]], value' = value
  PROVE  /\ heap' \in Seq(Held') /\ Size' = Size /\ Held' = Held
         /\ heap'[a] = heap[b] /\ heap'[b] = heap[a]
         /\ \A i \in 1 .. Size : i # a /\ i # b => heap'[i] = heap[i]
         /\ Vals' = [Vals EXCEPT ![a] = Vals[b], ![b] = Vals[a]]
<1>1. Size \in Nat /\ heap \in [1 .. Size -> Held]
  BY Shape
<1>2. heap' \in [1 .. Size -> Held]
  BY <1>1
<1>3. Held' = Held
  BY DEF Held
<1>4. heap' \in Seq(Held') /\ Size' = Size
  BY <1>1, <1>2, <1>3, Functions DEF Size
<1>5. /\ heap'[a] = heap[b] /\ heap'[b] = heap[a]
      /\ \A i \in 1 .. Size : i # a /\ i # b => heap'[i] = heap[i]
  BY <1>1
<1>6. Vals' = [i \in 1 .. Size |-> value[heap'[i]]]
  BY <1>4 DEF Vals, Val
<1>7. Vals = [i \in 1 .. Size |-> value[heap[i]]]
  BY DEF Vals, Val
<1>8. Vals' = [Vals EXCEPT ![a] = Vals[b], ![b] = Vals[a]]
  <2> DEFINE w == [Vals EXCEPT ![a] = Vals[b], ![b] = Vals[a]]
  <2>1. w = [i \in 1 .. Size |-> IF i = b THEN Vals[a] ELSE IF i = a THEN Vals[b] ELSE Vals[i]]
    BY <1>7
  <2>2. \A i \in 1 .. Size :
           value[heap'[i]] = IF i = b THEN Vals[a] ELSE IF i = a THEN Vals[b] ELSE Vals[i]
    <3> SUFFICES ASSUME NEW i \in 1 .. Size
                 PROVE  value[heap'[i]] = IF i = b THEN Vals[a]
                                          ELSE IF i = a THEN Vals[b] ELSE Vals[i]
      OBVIOUS
    <3>1. Vals[i] = value[heap[i]] /\ Vals[a] = value[heap[a]] /\ Vals[b] = value[heap[b]]
      BY <1>7
    <3> QED BY <1>5, <3>1
  <2> QED BY <1>6, <2>1, <2>2
<1> QED BY <1>3, <1>4, <1>5, <1>8

LEMMA SwapIndex ==
  ASSUME ContentsOK, Distinct, \A id \in Held : \E i \in 1 .. Size : heap[i] = id,
         NEW a \in 1 .. Size, NEW b \in 1 .. Size, a # b,
         heap' = [heap EXCEPT ![a] = heap[b], ![b] = heap[a]], value' = value
  PROVE  Distinct' /\ \A id \in Held' : \E i \in 1 .. Size' : heap'[i] = id
<1>1. /\ Size' = Size /\ Held' = Held
      /\ heap'[a] = heap[b] /\ heap'[b] = heap[a]
      /\ \A i \in 1 .. Size : i # a /\ i # b => heap'[i] = heap[i]
  BY Swapped
<1>2. Distinct'
  <2> SUFFICES ASSUME NEW i \in 1 .. Size, NEW j \in 1 .. Size, heap'[i] = heap'[j] PROVE i = j
    BY <1>1 DEF Distinct
  <2> DEFINE s(x) == IF x = a THEN b ELSE IF x = b THEN a ELSE x
  <2>1. heap'[i] = heap[s(i)] /\ s(i) \in 1 .. Size
    BY <1>1
  <2>2. heap'[j] = heap[s(j)] /\ s(j) \in 1 .. Size
    BY <1>1
  <2>3. s(i) = s(j)
    BY <2>1, <2>2 DEF Distinct
  <2> QED BY <2>3
<1>3. ASSUME NEW id \in Held PROVE \E i \in 1 .. Size : heap'[i] = id
  <2>1. PICK i \in 1 .. Size : heap[i] = id
    OBVIOUS
  <2> QED BY <1>1, <2>1
<1> QED BY <1>1, <1>2, <1>3

LEMMA RiseKeepsIInv ==
  ASSUME IInv, Rise
  PROVE  IInv'
<1> DEFINE p == parent(at)
<1>1. /\ ContentsOK /\ LoopOK /\ Size \in Nat /\ heap \in [1 .. Size -> Held]
      /\ Vals \in [1 .. Size -> Int]
  BY Shape DEF IInv, TypeOK
<1>2. /\ pc = "up" /\ at > 1 /\ Val(p) < Val(at) /\ at' = p /\ value' = value
      /\ heap' = [heap EXCEPT ![at] = heap[p], ![p] = heap[at]]
      /\ place' = [place EXCEPT ![heap[p]] = at]
      /\ pc' = pc /\ then' = then /\ sweep' = sweep /\ decayed' = decayed
  BY DEF Rise, Rises, cmp_priority
<1>3. at \in 2 .. Size /\ at \in 1 .. Size /\ p \in 1 .. Size /\ p < at /\ p # at
  <2>1. at \in Nat /\ at <= Size
    BY <1>1, <1>2 DEF IInv, IndexExact, LoopOK
  <2> QED BY <1>1, <1>2, <2>1, Halves
<1>4. /\ heap' \in Seq(Held') /\ Size' = Size /\ Held' = Held
      /\ heap'[at] = heap[p] /\ heap'[p] = heap[at]
      /\ \A i \in 1 .. Size : i # at /\ i # p => heap'[i] = heap[i]
      /\ Vals' = [Vals EXCEPT ![at] = Vals[p], ![p] = Vals[at]]
  BY <1>1, <1>2, <1>3, Swapped
<1>5. /\ DOMAIN place' = Held /\ place'[heap[p]] = at
      /\ \A id \in Held : id # heap[p] => place'[id] = place[id]
  BY <1>1, <1>2, <1>3 DEF ContentsOK
<1>6. TypeOK'
  <2>1. ContentsOK'
    BY <1>1, <1>2, <1>3, <1>4, <1>5 DEF ContentsOK
  <2>2. LoopOK'
    BY <1>1, <1>2, <1>3 DEF LoopOK
  <2> QED BY <2>1, <2>2 DEF TypeOK
<1>7. Distinct' /\ \A id \in Held' : \E i \in 1 .. Size' : heap'[i] = id
  BY <1>1, <1>2, <1>3, SwapIndex DEF IInv, IndexExact
<1>8. IndexExact'
  <2>1. ASSUME NEW i \in 1 .. Size, i # p PROVE place'[heap'[i]] = i
    <3>1. CASE i = at
      BY <1>3, <1>4, <1>5, <3>1
    <3>2. CASE i # at
      <4>1. heap'[i] = heap[i] /\ heap[i] # heap[p] /\ heap[i] \in Held
        BY <1>1, <1>3, <1>4, <2>1, <3>2 DEF IInv, Distinct
      <4> QED BY <1>2, <1>5, <3>2, <4>1 DEF IInv, IndexExact
    <3> QED BY <3>1, <3>2
  <2>2. pc' = "up" /\ at' <= Size'
    BY <1>2, <1>3, <1>4
  <2> QED BY <1>2, <1>4, <1>7, <2>1, <2>2 DEF IndexExact
<1>9. Control' /\ HeapOrder'
  BY <1>2 DEF IInv, Control, HeapOrder, Idle
<1>10. LoopOrder'
  <2> SUFFICES ASSUME ~decayed PROVE LoopOrder'
    BY <1>2 DEF LoopOrder
  <2>1. OrderedExcept(Vals, Size, at, TRUE)
    BY <1>2 DEF IInv, LoopOrder
  <2>2. Vals[p] < Vals[at]
    BY <1>2, <1>3 DEF Vals
  <2>3. OrderedExcept(Vals', Size, p, TRUE) /\ OrderedBelow(Vals', Size, p)
    BY <1>1, <1>3, <1>4, <2>1, <2>2, RiseOrder
  <2> QED BY <1>2, <1>4, <2>3 DEF LoopOrder
<1> QED BY <1>6, <1>7, <1>8, <1>9, <1>10 DEF IInv

(* Facts about a heap whose loop has ended, or has its position in place.  *)
LEMMA AllOrdered ==
  ASSUME ContentsOK, OrderedExcept(Vals, Size, at, FALSE), OrderedBelow(Vals, Size, at),
         at \in Nat
  PROVE  \A i \in 2 .. Size : ~cmp_priority(Val(parent(i)), Val(i))
<1>1. \A i \in 2 .. Size : i \in 1 .. Size /\ parent(i) \in 1 .. Size
  BY Shape, Halves
<1>2. \A i \in 2 .. Size : Vals[i] <= Vals[parent(i)]
  BY DEF OrderedExcept, OrderedBelow
<1>3. \A i \in 1 .. Size : Vals[i] = Val(i) /\ Vals[i] \in Int
  BY Shape DEF Vals
<1> QED BY <1>1, <1>2, <1>3 DEF cmp_priority

LEMMA EndRiseKeepsIInv ==
  ASSUME IInv, EndRise
  PROVE  IInv'
<1>1. /\ ContentsOK /\ LoopOK /\ Size \in Nat /\ heap \in [1 .. Size -> Held]
      /\ Vals \in [1 .. Size -> Int]
  BY Shape DEF IInv, TypeOK
<1>2. /\ pc = "up" /\ ~Rises /\ place' = [place EXCEPT ![heap[at]] = at]
      /\ heap' = heap /\ value' = value /\ sweep' = sweep /\ decayed' = decayed
      /\ \/ then = "down" /\ pc' = "down" /\ at' = at /\ then' = "idle"
         \/ then = "idle" /\ pc' = "idle" /\ at' = 1 /\ then' = "idle"
  BY <1>1 DEF EndRise, Placed, Run, Stop, LoopOK
<1>3. at \in 1 .. Size
  BY <1>1, <1>2 DEF IInv, IndexExact, LoopOK
<1>4. Size' = Size /\ Held' = Held /\ Vals' = Vals
  BY <1>2 DEF Size, Held, Vals, Val
<1>5. /\ DOMAIN place' = Held /\ place'[heap[at]] = at
      /\ \A id \in Held : id # heap[at] => place'[id] = place[id]
  BY <1>1, <1>2, <1>3 DEF ContentsOK
<1>6. TypeOK'
  <2>1. ContentsOK'
    BY <1>1, <1>2, <1>3, <1>4, <1>5 DEF ContentsOK
  <2>2. LoopOK'
    BY <1>1, <1>2 DEF LoopOK
  <2> QED BY <2>1, <2>2 DEF TypeOK
<1>7. Distinct' /\ IndexExact'
  <2>1. Distinct'
    BY <1>2, <1>4 DEF IInv, Distinct
  <2>2. ASSUME NEW i \in 1 .. Size PROVE place'[heap[i]] = i
    <3>1. CASE i = at
      BY <1>5, <3>1
    <3>2. CASE i # at
      <4>1. heap[i] # heap[at] /\ heap[i] \in Held
        BY <1>1, <1>3, <3>2 DEF IInv, Distinct
      <4> QED BY <1>2, <1>5, <3>2, <4>1 DEF IInv, IndexExact
    <3> QED BY <3>1, <3>2
  <2> QED BY <1>2, <1>3, <1>4, <2>1, <2>2 DEF IInv, IndexExact
<1>8. Control'
  BY <1>2 DEF IInv, Control
<1>9. ~decayed => OrderedExcept(Vals, Size, at, FALSE)
  <2> SUFFICES ASSUME ~decayed PROVE OrderedExcept(Vals, Size, at, FALSE)
    OBVIOUS
  <2>1. OrderedExcept(Vals, Size, at, TRUE)
    BY <1>2 DEF IInv, LoopOrder
  <2>2. at > 1 => Vals[at] <= Vals[parent(at)]
    <3> SUFFICES ASSUME at > 1 PROVE Vals[at] <= Vals[parent(at)]
      OBVIOUS
    <3>1. parent(at) \in 1 .. Size
      BY <1>1, <1>3, Halves
    <3>2. Vals[at] = Val(at) /\ Vals[parent(at)] = Val(parent(at))
      BY <1>3, <3>1 DEF Vals
    <3>3. Vals[at] \in Int /\ Vals[parent(at)] \in Int
      BY <1>1, <1>3, <3>1
    <3> QED BY <1>2, <3>2, <3>3 DEF Rises, cmp_priority
  <2> QED BY <1>3, <2>1, <2>2 DEF OrderedExcept
<1>10. LoopOrder'
  BY <1>2, <1>4, <1>9 DEF LoopOrder
<1>11. HeapOrder'
  <2> SUFFICES ASSUME ~decayed, then = "idle"
               PROVE  \A i \in 2 .. Size : ~cmp_priority(Val(parent(i)), Val(i))
    BY <1>2, <1>4 DEF HeapOrder, Idle, Val
  <2>1. OrderedBelow(Vals, Size, at)
    BY <1>2 DEF IInv, LoopOrder
  <2> QED BY <1>1, <1>3, <1>9, <2>1, AllOrdered
<1> QED BY <1>6, <1>7, <1>8, <1>10, <1>11 DEF IInv

LEMMA LargestChild ==
  ASSUME ContentsOK, at \in 1 .. Size
  PROVE  /\ Largest # at => /\ Largest \in 2 .. Size /\ parent(Largest) = at
                            /\ Vals[at] <= Vals[Largest]
                            /\ \A i \in 2 .. Size : parent(i) = at => Vals[i] <= Vals[Largest]
         /\ Largest = at => OrderedBelow(Vals, Size, at)
<1>1. Size \in Nat /\ \A i \in 1 .. Size : Val(i) = Vals[i] /\ Vals[i] \in Int
  BY Shape DEF Vals
<1>2. \A i \in 2 .. Size : parent(i) = at => i = left(at) \/ i = right(at)
  BY <1>1 DEF parent, left, right
<1>3. /\ left(at) \in Nat /\ left(at) >= 2 /\ parent(left(at)) = at
      /\ right(at) \in Nat /\ right(at) >= 2 /\ parent(right(at)) = at
  BY <1>1 DEF parent, left, right
<1> DEFINE best == IF left(at) <= Size /\ Val(at) < Val(left(at)) THEN left(at) ELSE at
<1>4. /\ best \in 1 .. Size /\ Vals[at] <= Vals[best]
      /\ left(at) <= Size => Vals[left(at)] <= Vals[best]
      /\ best = at \/ best = left(at)
  BY <1>1, <1>3
<1>5. Largest = IF right(at) <= Size /\ Val(best) < Val(right(at)) THEN right(at) ELSE best
  BY DEF Largest, cmp_priority
<1> HIDE DEF best
<1>6. /\ Largest \in 1 .. Size /\ Vals[at] <= Vals[Largest]
      /\ left(at) <= Size => Vals[left(at)] <= Vals[Largest]
      /\ right(at) <= Size => Vals[right(at)] <= Vals[Largest]
      /\ Largest = at \/ Largest = left(at) \/ Largest = right(at)
  <2>1. CASE right(at) <= Size /\ Val(best) < Val(right(at))
    <3>1. Largest = right(at) /\ right(at) \in 1 .. Size
      BY <1>1, <1>3, <1>5, <2>1
    <3>2. Vals[best] < Vals[right(at)]
      BY <1>1, <1>4, <2>1, <3>1
    <3> QED BY <1>1, <1>3, <1>4, <3>1, <3>2
  <2>2. CASE ~(right(at) <= Size /\ Val(best) < Val(right(at)))
    <3>1. Largest = best
      BY <1>5, <2>2
    <3>2. right(at) <= Size => Vals[right(at)] <= Vals[best]
      BY <1>1, <1>3, <1>4, <2>2
    <3> QED BY <1>4, <3>1, <3>2
  <2> QED BY <2>1, <2>2
<1>7. \A i \in 2 .. Size : parent(i) = at => Vals[i] <= Vals[Largest]
  BY <1>1, <1>2, <1>6
<1> QED BY <1>1, <1>3, <1>6, <1>7 DEF OrderedBelow

LEMMA SinkKeepsIInv ==
  ASSUME IInv, Sink
  PROVE  IInv'
<1> DEFINE c == Largest
<1>1. /\ ContentsOK /\ LoopOK /\ Size \in Nat /\ heap \in [1 .. Size -> Held]
      /\ Vals \in [1 .. Size -> Int]
  BY Shape DEF IInv, TypeOK
<1>2. /\ pc = "down" /\ Size > 1 /\ c # at /\ at' = c /\ value' = value
      /\ heap' = [heap EXCEPT ![at] = heap[c], ![c] = heap[at]]
      /\ place' = [place EXCEPT ![heap[at]] = place[heap[c]], ![heap[c]] = place[heap[at]]]
      /\ pc' = pc /\ then' = then /\ sweep' = sweep /\ decayed' = decayed
  BY DEF Sink, swap
<1>3. at \in 1 .. Size
  BY <1>1, <1>2 DEF IInv, IndexExact, LoopOK
<1>4. /\ c \in 2 .. Size /\ c \in 1 .. Size /\ parent(c) = at /\ Vals[at] <= Vals[c]
      /\ \A i \in 2 .. Size : parent(i) = at => Vals[i] <= Vals[c]
  BY <1>1, <1>2, <1>3, LargestChild
<1> HIDE DEF c
<1>5. /\ heap' \in Seq(Held') /\ Size' = Size /\ Held' = Held
      /\ heap'[at] = heap[c] /\ heap'[c] = heap[at]
      /\ \A i \in 1 .. Size : i # at /\ i # c => heap'[i] = heap[i]
      /\ Vals' = [Vals EXCEPT ![at] = Vals[c], ![c] = Vals[at]]
  BY <1>1, <1>2, <1>3, <1>4, Swapped
<1>6. place[heap[at]] = at /\ place[heap[c]] = c /\ heap[at] # heap[c]
  BY <1>2, <1>3, <1>4 DEF IInv, IndexExact, Distinct
<1>7. /\ DOMAIN place' = Held /\ place'[heap[at]] = c /\ place'[heap[c]] = at
      /\ \A id \in Held : id # heap[at] /\ id # heap[c] => place'[id] = place[id]
  <2>1. heap[at] \in Held /\ heap[c] \in Held /\ DOMAIN place = Held
    BY <1>1, <1>3, <1>4 DEF ContentsOK
  <2> QED BY <1>2, <1>6, <2>1
<1>8. TypeOK'
  <2>1. ContentsOK'
    BY <1>1, <1>2, <1>3, <1>4, <1>5, <1>7 DEF ContentsOK
  <2>2. LoopOK'
    BY <1>1, <1>2, <1>4 DEF LoopOK
  <2> QED BY <2>1, <2>2 DEF TypeOK
<1>9. Distinct' /\ \A id \in Held' : \E i \in 1 .. Size' : heap'[i] = id
  BY <1>1, <1>2, <1>3, <1>4, SwapIndex DEF IInv, IndexExact
<1>10. IndexExact'
  <2>1. ASSUME NEW i \in 1 .. Size PROVE place'[heap'[i]] = i
    <3>1. CASE i = at \/ i = c
      BY <1>5, <1>7, <3>1
    <3>2. CASE i # at /\ i # c
      <4>1. heap'[i] = heap[i] /\ heap[i] # heap[at] /\ heap[i] # heap[c] /\ heap[i] \in Held
        BY <1>1, <1>3, <1>4, <1>5, <3>2 DEF IInv, Distinct
      <4> QED BY <1>2, <1>7, <4>1 DEF IInv, IndexExact
    <3> QED BY <3>1, <3>2
  <2>2. at' <= Size'
    BY <1>1, <1>2, <1>4, <1>5
  <2> QED BY <1>5, <1>9, <2>1, <2>2 DEF IndexExact
<1>11. Control' /\ HeapOrder'
  BY <1>2 DEF IInv, Control, HeapOrder, Idle
<1>12. LoopOrder'
  <2> SUFFICES ASSUME ~decayed PROVE LoopOrder'
    BY <1>2 DEF LoopOrder
  <2>1. OrderedExcept(Vals, Size, at, FALSE)
    BY <1>2 DEF IInv, LoopOrder
  <2>2. OrderedExcept(Vals', Size, c, FALSE)
    BY <1>1, <1>3, <1>4, <1>5, <2>1, SinkOrder
  <2> QED BY <1>2, <1>5, <2>2 DEF LoopOrder
<1> QED BY <1>8, <1>9, <1>10, <1>11, <1>12 DEF IInv

LEMMA EndSinkKeepsIInv ==
  ASSUME IInv, EndSink
  PROVE  IInv'
<1>1. ContentsOK /\ LoopOK /\ Size \in Nat
  BY Shape DEF IInv, TypeOK
<1>2. /\ pc = "down" /\ (Size <= 1 \/ Largest = at)
      /\ heap' = heap /\ value' = value /\ place' = place /\ decayed' = decayed
      /\ \/ /\ sweep \in 1 .. Size /\ pc' = "up" /\ at' = sweep /\ then' = "down"
            /\ sweep' = sweep + 1
         \/ pc' = "idle" /\ at' = 1 /\ then' = "idle" /\ sweep' = 0
  BY DEF EndSink, contents, Run, Stop
<1>3. Size' = Size /\ Held' = Held
  BY <1>2 DEF Size, Held
<1>4. TypeOK'
  <2>1. ContentsOK'
    BY <1>1, <1>2, <1>3 DEF ContentsOK
  <2>2. LoopOK'
    BY <1>1, <1>2 DEF LoopOK
  <2> QED BY <2>1, <2>2 DEF TypeOK
<1>5. Distinct' /\ IndexExact'
  BY <1>1, <1>2, <1>3 DEF IInv, Distinct, IndexExact
<1>6. Control' /\ LoopOrder'
  BY <1>1, <1>2 DEF IInv, Control, LoopOrder
<1>7. HeapOrder'
  <2> SUFFICES ASSUME ~decayed
               PROVE  \A i \in 2 .. Size : ~cmp_priority(Val(parent(i)), Val(i))
    BY <1>2, <1>3 DEF HeapOrder, Idle, Val
  <2>1. CASE Size <= 1
    BY <1>1, <2>1
  <2>2. CASE Size > 1
    <3>1. at \in 1 .. Size
      BY <1>1, <1>2, <2>2 DEF IInv, IndexExact, LoopOK
    <3>2. OrderedBelow(Vals, Size, at)
      BY <1>1, <1>2, <2>2, <3>1, LargestChild
    <3>3. OrderedExcept(Vals, Size, at, FALSE)
      BY <1>2 DEF IInv, LoopOrder
    <3> QED BY <1>1, <3>1, <3>2, <3>3, AllOrdered
  <2> QED BY <1>1, <2>1, <2>2
<1> QED BY <1>4, <1>5, <1>6, <1>7 DEF IInv
-----------------------------------------------------------------------------
(* The operations.  Between them the order holds on all values. *)
LEMMA IdleOrder ==
  ASSUME IInv, Idle, ~decayed
  PROVE  \A i \in 2 .. Size : Vals[i] <= Vals[parent(i)]
<1>1. Size \in Nat /\ \A i \in 1 .. Size : Vals[i] = Val(i) /\ Vals[i] \in Int
  BY Shape DEF IInv, TypeOK, Vals
<1>2. \A i \in 2 .. Size : i \in 1 .. Size /\ parent(i) \in 1 .. Size
  BY <1>1, Halves
<1> QED BY <1>1, <1>2 DEF IInv, HeapOrder, cmp_priority

(* The value of one id changes. *)
LEMMA Changed ==
  ASSUME IInv, Idle, NEW id \in Held, NEW v \in Values,
         value' = [value EXCEPT ![id] = v], heap' = heap, place' = place
  PROVE  /\ place[id] \in 1 .. Size /\ Size' = Size /\ Held' = Held
         /\ Vals[place[id]] = value[id]
         /\ Vals' = [Vals EXCEPT ![place[id]] = v]
         /\ ContentsOK' /\ Distinct'
         /\ \A i \in 1 .. Size' : place'[heap'[i]] = i
         /\ \A k \in Held' : \E i \in 1 .. Size' : heap'[i] = k
<1>1. ContentsOK /\ Size \in Nat /\ heap \in [1 .. Size -> Held]
  BY Shape DEF IInv, TypeOK
<1>2. Size' = Size /\ Held' = Held
  BY DEF Size, Held
<1>3. place[id] \in 1 .. Size /\ heap[place[id]] = id
  <2>1. PICK i \in 1 .. Size : heap[i] = id
    BY DEF IInv, IndexExact
  <2> QED BY <2>1 DEF IInv, IndexExact, Idle
<1>4. \A k \in Held : value'[k] = IF k = id THEN v ELSE value[k]
  BY DEF Held
<1>5. Vals = [i \in 1 .. Size |-> value[heap[i]]] /\ Vals' = [i \in 1 .. Size |-> value'[heap[i]]]
  BY <1>2 DEF Vals, Val
<1>6. \A i \in 1 .. Size : heap[i] = id <=> i = place[id]
  BY <1>3 DEF IInv, Distinct
<1>7. \A i \in 1 .. Size : value'[heap[i]] = IF i = place[id] THEN v ELSE Vals[i]
  BY <1>1, <1>4, <1>5, <1>6
<1>8. Vals' = [Vals EXCEPT ![place[id]] = v]
  BY <1>5, <1>7
<1>9. Vals[place[id]] = value[id]
  BY <1>3, <1>5
<1>10. ContentsOK'
  BY <1>1, <1>2, <1>4 DEF ContentsOK
<1>11. /\ Distinct'
       /\ \A i \in 1 .. Size' : place'[heap'[i]] = i
       /\ \A k \in Held' : \E i \in 1 .. Size' : heap'[i] = k
  BY <1>2 DEF IInv, Distinct, IndexExact, Idle
<1> QED BY <1>2, <1>3, <1>8, <1>9, <1>10, <1>11

(* push of an id the queue holds, and change_priority. *)
LEMMA ChangeKeepsIInv ==
  ASSUME IInv, Idle, NEW id \in Held, NEW v \in Values,
         value' = [value EXCEPT ![id] = v], heap' = heap, place' = place,
         Run("up", place[id], "down"), sweep' = sweep, decayed' = decayed
  PROVE  IInv'
<1>1. /\ place[id] \in 1 .. Size /\ Size' = Size /\ Held' = Held
      /\ Vals' = [Vals EXCEPT ![place[id]] = v]
      /\ ContentsOK' /\ Distinct'
      /\ \A i \in 1 .. Size' : place'[heap'[i]] = i
      /\ \A k \in Held' : \E i \in 1 .. Size' : heap'[i] = k
  BY Changed
<1>2. pc' = "up" /\ at' = place[id] /\ then' = "down"
  BY DEF Run
<1>3. LoopOK /\ Size \in Nat /\ Vals \in [1 .. Size -> Int]
  BY Shape DEF IInv, TypeOK
<1>4. TypeOK' /\ IndexExact' /\ Control' /\ HeapOrder'
  <2>1. LoopOK'
    BY <1>1, <1>2, <1>3 DEF LoopOK
  <2>2. IndexExact'
    BY <1>1, <1>2, <1>3 DEF IndexExact
  <2>3. Control' /\ HeapOrder'
    BY <1>2 DEF IInv, Control, HeapOrder, Idle
  <2> QED BY <1>1, <2>1, <2>2, <2>3 DEF TypeOK
<1>5. LoopOrder'
  <2> SUFFICES ASSUME ~decayed PROVE LoopOrder'
    BY DEF LoopOrder
  <2>1. v \in Int
    BY PriorityQueueAssumption
  <2>2. OrderedExcept(Vals', Size, place[id], TRUE)
    BY <1>1, <1>3, <2>1, IdleOrder, ChangeOrder
  <2> QED BY <1>1, <1>2, <2>2 DEF LoopOrder
<1> QED BY <1>1, <1>4, <1>5 DEF IInv

(* A change through get_mut or peek_mut. *)
LEMMA MutKeepsIInv ==
  ASSUME IInv, Idle, NEW id \in Held, NEW v \in Values,
         value' = [value EXCEPT ![id] = v], heap' = heap, place' = place,
         Run("down", place[id], "idle"), sweep' = sweep, decayed' \in BOOLEAN,
         ~decayed' => ~decayed /\ (v <= value[id] \/ place[id] = 1)
  PROVE  IInv'
<1>1. /\ place[id] \in 1 .. Size /\ Size' = Size /\ Held' = Held
      /\ Vals[place[id]] = value[id]
      /\ Vals' = [Vals EXCEPT ![place[id]] = v]
      /\ ContentsOK' /\ Distinct'
      /\ \A i \in 1 .. Size' : place'[heap'[i]] = i
      /\ \A k \in Held' : \E i \in 1 .. Size' : heap'[i] = k
  BY Changed
<1>2. pc' = "down" /\ at' = place[id] /\ then' = "idle"
  BY DEF Run
<1>3. LoopOK /\ Size \in Nat /\ Vals \in [1 .. Size -> Int]
  BY Shape DEF IInv, TypeOK
<1>4. TypeOK' /\ IndexExact' /\ Control' /\ HeapOrder'
  <2>1. LoopOK'
    BY <1>1, <1>2, <1>3 DEF LoopOK
  <2>2. IndexExact'
    BY <1>1, <1>2, <1>3 DEF IndexExact
  <2>3. HeapOrder'
    BY <1>2 DEF HeapOrder, Idle
  <2>4. Control'
    BY <1>2 DEF IInv, Control, Idle
  <2> QED BY <1>1, <2>1, <2>2, <2>3, <2>4 DEF TypeOK
<1>5. LoopOrder'
  <2> SUFFICES ASSUME ~decayed' PROVE LoopOrder'
    BY DEF LoopOrder
  <2>1. v \in Int
    BY PriorityQueueAssumption
  <2>2. OrderedExcept(Vals', Size, place[id], FALSE)
    BY <1>1, <1>3, <2>1, IdleOrder, ChangeOrder
  <2> QED BY <1>1, <1>2, <2>2 DEF LoopOrder
<1> QED BY <1>1, <1>4, <1>5 DEF IInv

(* push of a new id. *)
LEMMA InsertKeepsIInv ==
  ASSUME IInv, NEW id \in Ids, NEW v \in Values, id \notin Held, push(id, v)
  PROVE  IInv'
<1>1. /\ Idle /\ heap' = Append(heap, id)
      /\ value' = [k \in Held \cup {id} |-> IF k = id THEN v ELSE value[k]]
      /\ place' = [k \in Held \cup {id} |-> IF k = id THEN Size + 1 ELSE place[k]]
      /\ pc' = "up" /\ at' = Size + 1 /\ then' = "idle" /\ sweep' = sweep /\ decayed' = decayed
  BY DEF push, Run
<1>2. /\ ContentsOK /\ LoopOK /\ Size \in Nat /\ heap \in [1 .. Size -> Held]
      /\ Vals \in [1 .. Size -> Int]
  BY Shape DEF IInv, TypeOK
<1>3. Held' = Held \cup {id}
  BY <1>1 DEF Held
<1>4. Size' = Size + 1 /\ heap' \in Seq(Held')
  <2>1. heap \in Seq(Held') /\ id \in Held'
    BY <1>2, <1>3, SeqMonotonic DEF ContentsOK
  <2> QED BY <1>1, <2>1, AppendProperties DEF Size
<1>5. heap'[Size + 1] = id /\ \A i \in 1 .. Size : heap'[i] = heap[i]
  <2>1. heap \in Seq(Held)
    BY <1>2 DEF ContentsOK
  <2> QED BY <1>1, <2>1, AppendProperties DEF Size
<1>6. \A i \in 1 .. Size' : i \in 1 .. Size \/ i = Size + 1
  BY <1>2, <1>4
<1>7. TypeOK'
  <2>1. ContentsOK'
    BY <1>1, <1>2, <1>3, <1>4 DEF ContentsOK
  <2>2. LoopOK'
    BY <1>1, <1>2 DEF LoopOK
  <2> QED BY <2>1, <2>2 DEF TypeOK
<1>8. Distinct'
  <2> SUFFICES ASSUME NEW i \in 1 .. Size', NEW j \in 1 .. Size', heap'[i] = heap'[j]
               PROVE  i = j
    BY DEF Distinct
  <2>1. \A k \in 1 .. Size : heap'[k] # id
    BY <1>2, <1>5
  <2>2. CASE i \in 1 .. Size /\ j \in 1 .. Size
    BY <1>5, <2>2 DEF IInv, Distinct
  <2> QED BY <1>5, <1>6, <2>1, <2>2
<1>9. IndexExact'
  <2>1. ASSUME NEW i \in 1 .. Size', i # at' PROVE place'[heap'[i]] = i
    <3>1. i \in 1 .. Size /\ heap'[i] = heap[i] /\ heap[i] \in Held
      BY <1>1, <1>2, <1>5, <1>6, <2>1
    <3> QED BY <1>1, <3>1 DEF IInv, IndexExact, Idle
  <2>2. ASSUME NEW k \in Held' PROVE \E i \in 1 .. Size' : heap'[i] = k
    <3>1. CASE k = id
      BY <1>2, <1>4, <1>5, <3>1
    <3>2. CASE k \in Held
      <4>1. PICK i \in 1 .. Size : heap[i] = k
        BY <3>2 DEF IInv, IndexExact
      <4> QED BY <1>2, <1>4, <1>5, <4>1
    <3> QED BY <1>3, <3>1, <3>2
  <2>3. pc' = "up" /\ at' <= Size'
    BY <1>1, <1>2, <1>4
  <2> QED BY <2>1, <2>2, <2>3 DEF IndexExact
<1>10. Control' /\ HeapOrder'
  BY <1>1 DEF IInv, Control, HeapOrder, Idle
<1>11. LoopOrder'
  <2> SUFFICES ASSUME ~decayed PROVE LoopOrder'
    BY <1>1 DEF LoopOrder
  <2>1. \A i \in 1 .. Size : Vals'[i] = Vals[i]
    <3> SUFFICES ASSUME NEW i \in 1 .. Size PROVE Vals'[i] = Vals[i]
      OBVIOUS
    <3>1. i \in 1 .. Size' /\ heap'[i] = heap[i] /\ heap[i] \in Held
      BY <1>2, <1>4, <1>5
    <3>2. Vals'[i] = value'[heap'[i]] /\ Vals[i] = value[heap[i]]
      BY <3>1 DEF Vals, Val
    <3> QED BY <1>1, <3>1, <3>2
  <2>2. \A i \in 2 .. Size : Vals[i] <= Vals[parent(i)]
    BY <1>1, IdleOrder
  <2>3. \A i \in 2 .. Size + 1 : i = Size + 1 \/ (i \in 2 .. Size /\ parent(i) \in 1 .. Size)
    BY <1>2, Halves
  <2>4. \A i \in 2 .. Size + 1 : parent(i) # Size + 1
    BY <1>2, Halves
  <2>5. OrderedExcept(Vals', Size + 1, Size + 1, TRUE) /\ OrderedBelow(Vals', Size + 1, Size + 1)
    BY <1>2, <2>1, <2>2, <2>3, <2>4 DEF OrderedExcept, OrderedBelow
  <2> QED BY <1>1, <1>4, <2>5 DEF LoopOrder
<1> QED BY <1>7, <1>8, <1>9, <1>10, <1>11 DEF IInv

(* swap_remove: the last entry takes the place of the one removed. *)
LEMMA Removed ==
  ASSUME IInv, Idle, NEW i \in 1 .. Size, swap_remove(i)
  PROVE  /\ Size' = Size - 1 /\ Size' \in Nat
         /\ ContentsOK' /\ Distinct'
         /\ \A k \in 1 .. Size' : place'[heap'[k]] = k
         /\ \A id \in Held' : \E k \in 1 .. Size' : heap'[k] = id
         /\ Vals' = [k \in 1 .. Size - 1 |-> IF k = i THEN Vals[Size] ELSE Vals[k]]
<1> DEFINE kept == Held \ {heap[i]}
           h == [k \in 1 .. Size - 1 |-> IF k = i THEN heap[Size] ELSE heap[k]]
<1>1. ContentsOK /\ Size \in Nat /\ heap \in [1 .. Size -> Held] /\ Size - 1 \in Nat
  BY Shape DEF IInv, TypeOK
<1>2. heap' = h /\ value' = [k \in kept |-> value[k]]
  BY DEF swap_remove
<1>3. place' = [k \in kept |-> [place EXCEPT ![heap[Size]] = i][k]]
  BY DEF swap_remove, MovedPlaces
<1>4. \A j, k \in 1 .. Size : heap[j] = heap[k] => j = k
  BY DEF IInv, Distinct
<1>5. \A k \in 1 .. Size : place[heap[k]] = k
  BY DEF IInv, IndexExact, Idle
<1>6. Held' = kept
  BY <1>2 DEF Held
<1>7. \A k \in 1 .. Size - 1 :
         /\ h[k] = IF k = i THEN heap[Size] ELSE heap[k]
         /\ h[k] \in kept
  BY <1>1, <1>4
<1>8. h \in [1 .. Size - 1 -> kept]
  BY <1>7
<1>9. heap' \in Seq(Held') /\ Size' = Size - 1
  <2> HIDE DEF h, kept
  <2>1. Size - 1 \in Nat
    BY <1>1
  <2>2. h \in Seq(kept) /\ Len(h) = Size - 1
    BY <1>8, <2>1, Functions
  <2> QED BY <1>2, <1>6, <2>2 DEF Size
<1>10. \A id \in kept : place'[id] = IF id = heap[Size] THEN i ELSE place[id]
  BY <1>1, <1>3 DEF ContentsOK
<1>11. \A k \in 1 .. Size' : place'[heap'[k]] = k
  <2> SUFFICES ASSUME NEW k \in 1 .. Size - 1 PROVE place'[h[k]] = k
    BY <1>2, <1>9
  <2>1. k \in 1 .. Size /\ Size \in 1 .. Size /\ k # Size
    BY <1>1
  <2>2. CASE k = i
    BY <1>7, <1>10, <2>2
  <2>3. CASE k # i
    <3>1. h[k] = heap[k] /\ heap[k] # heap[Size] /\ place[heap[k]] = k /\ heap[k] \in kept
      BY <1>4, <1>5, <1>7, <2>1, <2>3
    <3> QED BY <1>10, <3>1
  <2> QED BY <2>2, <2>3
<1>12. \A id \in kept : \E k \in 1 .. Size - 1 : h[k] = id
  <2> SUFFICES ASSUME NEW id \in kept PROVE \E k \in 1 .. Size - 1 : h[k] = id
    OBVIOUS
  <2>1. PICK k \in 1 .. Size : heap[k] = id
    BY DEF IInv, IndexExact
  <2>2. k # i
    BY <2>1
  <2>3. CASE k = Size
    <3>1. i \in 1 .. Size - 1
      BY <1>1, <2>2, <2>3
    <3> QED BY <1>7, <2>1, <2>3, <3>1
  <2>4. CASE k # Size
    <3>1. k \in 1 .. Size - 1
      BY <1>1, <2>4
    <3> QED BY <1>7, <2>1, <2>2, <3>1
  <2> QED BY <2>3, <2>4
<1>13. Distinct'
  BY <1>11 DEF Distinct
<1>14. ContentsOK'
  <2>1. DOMAIN place' = Held' /\ Held' \subseteq Ids
    BY <1>1, <1>3, <1>6 DEF ContentsOK
  <2>2. \A id \in Held' : value'[id] \in Values
    BY <1>1, <1>2, <1>6 DEF ContentsOK
  <2>3. \A id \in Held' : place'[id] \in 1 .. Size'
    <3> SUFFICES ASSUME NEW id \in kept PROVE place'[id] \in 1 .. Size'
      BY <1>6
    <3>1. PICK k \in 1 .. Size - 1 : h[k] = id
      BY <1>12
    <3> QED BY <1>2, <1>9, <1>11, <3>1
  <2> QED BY <1>9, <2>1, <2>2, <2>3 DEF ContentsOK
<1>15. Vals' = [k \in 1 .. Size - 1 |-> IF k = i THEN Vals[Size] ELSE Vals[k]]
  <2>1. Vals' = [k \in 1 .. Size - 1 |-> value'[h[k]]]
    BY <1>2, <1>9 DEF Vals, Val
  <2>2. \A k \in 1 .. Size : Vals[k] = value[heap[k]]
    BY DEF Vals, Val
  <2>3. \A k \in 1 .. Size - 1 : value'[h[k]] = value[h[k]]
    BY <1>2, <1>7
  <2>4. \A k \in 1 .. Size - 1 : value'[h[k]] = IF k = i THEN Vals[Size] ELSE Vals[k]
    <3> SUFFICES ASSUME NEW k \in 1 .. Size - 1
                 PROVE  value[h[k]] = IF k = i THEN Vals[Size] ELSE Vals[k]
      BY <2>3
    <3>1. k \in 1 .. Size /\ Size \in 1 .. Size
      BY <1>1
    <3> QED BY <1>7, <2>2, <3>1
  <2> QED BY <2>1, <2>4
<1> QED BY <1>1, <1>2, <1>6, <1>9, <1>11, <1>12, <1>13, <1>14, <1>15

LEMMA RemovedOrder ==
  ASSUME IInv, Idle, ~decayed, NEW i \in 1 .. Size, swap_remove(i)
  PROVE  /\ i < Size => /\ OrderedExcept(Vals', Size - 1, i, TRUE)
                        /\ i = 1 => OrderedExcept(Vals', Size - 1, i, FALSE)
         /\ i = Size => \A k \in 2 .. Size - 1 : Vals'[k] <= Vals'[parent(k)]
<1> DEFINE m == Size - 1
           u == [k \in 1 .. m |-> Vals[k]]
<1>1. Size \in Nat /\ Vals \in [1 .. Size -> Int]
  BY Shape DEF IInv, TypeOK
<1>2. Vals' = [k \in 1 .. m |-> IF k = i THEN Vals[Size] ELSE Vals[k]]
  BY Removed
<1>3. m \in Nat /\ u \in [1 .. m -> Int] /\ Vals[Size] \in Int
  BY <1>1
<1>4. \A k \in 2 .. m : k \in 1 .. m /\ parent(k) \in 1 .. m /\ u[k] <= u[parent(k)]
  <2> SUFFICES ASSUME NEW k \in 2 .. m
               PROVE  k \in 1 .. m /\ parent(k) \in 1 .. m /\ u[k] <= u[parent(k)]
    OBVIOUS
  <2>1. k \in 2 .. Size /\ k \in 1 .. m /\ parent(k) \in 1 .. m
    BY <1>1, <1>3, Halves
  <2>2. Vals[k] <= Vals[parent(k)]
    BY <2>1, IdleOrder
  <2> QED BY <2>1, <2>2
<1>5. CASE i < Size
  <2>1. i \in 1 .. m
    BY <1>1, <1>5
  <2>2. Vals' = [u EXCEPT ![i] = Vals[Size]]
    BY <1>2, <2>1
  <2> HIDE DEF u, m
  <2>3. OrderedExcept(Vals', m, i, TRUE) /\ (i = 1 => OrderedExcept(Vals', m, i, FALSE))
    BY <1>3, <1>4, <2>1, <2>2, ChangeOrder
  <2>4. i # Size
    BY <1>1, <1>5
  <2> QED BY <2>3, <2>4 DEF m
<1>6. CASE i = Size
  <2>1. \A k \in 1 .. m : Vals'[k] = u[k]
    BY <1>1, <1>2, <1>6
  <2> HIDE DEF u
  <2>2. \A k \in 2 .. m : Vals'[k] <= Vals'[parent(k)]
    BY <1>4, <2>1
  <2>3. ~(i < Size)
    BY <1>1, <1>6
  <2> QED BY <2>2, <2>3
<1> QED BY <1>1, <1>5, <1>6

LEMMA PopKeepsIInv ==
  ASSUME IInv, pop
  PROVE  IInv'
<1>1. /\ Idle /\ Size > 0 /\ swap_remove(1) /\ pc' = "down" /\ at' = 1 /\ then' = "idle"
      /\ decayed' = (decayed /\ Size > 2) /\ sweep' = sweep
  BY DEF pop, Run
<1>2. LoopOK /\ Size \in Nat /\ 1 \in 1 .. Size
  BY <1>1, Shape DEF IInv, TypeOK
<1>3. /\ Size' = Size - 1 /\ Size' \in Nat /\ ContentsOK' /\ Distinct'
      /\ \A k \in 1 .. Size' : place'[heap'[k]] = k
      /\ \A id \in Held' : \E k \in 1 .. Size' : heap'[k] = id
  BY <1>1, <1>2, Removed
<1>4. LoopOK'
  BY <1>1, <1>2 DEF LoopOK
<1>5. IndexExact'
  BY <1>1, <1>3 DEF IndexExact
<1>6. HeapOrder'
  BY <1>1 DEF HeapOrder, Idle
<1>7. Control'
  BY <1>1 DEF IInv, Control, Idle
<1>8. LoopOrder'
  <2> SUFFICES ASSUME ~decayed' PROVE OrderedExcept(Vals', Size', 1, FALSE)
    BY <1>1 DEF LoopOrder
  <2>1. CASE Size <= 2
    BY <1>2, <1>3, <2>1 DEF OrderedExcept
  <2>2. CASE Size > 2
    <3>1. ~decayed
      BY <1>1, <2>2
    <3>2. 1 < Size
      BY <1>2, <2>2
    <3>3. OrderedExcept(Vals', Size - 1, 1, FALSE)
      BY <1>1, <1>2, <3>1, <3>2, RemovedOrder
    <3> QED BY <1>3, <3>3
  <2>3. Size <= 2 \/ Size > 2
    BY <1>2
  <2> QED BY <2>1, <2>2, <2>3
<1> QED BY <1>3, <1>4, <1>5, <1>6, <1>7, <1>8 DEF IInv, TypeOK

LEMMA RemoveKeepsIInv ==
  ASSUME IInv, NEW id \in Ids, remove(id)
  PROVE  IInv'
<1> DEFINE i == place[id]
<1>1. /\ Idle /\ id \in Held /\ swap_remove(i)
      /\ IF i < Size THEN pc' = "up" /\ at' = i /\ then' = "down"
                     ELSE pc' = "idle" /\ at' = 1 /\ then' = "idle"
      /\ decayed' = (decayed /\ Size > 2) /\ sweep' = sweep
  BY DEF remove, Run, Stop
<1>2. LoopOK /\ Size \in Nat /\ i \in 1 .. Size
  BY <1>1, Shape DEF IInv, TypeOK, ContentsOK
<1> HIDE DEF i
<1>3. /\ Size' = Size - 1 /\ Size' \in Nat /\ ContentsOK' /\ Distinct'
      /\ \A k \in 1 .. Size' : place'[heap'[k]] = k
      /\ \A k \in Held' : \E j \in 1 .. Size' : heap'[j] = k
  BY <1>1, <1>2, Removed
<1>4. LoopOK'
  BY <1>1, <1>2 DEF LoopOK
<1>5. IndexExact'
  <2>1. pc' # "idle" => at' <= Size'
    BY <1>1, <1>2, <1>3
  <2> QED BY <1>3, <2>1 DEF IndexExact
<1>6. Control'
  BY <1>1 DEF IInv, Control, Idle
<1>7. Size > 2 /\ ~decayed' => ~decayed
  BY <1>1
<1>8. LoopOrder'
  <2> SUFFICES ASSUME ~decayed', i < Size PROVE OrderedExcept(Vals', Size', i, TRUE)
    BY <1>1 DEF LoopOrder
  <2>1. CASE Size <= 2
    BY <1>2, <1>3, <2>1 DEF OrderedExcept
  <2>2. CASE Size > 2
    BY <1>1, <1>2, <1>3, <1>7, <2>2, RemovedOrder
  <2>3. Size <= 2 \/ Size > 2
    BY <1>2
  <2> QED BY <2>1, <2>2, <2>3
<1>9. HeapOrder'
  <2> SUFFICES ASSUME ~decayed', i = Size, Size > 2
               PROVE  \A k \in 2 .. Size' : ~cmp_priority(Val(parent(k))', Val(k)')
    <3>1. Size <= 2 => \A k \in 2 .. Size' : FALSE
      BY <1>2, <1>3
    <3>2. i < Size \/ i = Size
      BY <1>2
    <3> QED BY <1>1, <1>2, <3>1, <3>2 DEF HeapOrder, Idle, cmp_priority
  <2>1. \A k \in 2 .. Size - 1 : Vals'[k] <= Vals'[parent(k)]
    BY <1>1, <1>2, <1>7, RemovedOrder
  <2>2. \A k \in 1 .. Size' : Vals'[k] = Val(k)' /\ Vals'[k] \in Int
    <3>1. Vals' = [k \in 1 .. Size - 1 |-> IF k = i THEN Vals[Size] ELSE Vals[k]]
      BY <1>1, <1>2, Removed
    <3>2. Vals \in [1 .. Size -> Int]
      BY Shape DEF IInv, TypeOK
    <3>3. \A k \in 1 .. Size' : Vals'[k] \in Int
      BY <1>2, <1>3, <3>1, <3>2
    <3>4. \A k \in 1 .. Size' : Vals'[k] = Val(k)'
      BY DEF Vals
    <3> QED BY <3>3, <3>4
  <2>3. \A k \in 2 .. Size' : k \in 1 .. Size' /\ parent(k) \in 1 .. Size'
    BY <1>3, Halves
  <2> QED BY <1>3, <2>1, <2>2, <2>3 DEF cmp_priority
<1> QED BY <1>3, <1>4, <1>5, <1>6, <1>8, <1>9 DEF IInv, TypeOK

LEMMA MapKeepsIInv ==
  ASSUME IInv, NEW new \in [Held -> Values], map(new)
  PROVE  IInv'
<1>1. /\ Idle /\ Size > 0 /\ value' = new /\ heap' = heap /\ place' = place
      /\ pc' = "up" /\ at' = 1 /\ then' = "down" /\ sweep' = 2 /\ decayed' = TRUE
  BY DEF map, Run
<1>2. ContentsOK /\ LoopOK /\ Size \in Nat
  BY Shape DEF IInv, TypeOK
<1>3. Size' = Size /\ Held' = Held
  BY <1>1 DEF Size, Held
<1>4. ContentsOK' /\ LoopOK'
  BY <1>1, <1>2, <1>3 DEF ContentsOK, LoopOK
<1>5. Distinct' /\ IndexExact'
  BY <1>1, <1>2, <1>3 DEF IInv, Distinct, IndexExact, Idle
<1>6. Control' /\ HeapOrder' /\ LoopOrder'
  BY <1>1 DEF Control, HeapOrder, LoopOrder, Idle
<1> QED BY <1>4, <1>5, <1>6 DEF IInv, TypeOK

LEMMA EmptyIInv ==
  ASSUME heap = <<>>, value = [id \in {} |-> 0], place = [id \in {} |-> 0],
         pc = "idle", at = 1, then = "idle", sweep = 0, decayed = FALSE
  PROVE  IInv
<1>1. Size = 0 /\ Held = {}
  BY DEF Size, Held
<1>2. ContentsOK
  BY <1>1 DEF ContentsOK
<1>3. LoopOK
  <2>1. decayed \in BOOLEAN
    OBVIOUS
  <2>2. at \in Nat \ {0} /\ sweep \in Nat
    OBVIOUS
  <2> QED BY <2>1, <2>2 DEF LoopOK
<1>4. IndexExact /\ Distinct /\ Control /\ HeapOrder /\ LoopOrder
  BY <1>1 DEF IndexExact, Distinct, Control, HeapOrder, LoopOrder
<1> QED BY <1>2, <1>3, <1>4 DEF IInv, TypeOK

LEMMA InitIInv == Init => IInv
BY EmptyIInv DEF Init

LEMMA ClearKeepsIInv ==
  ASSUME IInv, clear
  PROVE  IInv'
<1>1. /\ heap' = <<>> /\ value' = [id \in {} |-> 0] /\ place' = [id \in {} |-> 0]
      /\ pc' = "idle" /\ at' = at /\ then' = "idle" /\ sweep' = 0 /\ decayed' = FALSE
  BY DEF clear, loop, IInv, Control, Idle
<1>2. Size' = 0 /\ Held' = {}
  BY <1>1 DEF Size, Held
<1>3. ContentsOK'
  BY <1>1, <1>2 DEF ContentsOK
<1>4. LoopOK'
  <2>1. decayed' \in BOOLEAN
    BY <1>1
  <2>2. at' \in Nat \ {0} /\ sweep' \in Nat
    BY <1>1 DEF IInv, TypeOK, LoopOK
  <2> QED BY <1>1, <2>1, <2>2 DEF LoopOK
<1>5. IndexExact' /\ Distinct' /\ Control' /\ HeapOrder' /\ LoopOrder'
  BY <1>1, <1>2 DEF IndexExact, Distinct, Control, HeapOrder, LoopOrder
<1> QED BY <1>3, <1>4, <1>5 DEF IInv, TypeOK

LEMMA NextIInv == IInv /\ [Next]_vars => IInv'
<1> SUFFICES ASSUME IInv, [Next]_vars PROVE IInv'
  OBVIOUS
<1>1. CASE Loop
  BY <1>1, RiseKeepsIInv, EndRiseKeepsIInv, SinkKeepsIInv, EndSinkKeepsIInv DEF Loop
<1>2. ASSUME NEW id \in Ids, NEW v \in Values, push(id, v) PROVE IInv'
  <2>1. CASE id \in Held
    BY <1>2, <2>1, ChangeKeepsIInv DEF push
  <2>2. CASE id \notin Held
    BY <1>2, <2>2, InsertKeepsIInv
  <2> QED BY <2>1, <2>2
<1>3. ASSUME NEW id \in Ids, NEW v \in Values, change_priority(id, v) PROVE IInv'
  BY <1>3, ChangeKeepsIInv DEF change_priority
<1>4. ASSUME NEW id \in Ids, NEW v \in Values, get_mut(id, v) PROVE IInv'
  <2>1. decayed' \in BOOLEAN
    BY <1>4 DEF get_mut
  <2>2. v \in Int /\ value[id] \in Int
    BY <1>4, Shape, PriorityQueueAssumption DEF get_mut, IInv, TypeOK
  <2>3. ~decayed' => ~decayed /\ v <= value[id]
    <3>1. ~decayed' => ~decayed /\ ~cmp_priority(value[id], v)
      BY <1>4, Zenon DEF get_mut
    <3> QED BY <2>2, <3>1 DEF cmp_priority
  <2> QED BY <1>4, <2>1, <2>3, MutKeepsIInv DEF get_mut
<1>5. ASSUME NEW id \in Ids, remove(id) PROVE IInv'
  BY <1>5, RemoveKeepsIInv
<1>6. ASSUME NEW v \in Values, peek_mut(v) PROVE IInv'
  <2>1. Idle /\ Size > 0 /\ Size \in Nat /\ heap \in [1 .. Size -> Held]
    BY <1>6, Shape DEF peek_mut, IInv, TypeOK
  <2>2. heap[1] \in Held /\ place[heap[1]] = 1
    BY <2>1 DEF IInv, IndexExact, Idle
  <2>3. decayed' \in BOOLEAN /\ (~decayed' => ~decayed)
    BY <1>6, Zenon DEF peek_mut, IInv, TypeOK, LoopOK
  <2>4. /\ value' = [value EXCEPT ![heap[1]] = v] /\ heap' = heap /\ place' = place
        /\ Run("down", place[heap[1]], "idle") /\ sweep' = sweep
    BY <1>6, <2>2 DEF peek_mut
  <2> QED BY <2>1, <2>2, <2>3, <2>4, MutKeepsIInv
<1>7. ASSUME NEW new \in [Held -> Values], map(new) PROVE IInv'
  BY <1>7, MapKeepsIInv
<1>8. CASE pop
  BY <1>8, PopKeepsIInv
<1>9. CASE clear
  BY <1>9, ClearKeepsIInv
<1>10. CASE UNCHANGED vars
  <2>1. /\ heap' = heap /\ value' = value /\ place' = place /\ pc' = pc /\ at' = at
        /\ then' = then /\ sweep' = sweep /\ decayed' = decayed
    BY <1>10 DEF vars, contents, loop
  <2>2. Size' = Size /\ Held' = Held /\ Vals' = Vals
    BY <2>1 DEF Size, Held, Vals, Val
  <2>3. ContentsOK' /\ LoopOK' /\ IndexExact' /\ Distinct' /\ Control' /\ LoopOrder'
    BY <2>1, <2>2 DEF IInv, TypeOK, ContentsOK, LoopOK, IndexExact, Distinct, Control, LoopOrder
  <2>4. HeapOrder'
    BY <2>1, <2>2 DEF IInv, HeapOrder, Idle, Val
  <2> QED BY <2>3, <2>4 DEF IInv, TypeOK
<1> QED BY <1>1, <1>2, <1>3, <1>4, <1>5, <1>6, <1>7, <1>8, <1>9, <1>10 DEF Next
-----------------------------------------------------------------------------
(* The inductive invariant holds in every state. *)
THEOREM Invariance == Spec => []IInv
BY InitIInv, NextIInv, PTL DEF Spec

(* The queue keeps its types. *)
THEOREM TypeCorrect == Spec => []TypeOK
<1>1. IInv => TypeOK
  BY DEF IInv
<1> QED BY <1>1, Invariance, PTL

(* The index of the queue is exact, whatever operations are used: every    *)
(* get_unchecked of the code is inside its vector.                         *)
THEOREM IndexKept == Spec => []IndexExact
<1>1. IInv => IndexExact
  BY DEF IInv
<1> QED BY <1>1, Invariance, PTL

(* The heap order holds between operations until a value is raised through *)
(* get_mut or map() is used.                                               *)
THEOREM OrderKept == Spec => []HeapOrder
<1>1. IInv => HeapOrder
  BY DEF IInv
<1> QED BY <1>1, Invariance, PTL

(* In an ordered heap no value is above the root's: the first position     *)
(* with a larger value would have a parent with one.                       *)
LEMMA RootFirst ==
  ASSUME NEW m \in Nat, NEW v \in [1 .. m -> Int],
         \A i \in 2 .. m : v[i] <= v[parent(i)]
  PROVE  \A i \in 1 .. m : v[i] <= v[1]
<1> DEFINE T == {i \in 1 .. m : v[1] < v[i]}
<1> SUFFICES ASSUME T # {} PROVE FALSE
  OBVIOUS
<1>1. PICK i \in T : \A j \in T : i <= j
  <2>1. T \subseteq Nat
    OBVIOUS
  <2> HIDE DEF T
  <2> QED BY <2>1, LeastNatural
<1>2. i \in 2 .. m /\ v[1] < v[i]
  BY <1>1
<1>3. parent(i) \in 1 .. m /\ parent(i) < i
  BY <1>2, Halves
<1>4. v[1] < v[parent(i)]
  BY <1>2, <1>3
<1> QED BY <1>1, <1>3, <1>4

(* While the order is kept, peek, peek_mut and pop yield an entry with a   *)
(* largest value, however many entries there are.                          *)
THEOREM RootIsLargest == Spec => []RootLargest
<1>1. ASSUME IInv PROVE RootLargest
  <2> SUFFICES ASSUME Idle, ~decayed, NEW id \in Held PROVE ~cmp_priority(Val(1), value[id])
    BY DEF RootLargest
  <2>1. ContentsOK
    BY <1>1 DEF IInv, TypeOK
  <2>2. \A i \in 2 .. Size : Vals[i] <= Vals[parent(i)]
    <3> SUFFICES ASSUME NEW i \in 2 .. Size PROVE Vals[i] <= Vals[parent(i)]
      OBVIOUS
    <3>1. parent(i) \in 1 .. Size /\ i \in 1 .. Size
      BY <2>1, Shape, Halves
    <3>2. ~cmp_priority(Val(parent(i)), Val(i))
      BY <1>1 DEF IInv, HeapOrder
    <3> QED BY <2>1, <3>1, <3>2, Shape DEF Vals, cmp_priority
  <2>3. \A i \in 1 .. Size : Vals[i] <= Vals[1]
    BY <2>1, <2>2, Shape, RootFirst
  <2>4. PICK i \in 1 .. Size : heap[i] = id
    BY <1>1 DEF IInv, IndexExact
  <2>5. 1 \in 1 .. Size
    BY <2>1, <2>4, Shape
  <2>6. Vals[i] = value[id] /\ Vals[1] = Val(1) /\ Vals[i] \in Int /\ Vals[1] \in Int
    BY <2>1, <2>4, <2>5, Shape DEF Vals, Val
  <2> QED BY <2>3, <2>4, <2>6 DEF cmp_priority
<1> QED BY <1>1, Invariance, PTL
=============================================================================
