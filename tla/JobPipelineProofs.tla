-------------------------- MODULE JobPipelineProofs --------------------------
(***************************************************************************)
(* Theorems about module JobPipeline for any number of taxies and          *)
(* passengers: the splitter covers every combination, the set of open      *)
(* tasks and the stored distances tell the same, and the reducer finds     *)
(* what it asks for.                                                       *)
(***************************************************************************)
EXTENDS JobPipeline, Basics, FunctionTheorems

-----------------------------------------------------------------------------
(* Powers of two. *)
LEMMA Pow2Values ==
  /\ Pow2 \in [Nat -> Nat]
  /\ Pow2[0] = 1
  /\ \A k \in Nat : k # 0 => Pow2[k] = 2 * Pow2[k - 1]
<1> DEFINE step == [k \in Nat |-> [x \in Nat |-> 2 * x]]
           IsPow2(g) == g = [k \in Nat |-> IF k = 0 THEN 1 ELSE 2 * g[k - 1]]
<1>1. PICK g \in [Nat -> Nat] : \A m \in Nat : Follows(g, 1, step, m)
  <2>1. step \in [Nat -> [Nat -> Nat]] /\ 1 \in Nat
    OBVIOUS
  <2> HIDE DEF step
  <2> QED BY <2>1, Recursion
<1>2. IsPow2(g)
  <2>1. ASSUME NEW k \in Nat PROVE g[k] = IF k = 0 THEN 1 ELSE 2 * g[k - 1]
    <3>1. CASE k = 0
      BY <1>1, <3>1 DEF Follows
    <3>2. CASE k # 0
      <4>1. k \in 1 .. k /\ k - 1 \in Nat
        BY <3>2
      <4>2. g[k] = step[k][g[k - 1]]
        BY <1>1, <4>1 DEF Follows
      <4> QED BY <3>2, <4>1, <4>2
    <3> QED BY <3>1, <3>2
  <2> QED BY <2>1
<1>3. Pow2 = CHOOSE h : IsPow2(h)
  BY DEF Pow2
<1>4. IsPow2(Pow2)
  <2> HIDE DEF IsPow2
  <2> QED BY <1>2, <1>3
<1>5. Pow2[0] = 1 /\ \A k \in Nat : k # 0 => Pow2[k] = 2 * Pow2[k - 1]
  BY <1>4
<1>6. Pow2 \in [Nat -> Nat]
  <2> DEFINE T == {k \in Nat : Pow2[k] \in Nat}
  <2>1. 0 \in T
    BY <1>5
  <2>2. ASSUME NEW k \in Nat, k \in T PROVE k + 1 \in T
    BY <1>5, <2>2
  <2>3. \A k \in Nat : k \in T
    <3> HIDE DEF T
    <3> QED BY <2>1, <2>2, EveryNatural
  <2>4. Pow2 = [k \in Nat |-> Pow2[k]]
    BY <1>4
  <2> QED BY <2>3, <2>4
<1> QED BY <1>5, <1>6

(* The numbers of taxies and passengers, and the place of the middle.      *)
LEMMA Sizes ==
  ASSUME instance \in Instances
  PROVE  /\ taxies \in Nat /\ passengers \in Nat
         /\ mid \in Nat /\ max \in Nat /\ mid <= max
         /\ passengers # 0 => max = 2 * mid - 1 /\ mid # 0
         /\ passengers = 0 => max = 0 /\ mid = 0
<1>1. taxies \in Nat /\ passengers \in Nat
  BY PipelineAssumption, FS_CardinalityType DEF taxies, passengers, Count
<1>2. CASE passengers = 0
  BY <1>1, <1>2, Pow2Values DEF max, mid
<1>3. CASE passengers # 0
  <2>1. Pow2[passengers - 1] \in Nat /\ Pow2[passengers] = 2 * Pow2[passengers - 1]
    BY <1>1, <1>3, Pow2Values
  <2>2. Pow2[passengers - 1] # 0
    <3> DEFINE T == {k \in Nat : Pow2[k] # 0}
    <3>1. 0 \in T
      BY Pow2Values
    <3>2. ASSUME NEW k \in Nat, k \in T PROVE k + 1 \in T
      BY <3>2, Pow2Values
    <3>3. \A k \in Nat : k \in T
      <4> HIDE DEF T
      <4> QED BY <3>1, <3>2, EveryNatural
    <3> QED BY <3>3, <1>1, <1>3
  <2> QED BY <1>1, <1>3, <2>1, <2>2 DEF max, mid
<1> QED BY <1>2, <1>3

-----------------------------------------------------------------------------
SplitIInv == instance \in Instances /\ SplitInv

LEMMA InitSplit == Init => SplitIInv
<1> SUFFICES ASSUME Init PROVE SplitIInv
  OBVIOUS
<1>1. instance \in Instances /\ n = 0 /\ cur_taxi = 0 /\ cur = mid /\ sent = {} /\ phase = "splitting"
  BY DEF Init
<1>2. Position
  BY <1>1, Sizes DEF Position
<1>3. Numbered
  BY <1>1 DEF Numbered
<1>4. Covered
  BY <1>1, Sizes DEF Covered, Made, Taxies
<1> QED BY <1>1, <1>2, <1>3, <1>4 DEF SplitIInv, SplitInv

(* A step that leaves the job, the splitter and its tasks alone.           *)
LEMMA SameSplit ==
  ASSUME SplitIInv, instance' = instance, n' = n, cur_taxi' = cur_taxi, cur' = cur, sent' = sent,
         phase' # "splitting" => cur_taxi = taxies
  PROVE  SplitIInv'
<1>1. taxies' = taxies /\ mid' = mid /\ max' = max /\ Taxies' = Taxies
  BY DEF taxies, mid, max, Taxies, passengers, Count
<1>2. Position' /\ Numbered'
  BY <1>1 DEF SplitIInv, SplitInv, Position, Numbered
<1>3. \A taxi, c : Made(taxi, c)' <=> Made(taxi, c)
  BY <1>1 DEF Made
<1>4. Covered'
  <2>1. Covered
    BY DEF SplitIInv, SplitInv
  <2>2. ASSUME NEW t \in sent
        PROVE  \E c \in mid .. max : Made(t.taxi, c)' /\ t.combinations = {c, max - c}
    BY <2>1, <1>3 DEF Covered
  <2>3. ASSUME NEW taxi \in Taxies, NEW c \in mid .. max, Made(taxi, c)'
        PROVE  \E t \in sent : t.taxi = taxi /\ t.combinations = {c, max - c}
    BY <2>1, <2>3, <1>3 DEF Covered
  <2>4. \A a, b \in sent : a.taxi = b.taxi /\ a.combinations = b.combinations => a = b
    BY <2>1 DEF Covered
  <2> QED BY <2>2, <2>3, <2>4, <1>1 DEF Covered
<1> QED BY <1>2, <1>4 DEF SplitIInv, SplitInv

LEMMA NextTaskSplit ==
  ASSUME SplitIInv, NextTask
  PROVE  SplitIInv'
<1> DEFINE task == [id |-> n, taxi |-> cur_taxi, combinations |-> {cur, max - cur}]
<1>1. /\ phase = "splitting" /\ cur_taxi < taxies /\ sent' = sent \cup {task} /\ n' = n + 1
      /\ cur_taxi' = (IF cur = max THEN cur_taxi + 1 ELSE cur_taxi)
      /\ cur' = (IF cur = max THEN mid ELSE cur + 1)
      /\ instance' = instance /\ phase' = phase
  BY DEF NextTask, AtMax
<1>2. taxies' = taxies /\ mid' = mid /\ max' = max /\ Taxies' = Taxies
  BY <1>1 DEF taxies, mid, max, Taxies, passengers, Count
<1>3. /\ taxies \in Nat /\ mid \in Nat /\ max \in Nat /\ mid <= max
      /\ cur_taxi \in Nat /\ cur \in mid .. max /\ cur_taxi \in Taxies
      /\ n = cur_taxi * (max - mid + 1) + (cur - mid)
  BY <1>1, Sizes DEF SplitIInv, SplitInv, Position, Taxies
<1>4. n \in Nat
  <2>1. cur_taxi * (max - mid + 1) \in Nat
    BY <1>3
  <2> QED BY <2>1, <1>3
<1>5. Position'
  <2>1. CASE cur = max
    <3>1. cur_taxi' = cur_taxi + 1 /\ cur' = mid
      BY <1>1, <2>1
    <3>2. n' = (cur_taxi + 1) * (max - mid + 1)
      BY <1>1, <1>3, <2>1
    <3> QED BY <3>1, <3>2, <1>1, <1>2, <1>3 DEF Position
  <2>2. CASE cur # max
    <3>1. cur_taxi' = cur_taxi /\ cur' = cur + 1
      BY <1>1, <2>2
    <3>2. n' = cur_taxi * (max - mid + 1) + (cur + 1 - mid)
      BY <1>1, <1>3, <2>2
    <3> QED BY <3>1, <3>2, <1>1, <1>2, <1>3, <2>2 DEF Position
  <2> QED BY <2>1, <2>2
<1>6. task.id = n /\ task.taxi = cur_taxi /\ task.combinations = {cur, max - cur}
  OBVIOUS
<1> HIDE DEF task
<1>7. Numbered'
  <2>1. Numbered
    BY DEF SplitIInv, SplitInv
  <2>2. \A t \in sent' : t.id \in 0 .. n' - 1
    BY <2>1, <1>1, <1>4, <1>6 DEF Numbered
  <2>3. ASSUME NEW id \in 0 .. n' - 1 PROVE \E t \in sent' : t.id = id
    <3>1. CASE id = n
      BY <3>1, <1>1, <1>6
    <3>2. CASE id # n
      BY <3>2, <2>1, <1>1, <1>4 DEF Numbered
    <3> QED BY <3>1, <3>2
  <2>4. ASSUME NEW a \in sent', NEW b \in sent', a.id = b.id PROVE a = b
    BY <2>1, <2>4, <1>1, <1>4, <1>6 DEF Numbered
  <2> QED BY <2>2, <2>3, <2>4 DEF Numbered
<1>8. \A taxi, c : Made(taxi, c)' <=> (Made(taxi, c) \/ (taxi = cur_taxi /\ c = cur))
  <2> SUFFICES ASSUME NEW taxi, NEW c
               PROVE  Made(taxi, c)' <=> (Made(taxi, c) \/ (taxi = cur_taxi /\ c = cur))
    OBVIOUS
  <2>1. CASE taxi \in Taxies /\ c \in mid .. max
    <3>1. taxi \in Int /\ c \in Int /\ c <= max
      BY <2>1, <1>3 DEF Taxies
    <3>2. CASE cur = max
      BY <2>1, <3>1, <3>2, <1>1, <1>2, <1>3 DEF Made
    <3>3. CASE cur # max
      BY <2>1, <3>1, <3>3, <1>1, <1>2, <1>3 DEF Made
    <3> QED BY <3>2, <3>3
  <2>2. CASE ~(taxi \in Taxies /\ c \in mid .. max)
    BY <2>2, <1>2, <1>3 DEF Made
  <2> QED BY <2>1, <2>2
<1>9. Covered'
  <2>1. Covered
    BY DEF SplitIInv, SplitInv
  <2>2. ~Made(cur_taxi, cur)
    BY <1>3 DEF Made
  <2>3. ASSUME NEW t \in sent'
        PROVE  \E c \in mid .. max : Made(t.taxi, c)' /\ t.combinations = {c, max - c}
    <3>1. CASE t = task
      BY <3>1, <1>3, <1>6, <1>8
    <3>2. CASE t # task
      BY <3>2, <2>1, <1>1, <1>8 DEF Covered
    <3> QED BY <3>1, <3>2
  <2>4. ASSUME NEW taxi \in Taxies, NEW c \in mid .. max, Made(taxi, c)'
        PROVE  \E t \in sent' : t.taxi = taxi /\ t.combinations = {c, max - c}
    <3>1. CASE Made(taxi, c)
      BY SMTT(30), <3>1, <2>1, <1>1 DEF Covered
    <3>2. CASE taxi = cur_taxi /\ c = cur
      BY <3>2, <1>1, <1>6
    <3> QED BY <3>1, <3>2, <2>4, <1>8
  <2>5. ASSUME NEW t \in sent, t.taxi = cur_taxi, t.combinations = {cur, max - cur} PROVE FALSE
    <3>1. PICK c \in mid .. max : Made(t.taxi, c) /\ t.combinations = {c, max - c}
      BY <2>1 DEF Covered
    <3>2. c = cur
      <4>1. c \in Int /\ cur \in Int /\ mid <= c /\ mid <= cur /\ max - c \in Int /\ max - cur \in Int
        BY <1>3
      <4>2. c = cur \/ (c = max - cur /\ cur = max - c)
        BY <3>1, <2>5
      <4>3. max <= 2 * mid
        BY Sizes DEF SplitIInv
      <4> QED BY <4>1, <4>2, <4>3, <1>3
    <3> QED BY <3>1, <3>2, <2>2, <2>5
  <2>6. ASSUME NEW a \in sent', NEW b \in sent', a.taxi = b.taxi, a.combinations = b.combinations
        PROVE  a = b
    <3>1. CASE a \in sent /\ b \in sent
      BY <3>1, <2>1, <2>6 DEF Covered
    <3>2. CASE a = task \/ b = task
      BY <3>2, <2>5, <2>6, <1>1, <1>6
    <3> QED BY <3>1, <3>2, <1>1
  <2> QED BY <2>3, <2>4, <2>6, <1>2 DEF Covered
<1> QED BY <1>1, <1>5, <1>7, <1>9 DEF SplitIInv, SplitInv

LEMMA SplitStep ==
  ASSUME SplitIInv, [Next]_vars
  PROVE  SplitIInv'
<1>1. phase # "splitting" => cur_taxi = taxies
  BY DEF SplitIInv, SplitInv, Position
<1>2. CASE NextTask
  BY <1>2, NextTaskSplit
<1>3. CASE SplitterExhausted
  BY <1>3, SameSplit DEF SplitterExhausted, splitter
<1>4. ASSUME NEW task \in sent, process_result(task) PROVE SplitIInv'
  BY <1>1, <1>4, SameSplit DEF process_result, splitter
<1>5. CASE StartReducing
  BY <1>1, <1>5, SameSplit DEF StartReducing, splitter
<1>6. CASE Reduce
  BY <1>1, <1>6, SameSplit DEF Reduce, splitter
<1>7. CASE ReducerExhausted
  BY <1>1, <1>7, SameSplit DEF ReducerExhausted, splitter
<1>8. CASE UNCHANGED vars
  BY <1>1, <1>8, SameSplit DEF vars, splitter
<1> QED BY <1>2, <1>3, <1>4, <1>5, <1>6, <1>7, <1>8 DEF Next

(* The place of the splitter and the tasks it has made (TaskSplitter::next)*)
(* at every moment of the job: numbered without gaps, a task for each      *)
(* combination before the place and its complement, and no other.          *)
THEOREM SplitterInvariant == Spec => []SplitInv
<1>1. SplitIInv /\ [Next]_vars => SplitIInv'
  BY SplitStep
<1>2. SplitIInv => SplitInv
  BY DEF SplitIInv
<1> QED BY InitSplit, <1>1, <1>2, PTL DEF Spec

(* As many tasks as numbers. *)
LEMMA SentCount ==
  ASSUME Numbered, n \in Nat
  PROVE  Cardinality(sent) = n
<1> DEFINE f == [task \in sent |-> task.id]
<1>1. f \in [sent -> 0 .. n - 1]
  BY DEF Numbered
<1>2. \A a, b \in sent : f[a] = f[b] => a = b
  BY DEF Numbered
<1>3. \A id \in 0 .. n - 1 : \E task \in sent : f[task] = id
  BY DEF Numbered
<1>4. f \in Bijection(sent, 0 .. n - 1)
  BY <1>1, <1>2, <1>3 DEF Bijection, Injection, Surjection, IsInjective
<1>5. IsFiniteSet(0 .. n - 1) /\ Cardinality(0 .. n - 1) = n
  BY FS_Interval
<1>6. ExistsBijection(0 .. n - 1, sent)
  BY <1>4, Fun_ExistsBijSymmetric DEF ExistsBijection
<1> QED BY <1>5, <1>6, FS_Bijection

(* Of the tasks made when all are made, one has the combination c of a     *)
(* taxi, as its own or as the complement.                                  *)
LEMMA OneTask ==
  ASSUME SplitIInv, cur_taxi = taxies, passengers # 0,
         NEW taxi \in Taxies, NEW c \in 0 .. max
  PROVE  Cardinality({task \in sent : task.taxi = taxi /\ c \in task.combinations}) = 1
<1> DEFINE S == {task \in sent : task.taxi = taxi /\ c \in task.combinations}
<1>1. mid \in Nat /\ max = 2 * mid - 1 /\ taxies \in Nat /\ Covered
  BY Sizes DEF SplitIInv, SplitInv
<1>2. \A d \in mid .. max : Made(taxi, d)
  BY <1>1 DEF Made, Taxies
<1>3. PICK d \in mid .. max : c \in {d, max - d}
  <2>1. CASE c >= mid
    BY <2>1, <1>1
  <2>2. CASE ~(c >= mid)
    <3>1. max - c \in mid .. max /\ c = max - (max - c)
      BY <2>2, <1>1
    <3> QED BY <3>1
  <2> QED BY <2>1, <2>2
<1>4. PICK task \in sent : task.taxi = taxi /\ task.combinations = {d, max - d}
  BY <1>1, <1>2 DEF Covered
<1>5. ASSUME NEW t \in sent, t.taxi = taxi, c \in t.combinations PROVE t = task
  <2>1. PICK e \in mid .. max : t.combinations = {e, max - e}
    BY <1>1 DEF Covered
  <2>2. e = d
    <3>1. e \in Int /\ d \in Int /\ mid <= e /\ mid <= d /\ c \in Int
      BY <1>1
    <3>2. (c = e \/ c = max - e) /\ (c = d \/ c = max - d)
      BY <1>3, <1>5, <2>1
    <3> QED BY <1>1, <3>1, <3>2
  <2>3. t.taxi = task.taxi /\ t.combinations = task.combinations
    BY <1>4, <1>5, <2>1, <2>2
  <2> QED BY <1>1, <2>3 DEF Covered
<1>6. S = {task}
  BY <1>3, <1>4, <1>5
<1> QED BY <1>6, FS_Singleton

(* The splitter covers every combination of every taxi once and announces  *)
(* as many tasks as it makes (TaskSplitter::total_tasks), for any number   *)
(* of taxies and any number of passengers but 0.                           *)
THEOREM SplitterCovers == Spec => [](passengers # 0 => TasksCover)
<1>1. ASSUME SplitIInv, passengers # 0, phase # "splitting"
      PROVE  /\ {task.id : task \in sent} = 0 .. total_tasks - 1
             /\ Cardinality(sent) = total_tasks
             /\ \A taxi \in Taxies, c \in 0 .. max :
                  Cardinality({task \in sent : task.taxi = taxi /\ c \in task.combinations}) = 1
  <2>1. /\ mid \in Nat /\ max = 2 * mid - 1 /\ taxies \in Nat /\ passengers \in Nat
        /\ cur_taxi = taxies /\ cur = mid /\ n = cur_taxi * (max - mid + 1) + (cur - mid)
        /\ Numbered
    BY <1>1, Sizes DEF SplitIInv, SplitInv, Position
  <2>2. n = total_tasks /\ n \in Nat
    BY <2>1 DEF total_tasks
  <2>3. \A id : id \in {task.id : task \in sent} <=> id \in 0 .. n - 1
    BY <2>1 DEF Numbered
  <2>4. Cardinality(sent) = n
    BY <2>1, <2>2, SentCount
  <2> QED BY <1>1, <2>1, <2>2, <2>3, <2>4, OneTask
<1>2. SplitIInv => (passengers # 0 => TasksCover)
  BY <1>1 DEF TasksCover
<1>3. SplitIInv /\ [Next]_vars => SplitIInv'
  BY SplitStep
<1> QED BY InitSplit, <1>2, <1>3, PTL DEF Spec

(* Without passengers the splitter announces no task and yet makes one for *)
(* each taxi: comb is 1, so max and mid are both 0.                        *)
THEOREM NothingAnnounced ==
  Spec => [](passengers = 0 /\ phase # "splitting" => total_tasks = 0 /\ Cardinality(sent) = taxies)
<1>1. SplitIInv => (passengers = 0 /\ phase # "splitting" => total_tasks = 0 /\ Cardinality(sent) = taxies)
  <2> SUFFICES ASSUME SplitIInv, passengers = 0, phase # "splitting"
               PROVE  total_tasks = 0 /\ Cardinality(sent) = taxies
    OBVIOUS
  <2>1. /\ mid = 0 /\ max = 0 /\ taxies \in Nat /\ cur_taxi = taxies /\ cur = mid
        /\ n = cur_taxi * (max - mid + 1) + (cur - mid) /\ Numbered
    BY Sizes DEF SplitIInv, SplitInv, Position
  <2>2. n = taxies /\ total_tasks = 0
    BY <2>1 DEF total_tasks
  <2> QED BY <2>1, <2>2, SentCount
<1>2. SplitIInv /\ [Next]_vars => SplitIInv'
  BY SplitStep
<1> QED BY InitSplit, <1>1, <1>2, PTL DEF Spec
-----------------------------------------------------------------------------
(* Division and remainder. *)
LEMMA DivMod ==
  ASSUME NEW a \in Nat, NEW b \in Nat \ {0}
  PROVE  /\ a \div b \in Nat /\ a % b \in 0 .. b - 1
         /\ a = b * (a \div b) + (a % b)
OBVIOUS

LEMMA DivModUnique ==
  ASSUME NEW b \in Nat \ {0}, NEW q \in Nat, NEW r \in 0 .. b - 1, NEW a \in Nat, a = b * q + r
  PROVE  a \div b = q /\ a % b = r
<1> DEFINE p == a \div b
           s == a % b
<1>1. p \in Nat /\ s \in 0 .. b - 1 /\ a = b * p + s
  BY DivMod
<1> HIDE DEF p, s
<1>2. p = q
  <2>1. CASE p < q
    <3>1. b * q >= b * (p + 1)
      BY <2>1, <1>1
    <3> QED BY <1>1, <2>1, <3>1
  <2>2. CASE q < p
    <3>1. b * p >= b * (q + 1)
      BY <1>1, <2>2
    <3> QED BY <1>1, <2>2, <3>1
  <2> QED BY <1>1, <2>1, <2>2
<1>3. s = r
  BY <1>1, <1>2
<1> QED BY <1>2, <1>3 DEF p, s

(* A quotient by a product is a quotient of a quotient. *)
LEMMA DivTwice ==
  ASSUME NEW a \in Nat, NEW m \in Nat \ {0}
  PROVE  (a \div 2) \div m = a \div (2 * m)
<1> DEFINE h == a \div 2
           q == h \div m
           r == h % m
           b == a % 2
<1>1. h \in Nat /\ b \in 0 .. 1 /\ a = 2 * h + b
  BY DivMod
<1>2. q \in Nat /\ r \in 0 .. m - 1 /\ h = m * q + r
  BY <1>1, DivMod
<1> HIDE DEF h, q, r, b
<1>3. 2 * m \in Nat \ {0} /\ 2 * r + b \in 0 .. 2 * m - 1
  BY <1>1, <1>2
<1>4. a = (2 * m) * q + (2 * r + b)
  <2>1. m * q \in Nat /\ 2 * (m * q) = (2 * m) * q
    BY <1>2
  <2> QED BY <1>1, <1>2, <2>1
<1>5. a \div (2 * m) = q
  BY <1>2, <1>3, <1>4, DivModUnique
<1> QED BY <1>5 DEF q, h

-----------------------------------------------------------------------------
(* The bits of numbers. *)
One(c, p) == (c \div Pow2[p]) % 2 = 1

LEMMA Pow2Positive == \A k \in Nat : Pow2[k] \in Nat \ {0}
<1> DEFINE T == {k \in Nat : Pow2[k] # 0}
<1>1. 0 \in T
  BY Pow2Values
<1>2. ASSUME NEW k \in Nat, k \in T PROVE k + 1 \in T
  BY <1>2, Pow2Values
<1>3. \A k \in Nat : k \in T
  <2> HIDE DEF T
  <2> QED BY <1>1, <1>2, EveryNatural
<1> QED BY <1>3, Pow2Values

LEMMA FirstBit ==
  ASSUME NEW c \in Nat
  PROVE  One(c, 0) <=> c % 2 = 1
<1>1. c \div 1 = c
  OBVIOUS
<1> QED BY <1>1, Pow2Values DEF One

LEMMA NextBit ==
  ASSUME NEW c \in Nat, NEW p \in Nat
  PROVE  One(c, p + 1) <=> One(c \div 2, p)
<1>1. Pow2[p + 1] = 2 * Pow2[p] /\ Pow2[p] \in Nat \ {0}
  BY Pow2Values, Pow2Positive
<1>2. c \div Pow2[p + 1] = (c \div 2) \div Pow2[p]
  BY <1>1, DivTwice
<1> QED BY <1>2 DEF One

(* Numbers below a power of two are told apart by their bits. *)
LEMMA BitsTellApart ==
  ASSUME NEW k \in Nat, NEW c \in 0 .. Pow2[k] - 1, NEW d \in 0 .. Pow2[k] - 1,
         \A p \in 0 .. k - 1 : One(c, p) <=> One(d, p)
  PROVE  c = d
<1> DEFINE Apart(j, x, y) == (\A p \in 0 .. j - 1 : One(x, p) <=> One(y, p)) => x = y
           T == {j \in Nat : \A x, y \in 0 .. Pow2[j] - 1 : Apart(j, x, y)}
<1>1. 0 \in T
  BY Pow2Values
<1>2. ASSUME NEW j \in Nat, j \in T PROVE j + 1 \in T
  <2> SUFFICES ASSUME NEW x \in 0 .. Pow2[j + 1] - 1, NEW y \in 0 .. Pow2[j + 1] - 1,
                      \A p \in 0 .. (j + 1) - 1 : One(x, p) <=> One(y, p)
               PROVE  x = y
    OBVIOUS
  <2>1. Pow2[j + 1] = 2 * Pow2[j] /\ Pow2[j] \in Nat
    BY Pow2Values
  <2>2. /\ x \in Nat /\ x \div 2 \in 0 .. Pow2[j] - 1 /\ x = 2 * (x \div 2) + (x % 2) /\ x % 2 \in 0 .. 1
        /\ y \in Nat /\ y \div 2 \in 0 .. Pow2[j] - 1 /\ y = 2 * (y \div 2) + (y % 2) /\ y % 2 \in 0 .. 1
    BY <2>1
  <2>3. x % 2 = y % 2
    <3>1. One(x, 0) <=> One(y, 0)
      OBVIOUS
    <3> QED BY <3>1, <2>2, FirstBit
  <2>4. ASSUME NEW p \in 0 .. j - 1 PROVE One(x \div 2, p) <=> One(y \div 2, p)
    <3>1. p \in Nat /\ p + 1 \in 0 .. (j + 1) - 1
      OBVIOUS
    <3>2. One(x, p + 1) <=> One(y, p + 1)
      BY <3>1
    <3> QED BY <3>1, <3>2, <2>2, NextBit
  <2>5. Apart(j, x \div 2, y \div 2)
    BY <1>2, <2>2
  <2>6. x \div 2 = y \div 2
    BY <2>4, <2>5
  <2> QED BY <2>2, <2>3, <2>6
<1>3. k \in T
  <2> HIDE DEF T
  <2> QED BY <1>1, <1>2, EveryNatural
<1> QED BY <1>3

(* Every set of bits is that of a number. *)
LEMMA BitsOfSet ==
  ASSUME NEW k \in Nat, NEW S \in SUBSET (0 .. k - 1)
  PROVE  \E c \in 0 .. Pow2[k] - 1 : \A p \in 0 .. k - 1 : One(c, p) <=> p \in S
<1> DEFINE Has(j, R) == \E c \in 0 .. Pow2[j] - 1 : \A p \in 0 .. j - 1 : One(c, p) <=> p \in R
           T == {j \in Nat : \A R \in SUBSET (0 .. j - 1) : Has(j, R)}
<1>1. 0 \in T
  BY Pow2Values
<1>2. ASSUME NEW j \in Nat, j \in T PROVE j + 1 \in T
  <2> SUFFICES ASSUME NEW R \in SUBSET (0 .. (j + 1) - 1) PROVE Has(j + 1, R)
    OBVIOUS
  <2> DEFINE Q == {p \in 0 .. j - 1 : p + 1 \in R}
             b == IF 0 \in R THEN 1 ELSE 0
  <2>1. Q \in SUBSET (0 .. j - 1)
    OBVIOUS
  <2>2. PICK d \in 0 .. Pow2[j] - 1 : \A p \in 0 .. j - 1 : One(d, p) <=> p \in Q
    BY <1>2, <2>1
  <2>3. Pow2[j + 1] = 2 * Pow2[j] /\ Pow2[j] \in Nat
    BY Pow2Values
  <2> DEFINE c == 2 * d + b
  <2>4. c \in Nat /\ c \in 0 .. Pow2[j + 1] - 1 /\ c \div 2 = d /\ (c % 2 = 1 <=> 0 \in R)
    BY <2>3
  <2> HIDE DEF c
  <2>5. ASSUME NEW p \in 0 .. (j + 1) - 1 PROVE One(c, p) <=> p \in R
    <3>1. CASE p = 0
      BY <3>1, <2>4, FirstBit
    <3>2. CASE p # 0
      <4>1. p - 1 \in Nat /\ p - 1 \in 0 .. j - 1 /\ (p - 1) + 1 = p
        BY <3>2
      <4>2. One(c, (p - 1) + 1) <=> One(d, p - 1)
        BY ONLY <4>1, <2>4, NextBit
      <4>3. One(d, p - 1) <=> p - 1 \in Q
        BY <4>1, <2>2
      <4>4. p - 1 \in Q <=> p \in R
        BY <4>1
      <4> QED BY <4>1, <4>2, <4>3, <4>4
    <3> QED BY <3>1, <3>2
  <2> QED BY <2>4, <2>5
<1>3. k \in T
  <2> HIDE DEF T
  <2> QED BY <1>1, <1>2, EveryNatural
<1> QED BY <1>3

-----------------------------------------------------------------------------
(* The words of a set of bits.                                             *)
LEMMA PlaceOf ==
  ASSUME NEW w \in Nat \ {0}, NEW b \in Nat, NEW i \in 0 .. w * b - 1
  PROVE  \E k \in 1 .. b : i \in w * (k - 1) .. w * k - 1
<1> DEFINE q == i \div w
<1>1. q \in Nat /\ i % w \in 0 .. w - 1 /\ i = w * q + (i % w) /\ i \in Nat
  <2>1. i \in Nat
    OBVIOUS
  <2> QED BY <2>1, DivMod
<1> HIDE DEF q
<1>2. q < b
  <2> SUFFICES ASSUME b <= q PROVE FALSE
    BY <1>1
  <2>1. w * b <= w * q
    BY <1>1
  <2>2. w * b \in Nat /\ w * q \in Nat
    BY <1>1
  <2> QED BY <1>1, <2>1, <2>2
<1>3. q + 1 \in 1 .. b /\ (q + 1) - 1 = q /\ w * (q + 1) = w * q + w /\ w * q \in Nat
  BY <1>1, <1>2
<1>4. i \in w * ((q + 1) - 1) .. w * (q + 1) - 1
  BY <1>1, <1>3
<1> QED BY <1>3, <1>4

LEMMA WordsApart ==
  ASSUME NEW w \in Nat \ {0}, NEW b \in Nat, NEW l \in Nat, b <= l,
         NEW S \in SUBSET (0 .. w * b - 1), NEW R \in SUBSET (0 .. w * b - 1),
         TaskSet!Words(S, w, l) = TaskSet!Words(R, w, l)
  PROVE  S = R
<1> DEFINE In(Q, k) == {i - w * (k - 1) : i \in Q \cap (w * (k - 1) .. w * k - 1)}
<1>1. ASSUME NEW k \in 1 .. b PROVE In(S, k) = In(R, k)
  <2>1. k \in 1 .. l
    OBVIOUS
  <2>2. TaskSet!Words(S, w, l)[k] = In(S, k) /\ TaskSet!Words(R, w, l)[k] = In(R, k)
    BY <2>1 DEF TaskSet!Words
  <2> QED BY <2>2
<1>2. ASSUME NEW Q \in SUBSET (0 .. w * b - 1), NEW k \in 1 .. b, NEW i \in w * (k - 1) .. w * k - 1
      PROVE  i \in Q <=> i - w * (k - 1) \in In(Q, k)
  <2>1. w * (k - 1) \in Int /\ i \in Int
    OBVIOUS
  <2>2. ASSUME NEW j \in Q, i - w * (k - 1) = j - w * (k - 1) PROVE i = j
    <3>1. j \in Int
      OBVIOUS
    <3> QED BY <2>1, <2>2, <3>1
  <2> QED BY <2>1, <2>2
<1>3. ASSUME NEW i \in 0 .. w * b - 1 PROVE i \in S <=> i \in R
  <2>1. PICK k \in 1 .. b : i \in w * (k - 1) .. w * k - 1
    BY PlaceOf
  <2> HIDE DEF In
  <2> QED BY <1>1, <1>2, <2>1
<1> QED BY <1>3

(* The words that lead to the value of a set of bits, in a map with room   *)
(* for them, do not depend on how many words are given.                    *)
LEMMA AlongWords ==
  ASSUME NEW w \in Nat \ {0}, NEW b \in Nat, NEW S \in SUBSET (0 .. w * b - 1),
         NEW m, m.levels \in Nat, b <= m.levels
  PROVE  Parts!Along(m, TaskSet!Words(S, w, b)) = TaskSet!Words(S, w, m.levels)
<1> DEFINE l == m.levels
           words == TaskSet!Words(S, w, b)
           In(k) == {i - w * (k - 1) : i \in S \cap (w * (k - 1) .. w * k - 1)}
<1>1. words = [k \in 1 .. b |-> In(k)]
  BY DEF TaskSet!Words
<1>2. Len(words) = b
  <2> HIDE DEF In
  <2> QED BY <1>1
<1>3. ASSUME NEW k \in 1 .. l, ~(k <= b) PROVE In(k) = {}
  <2> SUFFICES ASSUME NEW i \in S, i \in w * (k - 1) .. w * k - 1 PROVE FALSE
    OBVIOUS
  <2>1. b <= k - 1 /\ k - 1 \in Nat
    BY <1>3
  <2>2. w * b <= w * (k - 1) /\ w * b \in Nat /\ w * (k - 1) \in Nat
    BY <2>1
  <2> QED BY <2>2
<1>4. ASSUME NEW k \in 1 .. l PROVE (IF k <= Len(words) THEN words[k] ELSE {}) = In(k)
  <2>1. CASE k <= b
    <3>1. k \in 1 .. b
      BY <2>1
    <3> HIDE DEF In
    <3> QED BY <1>1, <1>2, <2>1, <3>1
  <2>2. CASE ~(k <= b)
    BY <1>2, <1>3, <2>2
  <2> QED BY <2>1, <2>2
<1>5. TaskSet!Words(S, w, l) = [k \in 1 .. l |-> In(k)]
  BY DEF TaskSet!Words
<1>6. Parts!Along(m, words) = [k \in 1 .. l |-> IF k <= Len(words) THEN words[k] ELSE {}]
  BY DEF Parts!Along
<1> HIDE DEF In, words, l
<1> QED BY <1>4, <1>5, <1>6 DEF l, words

-----------------------------------------------------------------------------
(* The set of numbers in words. *)
TaskSets(w) == [len : Nat, inner : Seq(SUBSET (0 .. w - 1))]
MembersOf(s, w) == {i \in Nat : TaskSet!contains(s, w, i)}

LEMMA GrownIs ==
  ASSUME NEW w \in Nat \ {0}, NEW inner \in Seq(SUBSET (0 .. w - 1)), NEW i \in Nat,
         NEW g, g = TaskSet!Grown(inner, w, i)
  PROVE  /\ g \in Seq(SUBSET (0 .. w - 1))
         /\ Len(inner) <= Len(g) /\ i \div w < Len(g) /\ Len(g) \in Nat
         /\ \A k \in 1 .. Len(g) : g[k] = IF k <= Len(inner) THEN inner[k] ELSE {}
<1> DEFINE W == SUBSET (0 .. w - 1)
           q == i \div w
           none == [k \in 1 .. q - Len(inner) + 1 |-> {}]
<1>1. q \in Nat /\ Len(inner) \in Nat
  BY DivMod, LenProperties
<1>2. g = IF Len(inner) <= q THEN inner \o none ELSE inner
  BY DEF TaskSet!Grown
<1> HIDE DEF q, W
<1>3. inner \in Seq(W)
  BY DEF W
<1>4. CASE Len(inner) <= q
  <2>1. none \in Seq(W) /\ Len(none) = q - Len(inner) + 1
        /\ \A k \in 1 .. q - Len(inner) + 1 : none[k] = {}
    <3>1. q - Len(inner) + 1 \in Nat /\ {} \in W
      BY <1>1, <1>4 DEF W
    <3> DEFINE r == q - Len(inner) + 1
    <3>2. [k \in 1 .. r |-> {}] \in [1 .. r -> W]
      BY <3>1
    <3>3. r \in Nat
      BY <3>1
    <3> HIDE DEF r
    <3>4. [k \in 1 .. r |-> {}] \in Seq(W) /\ Len([k \in 1 .. r |-> {}]) = r
      BY <3>2, <3>3
    <3> QED BY <3>4 DEF r
  <2> HIDE DEF none
  <2>2. g = inner \o none
    BY <1>2, <1>4
  <2>3. g \in Seq(W) /\ Len(g) = q + 1
        /\ \A k \in 1 .. q + 1 : g[k] = IF k <= Len(inner) THEN inner[k] ELSE none[k - Len(inner)]
    <3>1. /\ g \in Seq(W) /\ Len(g) = Len(inner) + Len(none)
          /\ \A k \in 1 .. Len(inner) + Len(none) :
                g[k] = IF k <= Len(inner) THEN inner[k] ELSE none[k - Len(inner)]
      <4>1. none \in Seq(W)
        BY <2>1
      <4>2. /\ inner \o none \in Seq(W) /\ Len(inner \o none) = Len(inner) + Len(none)
            /\ \A k \in 1 .. Len(inner) + Len(none) :
                  (inner \o none)[k] = IF k <= Len(inner) THEN inner[k] ELSE none[k - Len(inner)]
        BY ONLY <1>3, <4>1, ConcatProperties
      <4> QED BY ONLY <2>2, <4>2
    <3>2. Len(inner) + Len(none) = q + 1
      BY <1>1, <2>1
    <3> QED BY <3>1, <3>2
  <2>4. ASSUME NEW k \in 1 .. q + 1, ~(k <= Len(inner)) PROVE none[k - Len(inner)] = {}
    BY <1>1, <2>1, <2>4
  <2>5. Len(inner) <= Len(g) /\ q < Len(g) /\ Len(g) \in Nat
    BY <1>1, <1>4, <2>3
  <2>6. \A k \in 1 .. Len(g) : g[k] = IF k <= Len(inner) THEN inner[k] ELSE {}
    BY <2>3, <2>4
  <2>7. g \in Seq(SUBSET (0 .. w - 1)) /\ i \div w < Len(g)
    BY <2>3, <2>5 DEF q, W
  <2> QED BY <2>5, <2>6, <2>7
<1>5. CASE ~(Len(inner) <= q)
  BY <1>1, <1>2, <1>3, <1>5 DEF q, W
<1> QED BY <1>4, <1>5

(* Numbers with the same word and the same bit are the same. *)
LEMMA SamePlace ==
  ASSUME NEW w \in Nat \ {0}, NEW i \in Nat, NEW j \in Nat, i \div w = j \div w, i % w = j % w
  PROVE  i = j
BY DivMod

LEMMA InsertIs ==
  ASSUME NEW w \in Nat \ {0}, NEW s \in TaskSets(w), NEW i \in Nat,
         NEW t, t = TaskSet!insert(s, w, i)
  PROVE  /\ t \in TaskSets(w) /\ MembersOf(t, w) = MembersOf(s, w) \cup {i}
         /\ t.len = IF i \in MembersOf(s, w) THEN s.len ELSE s.len + 1
<1> DEFINE g == TaskSet!Grown(s.inner, w, i)
           q == i \div w
           b == i % w
           W == SUBSET (0 .. w - 1)
           put == [g EXCEPT ![q + 1] = @ \cup {b}]
<1>1. s.inner \in Seq(W) /\ s.len \in Nat /\ Len(s.inner) \in Nat
  BY LenProperties DEF TaskSets
<1>2. /\ g \in Seq(W) /\ Len(s.inner) <= Len(g) /\ q < Len(g) /\ Len(g) \in Nat
      /\ \A k \in 1 .. Len(g) : g[k] = IF k <= Len(s.inner) THEN s.inner[k] ELSE {}
  BY <1>1, GrownIs
<1>3. q \in Nat /\ b \in 0 .. w - 1
  BY DivMod
<1>4. t = IF b \in g[q + 1] THEN s ELSE [len |-> s.len + 1, inner |-> put]
  BY DEF TaskSet!insert, TaskSet!bit_test
<1>5. \A j \in Nat : j \in MembersOf(s, w) <=> j \div w < Len(g) /\ j % w \in g[(j \div w) + 1]
  <2> SUFFICES ASSUME NEW j \in Nat
               PROVE  j \in MembersOf(s, w) <=> j \div w < Len(g) /\ j % w \in g[(j \div w) + 1]
    OBVIOUS
  <2> DEFINE r == j \div w
  <2>1. r \in Nat
    BY DivMod
  <2>2. j \in MembersOf(s, w) <=> r < Len(s.inner) /\ j % w \in s.inner[r + 1]
    BY DEF MembersOf, TaskSet!contains, TaskSet!bit_test
  <2> HIDE DEF r, g
  <2>3. r < Len(g) => g[r + 1] = IF r < Len(s.inner) THEN s.inner[r + 1] ELSE {}
    <3> SUFFICES ASSUME r < Len(g) PROVE g[r + 1] = IF r < Len(s.inner) THEN s.inner[r + 1] ELSE {}
      OBVIOUS
    <3>1. r + 1 \in 1 .. Len(g) /\ (r + 1 <= Len(s.inner) <=> r < Len(s.inner))
      BY <1>1, <1>2, <2>1
    <3> QED BY <1>2, <3>1
  <2>4. r < Len(s.inner) => r < Len(g)
    BY <1>1, <1>2, <2>1
  <2>5. (r < Len(s.inner) /\ j % w \in s.inner[r + 1]) <=> (r < Len(g) /\ j % w \in g[r + 1])
    BY <2>3, <2>4
  <2> QED BY <2>2, <2>5 DEF r
<1>6. i \in MembersOf(s, w) <=> b \in g[q + 1]
  BY <1>2, <1>5
<1> HIDE DEF g, q, b, W
<1>7. CASE b \in g[q + 1]
  BY <1>4, <1>6, <1>7
<1>8. CASE b \notin g[q + 1]
  <2>1. t = [len |-> s.len + 1, inner |-> put]
    BY <1>4, <1>8
  <2>2. q + 1 \in 1 .. Len(g)
    BY <1>2, <1>3
  <2>3. g[q + 1] \cup {b} \in W
    BY <1>2, <1>3, <2>2, ElementOfSeq DEF W
  <2>4. /\ put \in Seq(W) /\ Len(put) = Len(g)
        /\ \A k \in 1 .. Len(g) : put[k] = IF k = q + 1 THEN g[q + 1] \cup {b} ELSE g[k]
    BY <1>2, <2>2, <2>3, ExceptSeq
  <2> HIDE DEF put
  <2>5. t \in TaskSets(w) /\ t.len = s.len + 1 /\ t.inner = put
    BY <1>1, <2>1, <2>4 DEF TaskSets, W
  <2>6. ASSUME NEW j \in Nat PROVE j \in MembersOf(t, w) <=> j \in MembersOf(s, w) \/ j = i
    <3> DEFINE r == j \div w
               a == j % w
    <3>1. r \in Nat
      BY DivMod
    <3>2. j \in MembersOf(t, w) <=> r < Len(g) /\ a \in put[r + 1]
      BY <2>4, <2>5 DEF MembersOf, TaskSet!contains, TaskSet!bit_test
    <3>3. j \in MembersOf(s, w) <=> r < Len(g) /\ a \in g[r + 1]
      BY <1>5
    <3>4. r = q /\ a = b => j = i
      BY SamePlace DEF q, b
    <3>5. j = i => r = q /\ a = b
      BY DEF q, b
    <3> HIDE DEF r, a
    <3>6. r < Len(g) => put[r + 1] = IF r = q THEN g[q + 1] \cup {b} ELSE g[r + 1]
      <4> SUFFICES ASSUME r < Len(g) PROVE put[r + 1] = IF r = q THEN g[q + 1] \cup {b} ELSE g[r + 1]
        OBVIOUS
      <4>1. r + 1 \in 1 .. Len(g) /\ (r + 1 = q + 1 <=> r = q)
        BY <1>2, <1>3, <3>1
      <4> QED BY <2>4, <4>1
    <3> QED BY <1>2, <3>2, <3>3, <3>4, <3>5, <3>6
  <2>7. MembersOf(t, w) = MembersOf(s, w) \cup {i}
    <3>1. MembersOf(t, w) \subseteq Nat /\ MembersOf(s, w) \subseteq Nat
      BY DEF MembersOf
    <3> QED BY <2>6, <3>1
  <2> QED BY <1>6, <1>8, <2>5, <2>7
<1> QED BY <1>7, <1>8

LEMMA RemoveIs ==
  ASSUME NEW w \in Nat \ {0}, NEW s \in TaskSets(w), NEW i \in Nat, s.len # 0,
         NEW t, t = TaskSet!remove(s, w, i)
  PROVE  /\ t \in TaskSets(w) /\ MembersOf(t, w) = MembersOf(s, w) \ {i}
         /\ t.len = IF i \in MembersOf(s, w) THEN s.len - 1 ELSE s.len
<1> DEFINE g == s.inner
           q == i \div w
           b == i % w
           W == SUBSET (0 .. w - 1)
           put == [g EXCEPT ![q + 1] = @ \ {b}]
<1>1. g \in Seq(W) /\ s.len \in Nat /\ Len(g) \in Nat
  BY LenProperties DEF TaskSets
<1>2. q \in Nat /\ b \in 0 .. w - 1
  BY DivMod
<1>3. i \in MembersOf(s, w) <=> TaskSet!contains(s, w, i)
  BY DEF MembersOf
<1>4. CASE i \notin MembersOf(s, w)
  BY <1>3, <1>4 DEF TaskSet!remove
<1>5. CASE i \in MembersOf(s, w)
  <2>1. t = [len |-> s.len - 1, inner |-> put] /\ q < Len(g)
    BY <1>3, <1>5 DEF TaskSet!remove, TaskSet!contains
  <2> HIDE DEF g, q, b, W
  <2>2. q + 1 \in 1 .. Len(g)
    BY <1>1, <1>2, <2>1
  <2>3. g[q + 1] \ {b} \in W
    BY <1>1, <1>2, <2>2, ElementOfSeq DEF W
  <2>4. /\ put \in Seq(W) /\ Len(put) = Len(g)
        /\ \A k \in 1 .. Len(g) : put[k] = IF k = q + 1 THEN g[q + 1] \ {b} ELSE g[k]
    BY <1>1, <2>2, <2>3, ExceptSeq
  <2> HIDE DEF put
  <2>5. t \in TaskSets(w) /\ t.len = s.len - 1 /\ t.inner = put
    BY <1>1, <2>1, <2>4 DEF TaskSets, W
  <2>6. ASSUME NEW j \in Nat PROVE j \in MembersOf(t, w) <=> j \in MembersOf(s, w) /\ j # i
    <3> DEFINE r == j \div w
               a == j % w
    <3>1. r \in Nat
      BY DivMod
    <3>2. j \in MembersOf(t, w) <=> r < Len(g) /\ a \in put[r + 1]
      BY <2>4, <2>5 DEF MembersOf, TaskSet!contains, TaskSet!bit_test
    <3>3. j \in MembersOf(s, w) <=> r < Len(g) /\ a \in g[r + 1]
      BY DEF MembersOf, TaskSet!contains, TaskSet!bit_test, g
    <3>4. r = q /\ a = b => j = i
      BY SamePlace DEF q, b
    <3>5. j = i => r = q /\ a = b
      BY DEF q, b
    <3> HIDE DEF r, a
    <3>6. r < Len(g) => put[r + 1] = IF r = q THEN g[q + 1] \ {b} ELSE g[r + 1]
      <4> SUFFICES ASSUME r < Len(g) PROVE put[r + 1] = IF r = q THEN g[q + 1] \ {b} ELSE g[r + 1]
        OBVIOUS
      <4>1. r + 1 \in 1 .. Len(g) /\ (r + 1 = q + 1 <=> r = q)
        BY <1>1, <1>2, <3>1
      <4> QED BY <2>4, <4>1
    <3> QED BY <3>2, <3>3, <3>4, <3>5, <3>6
  <2>7. MembersOf(t, w) = MembersOf(s, w) \ {i}
    <3>1. MembersOf(t, w) \subseteq Nat /\ MembersOf(s, w) \subseteq Nat
      BY DEF MembersOf
    <3> QED BY <2>6, <3>1
  <2> QED BY <1>5, <2>5, <2>7
<1> QED BY <1>4, <1>5


(* The numbers of a set in words, one after the other.                     *)
LEMMA IterIs ==
  ASSUME NEW w \in Nat \ {0}, NEW s \in TaskSets(w)
  PROVE  ToSet(TaskSet!iter(s, w)) = MembersOf(s, w)
<1> DEFINE N == Len(s.inner) * w
           Bit(i) == TaskSet!bit_test(s.inner, w, i)
           Found(i) == IF Bit(i) THEN <<i>> ELSE <<>>
           In == [k \in 0 .. N |-> {q \in Seq(Nat) : ToSet(q) = {i \in 0 .. k - 1 : Bit(i)}}]
           step == [k \in 1 .. N |-> [q \in Seq(Nat) |-> q \o Found(k - 1)]]
           Below(g) == g = [i \in 0 .. N |-> IF i = 0 THEN <<>> ELSE g[i - 1] \o Found(i - 1)]
<1>1. Len(s.inner) \in Nat /\ N \in Nat
  <2>1. Len(s.inner) \in Nat
    BY LenProperties DEF TaskSets
  <2> QED BY <2>1
<1>2. TaskSet!iter(s, w) = (CHOOSE g : Below(g))[N]
  BY DEF TaskSet!iter
<1>3. \A i \in Nat : i \in MembersOf(s, w) <=> i \in 0 .. N - 1 /\ Bit(i)
  <2> SUFFICES ASSUME NEW i \in Nat PROVE i \in MembersOf(s, w) <=> i \in 0 .. N - 1 /\ Bit(i)
    OBVIOUS
  <2> DEFINE q == i \div w
             l == Len(s.inner)
  <2>1. i \in MembersOf(s, w) <=> q < l /\ Bit(i)
    BY DEF MembersOf, TaskSet!contains
  <2>2. q \in Nat /\ i % w \in 0 .. w - 1 /\ i = w * q + (i % w)
    BY DivMod
  <2> HIDE DEF q, l
  <2>3. l \in Nat /\ N = w * l
    BY <1>1 DEF l
  <2>4. q < l <=> i < w * l
    <3>1. ASSUME q < l PROVE i < w * l
      <4>1. w * (q + 1) <= w * l /\ w * (q + 1) = w * q + w /\ w * q \in Nat /\ w * l \in Nat
        BY <2>2, <2>3, <3>1
      <4> QED BY <2>2, <4>1
    <3>2. ASSUME ~(q < l) PROVE ~(i < w * l)
      <4>1. w * l <= w * q /\ w * q \in Nat /\ w * l \in Nat
        BY <2>2, <2>3, <3>2
      <4> QED BY <2>2, <4>1
    <3> QED BY <3>1, <3>2
  <2> HIDE DEF N, Bit
  <2> QED BY <1>1, <2>1, <2>3, <2>4
<1> HIDE DEF Bit, N
<1>4. ASSUME NEW k \in 1 .. N, NEW q \in Seq(Nat), ToSet(q) = {i \in 0 .. (k - 1) - 1 : Bit(i)}
      PROVE  /\ q \o Found(k - 1) \in Seq(Nat)
             /\ ToSet(q \o Found(k - 1)) = {i \in 0 .. k - 1 : Bit(i)}
  <2>1. k - 1 \in Nat /\ k \in Int
    BY <1>1
  <2>2. \A i : i \in 0 .. k - 1 <=> i \in 0 .. (k - 1) - 1 \/ i = k - 1
    BY <2>1
  <2>3. CASE Bit(k - 1)
    <3>1. q \o Found(k - 1) = q \o <<k - 1>>
      BY <2>3
    <3>2. q \o <<k - 1>> \in Seq(Nat) /\ ToSet(q \o <<k - 1>>) = ToSet(q) \cup {k - 1}
      BY <2>1, OneMoreIs
    <3>3. ToSet(q) \cup {k - 1} = {i \in 0 .. k - 1 : Bit(i)}
      BY <1>4, <2>2, <2>3
    <3> QED BY <3>1, <3>2, <3>3
  <2>4. CASE ~Bit(k - 1)
    <3>1. q \o Found(k - 1) = q
      BY <2>4, ConcatEmptySeq
    <3>2. ToSet(q) = {i \in 0 .. k - 1 : Bit(i)}
      BY <1>4, <2>2, <2>4
    <3> QED BY <3>1, <3>2
  <2> QED BY <2>3, <2>4
<1>5. ASSUME NEW k \in 1 .. N, NEW q \in In[k - 1]
      PROVE  q \in Seq(Nat) /\ q \o Found(k - 1) \in In[k]
  <2>1. k - 1 \in 0 .. N /\ k \in 0 .. N
    BY <1>1
  <2>2. q \in Seq(Nat) /\ ToSet(q) = {i \in 0 .. (k - 1) - 1 : Bit(i)}
    BY <2>1
  <2> QED BY <1>4, <2>1, <2>2
<1>6. <<>> \in In[0]
  <2>1. ToSet(<<>>) = {} /\ <<>> \in Seq(Nat)
    BY DEF ToSet
  <2>2. {i \in 0 .. 0 - 1 : Bit(i)} = {}
    OBVIOUS
  <2> QED BY <1>1, <2>1, <2>2
<1>7. In \in [0 .. N -> SUBSET Seq(Nat)]
  OBVIOUS
<1>8. \A k \in 1 .. N : \A q \in In[k - 1] : step[k][q] \in In[k]
  <2> SUFFICES ASSUME NEW k \in 1 .. N, NEW q \in In[k - 1] PROVE step[k][q] \in In[k]
    OBVIOUS
  <2> HIDE DEF In, Found
  <2> QED BY <1>5
<1>9. PICK f : Loops(f, N, <<>>, step) /\ \A k \in 0 .. N : f[k] \in In[k]
  <2> HIDE DEF In, step
  <2> QED BY <1>1, <1>6, <1>7, <1>8, LoopExists
<1>10. Below(f)
  <2>1. f = [k \in 0 .. N |-> IF k = 0 THEN <<>> ELSE step[k][f[k - 1]]]
    BY <1>9 DEF Loops
  <2>2. ASSUME NEW k \in 0 .. N, k # 0 PROVE step[k][f[k - 1]] = f[k - 1] \o Found(k - 1)
    <3>1. k \in 1 .. N /\ k - 1 \in 0 .. N
      BY <1>1, <2>2
    <3>2. f[k - 1] \in Seq(Nat)
      BY <1>5, <1>9, <3>1
    <3> HIDE DEF Found
    <3> QED BY <3>1, <3>2
  <2> HIDE DEF step, Found
  <2>3. [k \in 0 .. N |-> IF k = 0 THEN <<>> ELSE step[k][f[k - 1]]]
        = [k \in 0 .. N |-> IF k = 0 THEN <<>> ELSE f[k - 1] \o Found(k - 1)]
    BY <2>2
  <2> QED BY <2>1, <2>3
<1> DEFINE h == CHOOSE g : Below(g)
<1>11. Below(h)
  <2> HIDE DEF Below
  <2> QED BY <1>10
<1> HIDE DEF h
<1>12. \A k \in 0 .. N : h[k] \in In[k]
  <2>1. h[0] \in In[0]
    BY <1>1, <1>6, <1>11
  <2>2. ASSUME NEW k \in 1 .. N, h[k - 1] \in In[k - 1] PROVE h[k] \in In[k]
    <3>1. k \in 0 .. N /\ k # 0
      BY <1>1
    <3>2. h[k] = h[k - 1] \o Found(k - 1)
      <4> HIDE DEF Found
      <4> QED BY <1>11, <3>1
    <3> HIDE DEF In, Found
    <3> QED BY <1>5, <2>2, <3>2
  <2> HIDE DEF In
  <2> QED BY <1>1, <2>1, <2>2, LoopInvariant
<1>13. h[N] \in In[N] /\ N \in 0 .. N
  BY <1>1, <1>12
<1>14. ToSet(h[N]) = {i \in 0 .. N - 1 : Bit(i)}
  BY <1>13
<1>15. {i \in 0 .. N - 1 : Bit(i)} = MembersOf(s, w)
  <2>1. MembersOf(s, w) \subseteq Nat /\ 0 .. N - 1 \subseteq Nat
    BY <1>1 DEF MembersOf
  <2> QED BY <1>3, <2>1
<1> QED BY <1>2, <1>14, <1>15 DEF h

-----------------------------------------------------------------------------
(* The maps of distances. *)
IsMap(m) == DOMAIN m = {"n", "levels", "vec"}

LEMMA PutIs ==
  ASSUME NEW m, IsMap(m), NEW key, NEW value, Parts!Fits(m, key),
         NEW r, r = Parts!insert(m, key, value)
  PROVE  /\ IsMap(r) /\ r.levels = m.levels
         /\ DOMAIN r.vec = DOMAIN m.vec \cup {Parts!Along(m, key)}
         /\ \A k : Parts!Along(r, k) = Parts!Along(m, k)
<1> DEFINE path == Parts!Along(m, key)
           count == IF path \in DOMAIN m.vec THEN m.n ELSE m.n + 1
           vec == [p \in DOMAIN m.vec \cup {path} |-> IF p = path THEN value ELSE m.vec[p]]
<1>1. r = [m EXCEPT !.n = count, !.vec = vec]
  BY DEF Parts!insert
<1>2. DOMAIN vec = DOMAIN m.vec \cup {path}
  OBVIOUS
<1> HIDE DEF path, count, vec
<1>3. IsMap(r) /\ r.levels = m.levels /\ r.vec = vec
  BY <1>1 DEF IsMap
<1>4. \A k : Parts!Along(r, k) = Parts!Along(m, k)
  BY <1>3 DEF Parts!Along
<1> QED BY <1>2, <1>3, <1>4 DEF path

LEMMA WordSizes ==
  ASSUME instance \in Instances, KeysFit
  PROVE  /\ word \in Nat \ {0} /\ passengers \in Nat \ {0}
         /\ passengers % word \in Nat /\ 2 <= (passengers % word) + 1
         /\ passengers <= word * 2
<1>1. word \in Nat \ {0} /\ passengers \in Nat
  BY PipelineAssumption, Sizes DEF word
<1>2. passengers % word \in 0 .. word - 1
  BY <1>1, DivMod
<1>3. passengers # 0
  <2> SUFFICES ASSUME passengers = 0 PROVE passengers % word = 0
    BY DEF KeysFit
  <2>1. 0 = word * 0 + 0 /\ 0 \in 0 .. word - 1
    BY <1>1
  <2> QED BY <1>1, <2>1, DivModUnique
<1> QED BY <1>1, <1>2, <1>3 DEF KeysFit

(* Where the distance of a combination is kept, in a map that takes two    *)
(* words.                                                                  *)
Key(c) == TaskSet!Words(Bits(c), word, (passengers % word) + 1)

LEMMA SplitAlong ==
  ASSUME instance \in Instances, KeysFit, NEW c, NEW m, m.levels = (passengers % word) + 1
  PROVE  Parts!Fits(m, split(c)) /\ Parts!Along(m, split(c)) = Key(c)
<1>1. /\ word \in Nat \ {0} /\ passengers \in Nat \ {0} /\ m.levels \in Nat /\ 2 <= m.levels
      /\ passengers <= word * 2
  BY WordSizes
<1>2. Bits(c) \in SUBSET (0 .. word * 2 - 1)
  BY <1>1 DEF Bits
<1>3. Len(split(c)) = 2
  BY DEF split, TaskSet!Words
<1>4. Parts!Along(m, TaskSet!Words(Bits(c), word, 2)) = TaskSet!Words(Bits(c), word, m.levels)
  BY <1>1, <1>2, AlongWords
<1> QED BY <1>1, <1>3, <1>4 DEF Parts!Fits, split, Key

LEMMA KeysApart ==
  ASSUME instance \in Instances, KeysFit, NEW c \in 0 .. max, NEW d \in 0 .. max, Key(c) = Key(d)
  PROVE  c = d
<1>1. /\ word \in Nat \ {0} /\ passengers \in Nat \ {0} /\ passengers % word \in Nat
      /\ 2 <= (passengers % word) + 1 /\ passengers <= word * 2
  BY WordSizes
<1>2. Bits(c) \in SUBSET (0 .. word * 2 - 1) /\ Bits(d) \in SUBSET (0 .. word * 2 - 1)
  BY <1>1 DEF Bits
<1>3. Bits(c) = Bits(d)
  <2> DEFINE l == (passengers % word) + 1
  <2>1. l \in Nat /\ 2 <= l /\ TaskSet!Words(Bits(c), word, l) = TaskSet!Words(Bits(d), word, l)
    BY <1>1 DEF Key
  <2> HIDE DEF l
  <2> QED BY <1>1, <1>2, <2>1, WordsApart
<1>4. ASSUME NEW p \in 0 .. passengers - 1 PROVE One(c, p) <=> One(d, p)
  BY <1>3 DEF Bits, One
<1>5. c \in 0 .. Pow2[passengers] - 1 /\ d \in 0 .. Pow2[passengers] - 1
  BY DEF max
<1> QED BY <1>1, <1>4, <1>5, BitsTellApart

(* Every set of passengers is a combination.                               *)
LEMMA KeyOfSet ==
  ASSUME instance \in Instances, KeysFit, NEW S \in SUBSET (0 .. passengers - 1), NEW k \in Nat,
         S \subseteq 0 .. word * k - 1, NEW m, m.levels = (passengers % word) + 1, k <= m.levels
  PROVE  \E c \in 0 .. max : /\ Parts!Fits(m, TaskSet!Words(S, word, k))
                             /\ Parts!Along(m, TaskSet!Words(S, word, k)) = Key(c)
<1>1. /\ word \in Nat \ {0} /\ passengers \in Nat /\ m.levels \in Nat
  BY WordSizes
<1>2. PICK c \in 0 .. Pow2[passengers] - 1 : \A p \in 0 .. passengers - 1 : One(c, p) <=> p \in S
  BY <1>1, BitsOfSet
<1>3. Bits(c) = S
  BY <1>2 DEF Bits, One
<1>4. Len(TaskSet!Words(S, word, k)) = k
  BY DEF TaskSet!Words
<1>5. Parts!Along(m, TaskSet!Words(S, word, k)) = TaskSet!Words(S, word, m.levels)
  BY <1>1, AlongWords
<1>6. Key(c) = TaskSet!Words(S, word, m.levels) /\ c \in 0 .. max
  BY <1>2, <1>3 DEF Key, max
<1> QED BY <1>4, <1>5, <1>6 DEF Parts!Fits


LEMMA MemberBound ==
  ASSUME NEW w \in Nat \ {0}, NEW s \in TaskSets(w), NEW i \in MembersOf(s, w)
  PROVE  i \in 0 .. Len(s.inner) * w
<1> DEFINE q == i \div w
           l == Len(s.inner)
<1>1. i \in Nat /\ q < l /\ l \in Nat
  BY LenProperties DEF MembersOf, TaskSet!contains, TaskSets
<1>2. q \in Nat /\ i % w \in 0 .. w - 1 /\ i = w * q + (i % w)
  BY <1>1, DivMod
<1> HIDE DEF q, l
<1>3. w * (q + 1) <= w * l /\ w * (q + 1) = w * q + w /\ w * q \in Nat /\ w * l \in Nat /\ w * l = l * w
  BY <1>1, <1>2
<1> QED BY <1>1, <1>2, <1>3 DEF l

Members == MembersOf(tasks, word)

LEMMA CountedIs ==
  ASSUME instance \in Instances, n \in Nat
  PROVE  Counted <=> /\ tasks \in TaskSets(word)
                     /\ Members \subseteq 0 .. n - 1 /\ tasks.len = Cardinality(Members)
<1>1. word \in Nat \ {0}
  BY PipelineAssumption DEF word
<1> SUFFICES ASSUME tasks \in TaskSets(word)
             PROVE  Counted <=> Members \subseteq 0 .. n - 1 /\ tasks.len = Cardinality(Members)
  BY DEF Counted, TaskSets
<1> DEFINE N == Len(tasks.inner) * word
           Has(id) == TaskSet!contains(tasks, word, id)
<1>2. \A id \in Nat : id \in Members <=> Has(id)
  BY DEF Members, MembersOf
<1>3. \A id \in Members : id \in Nat /\ id \in 0 .. N
  BY <1>1, MemberBound DEF Members, MembersOf
<1>4. Counted <=> /\ \A id \in 0 .. N : Has(id) => id < n
                  /\ tasks.len = Cardinality({id \in 0 .. n - 1 : Has(id)})
  BY DEF Counted, TaskSets
<1> HIDE DEF N, Has
<1>5. (\A id \in 0 .. N : Has(id) => id < n) <=> Members \subseteq 0 .. n - 1
  BY <1>2, <1>3
<1>6. Members \subseteq 0 .. n - 1 => {id \in 0 .. n - 1 : Has(id)} = Members
  <2> SUFFICES ASSUME Members \subseteq 0 .. n - 1, NEW id PROVE id \in 0 .. n - 1 /\ Has(id) <=> id \in Members
    OBVIOUS
  <2>1. id \in 0 .. n - 1 => id \in Nat
    OBVIOUS
  <2> QED BY <1>2, <2>1
<1> QED BY <1>4, <1>5, <1>6

LEMMA OpenIs ==
  ASSUME NEW task, task.id \in Nat
  PROVE  Open(task) <=> task.id \in Members
BY DEF Open, Members, MembersOf

-----------------------------------------------------------------------------
(* With the tasks of the splitter, and maps whose keys have two words.     *)
PartsIInv == SplitIInv /\ (KeysFit => PartsInv)

LEMMA Facts ==
  ASSUME SplitIInv
  PROVE  /\ instance \in Instances /\ word \in Nat \ {0} /\ n \in Nat
         /\ mid \in Nat /\ max \in Nat /\ mid <= max /\ max <= 2 * mid
         /\ taxies \in Nat /\ passengers \in Nat
         /\ \A task \in sent : task.id \in 0 .. n - 1 /\ task.taxi \in Taxies
         /\ \A task \in sent : \E c \in mid .. max : task.combinations = {c, max - c}
         /\ \A task \in sent : task.combinations \subseteq 0 .. max
<1>1. instance \in Instances /\ Position /\ Numbered /\ Covered
  BY DEF SplitIInv, SplitInv
<1>2. word \in Nat \ {0}
  BY <1>1, PipelineAssumption DEF word
<1>3. /\ mid \in Nat /\ max \in Nat /\ mid <= max /\ max <= 2 * mid
      /\ taxies \in Nat /\ passengers \in Nat
  BY <1>1, Sizes
<1>4. n \in Nat
  <2>1. cur_taxi \in Nat /\ cur \in Nat /\ mid <= cur /\ n = cur_taxi * (max - mid + 1) + (cur - mid)
    BY <1>1, <1>3 DEF Position
  <2>2. cur_taxi * (max - mid + 1) \in Nat
    BY <1>3, <2>1
  <2> QED BY <1>3, <2>1, <2>2
<1>5. \A task \in sent : task.id \in 0 .. n - 1
  BY <1>1 DEF Numbered
<1>6. \A task \in sent : \E c \in mid .. max : task.taxi \in Taxies /\ task.combinations = {c, max - c}
  BY <1>1 DEF Covered, Made
<1>7. \A c \in mid .. max : {c, max - c} \subseteq 0 .. max
  BY <1>3
<1> QED BY <1>1, <1>2, <1>3, <1>4, <1>5, <1>6, <1>7

LEMMA InitParts == Init => PartsIInv
<1> SUFFICES ASSUME Init, KeysFit PROVE PartsInv
  BY InitSplit DEF PartsIInv
<1>1. SplitIInv
  BY InitSplit
<1>2. /\ word \in Nat \ {0} /\ n \in Nat /\ instance \in Instances
  BY <1>1, Facts
<1>3. /\ n = 0 /\ sent = {} /\ phase = "splitting" /\ tasks = TaskSet!with_capacity
      /\ parts = [taxi \in Taxies |-> Parts!with_capacity((passengers % word) + 1)]
  BY DEF Init
<1>4. Counted
  <2>1. tasks = [len |-> 0, inner |-> <<>>]
    BY <1>3 DEF TaskSet!with_capacity
  <2>2. tasks \in TaskSets(word)
    BY <2>1 DEF TaskSets
  <2>3. Members = {}
    <3> SUFFICES ASSUME NEW i \in Nat, i \div word < 0 PROVE FALSE
      BY <2>1 DEF Members, MembersOf, TaskSet!contains
    <3> QED BY <1>2, DivMod
  <2>4. tasks.len = 0 /\ Cardinality({}) = 0
    BY <2>1, FS_EmptySet
  <2> QED BY <1>2, <2>2, <2>3, <2>4, CountedIs
<1>5. Keyed
  <2> SUFFICES ASSUME NEW taxi \in Taxies
               PROVE  /\ DOMAIN parts[taxi] = {"n", "levels", "vec"}
                      /\ parts[taxi].levels = (passengers % word) + 1
                      /\ DOMAIN parts[taxi].vec = {Parts!Along(parts[taxi], split(c)) : c \in Answered(taxi)}
    BY <1>3 DEF Keyed
  <2>1. parts[taxi] = [n |-> 0, levels |-> (passengers % word) + 1, vec |-> [path \in {} |-> 0]]
    BY <1>3 DEF Parts!with_capacity
  <2>2. Answered(taxi) = {}
    BY <1>3 DEF Answered
  <2> QED BY <2>1, <2>2
<1>6. Settled
  BY <1>3 DEF Settled
<1> QED BY <1>4, <1>5, <1>6 DEF PartsInv

(* A step that leaves the tasks and the distances alone.                   *)
LEMMA SameParts ==
  ASSUME PartsIInv, instance' = instance, n' = n, sent' = sent, tasks' = tasks, parts' = parts,
         SplitIInv', Settled'
  PROVE  PartsIInv'
<1> SUFFICES ASSUME KeysFit' PROVE PartsInv'
  BY DEF PartsIInv
<1>1. taxies' = taxies /\ passengers' = passengers /\ word' = word /\ Taxies' = Taxies
  BY DEF taxies, passengers, word, Taxies
<1>2. KeysFit
  BY <1>1 DEF KeysFit
<1>3. Counted /\ Keyed
  BY <1>2 DEF PartsIInv, PartsInv
<1>4. \A c : split(c)' = split(c)
  BY <1>1 DEF split, Bits
<1>5. \A taxi : Answered(taxi)' = Answered(taxi)
  BY <1>1 DEF Answered, Open
<1>6. Counted'
  BY <1>1, <1>3 DEF Counted
<1>7. Keyed'
  BY <1>1, <1>3, <1>4, <1>5 DEF Keyed
<1> QED BY <1>6, <1>7 DEF PartsInv

LEMMA NextTaskParts ==
  ASSUME PartsIInv, NextTask
  PROVE  PartsIInv'
<1>1. SplitIInv /\ SplitIInv'
  BY NextTaskSplit DEF PartsIInv
<1> SUFFICES ASSUME KeysFit' PROVE PartsInv'
  BY <1>1 DEF PartsIInv
<1>0. PICK task : task = [id |-> n, taxi |-> cur_taxi, combinations |-> {cur, max - cur}]
  OBVIOUS
<1>2. /\ phase = "splitting" /\ phase' = phase /\ n' = n + 1 /\ sent' = sent \cup {task}
      /\ tasks' = TaskSet!insert(tasks, word, n) /\ parts' = parts /\ instance' = instance
  BY <1>0 DEF NextTask
<1>3. taxies' = taxies /\ passengers' = passengers /\ word' = word /\ Taxies' = Taxies
  BY <1>2 DEF taxies, passengers, word, Taxies
<1>4. KeysFit /\ Counted /\ Keyed
  BY <1>3 DEF KeysFit, PartsIInv, PartsInv
<1>5. /\ instance \in Instances /\ word \in Nat \ {0} /\ n \in Nat
      /\ \A t \in sent : t.id \in 0 .. n - 1
  BY <1>1, Facts
<1>6. tasks \in TaskSets(word) /\ Members \subseteq 0 .. n - 1 /\ tasks.len = Cardinality(Members)
  BY <1>4, <1>5, CountedIs
<1>7. /\ tasks' \in TaskSets(word) /\ Members' = Members \cup {n} /\ tasks'.len = tasks.len + 1
  <2>1. n \notin Members
    BY <1>5, <1>6
  <2> QED BY <1>2, <1>3, <1>5, <1>6, <2>1, InsertIs DEF Members
<1>8. Counted'
  <2>1. Members' \subseteq 0 .. n' - 1
    BY <1>2, <1>5, <1>6, <1>7
  <2>2. tasks'.len = Cardinality(Members')
    <3>1. IsFiniteSet(Members)
      <4>1. IsFiniteSet(0 .. n - 1)
        BY <1>5, FS_Interval
      <4> QED BY <1>6, <4>1, FS_Subset
    <3>2. n \notin Members
      BY <1>5, <1>6
    <3> QED BY <1>6, <1>7, <3>1, <3>2, FS_AddElement
  <2>3. instance' \in Instances /\ n' \in Nat
    BY <1>2, <1>5
  <2>4. Counted' <=> /\ tasks' \in TaskSets(word')
                     /\ Members' \subseteq 0 .. n' - 1 /\ tasks'.len = Cardinality(Members')
    <3>1. (instance \in Instances /\ n \in Nat =>
             (Counted <=> /\ tasks \in TaskSets(word)
                          /\ Members \subseteq 0 .. n - 1 /\ tasks.len = Cardinality(Members)))'
      BY CountedIs, PTL
    <3> QED BY <2>3, <3>1
  <2> QED BY <1>3, <1>7, <2>1, <2>2, <2>4
<1>9. task.id = n
  BY <1>0
<1>10. \A t \in sent : Open(t)' <=> Open(t)
  <2> SUFFICES ASSUME NEW t \in sent PROVE Open(t)' <=> Open(t)
    OBVIOUS
  <2>1. t.id \in Nat /\ t.id # n
    BY <1>5
  <2>2. Open(t) <=> t.id \in Members
    BY <2>1, OpenIs
  <2>3. Open(t)' <=> t.id \in Members'
    BY <2>1 DEF Open, Members, MembersOf
  <2> QED BY <1>7, <2>1, <2>2, <2>3
<1>11. Open(task)'
  <2>1. n \in Members'
    BY <1>7
  <2> QED BY <1>9, <2>1 DEF Open, Members, MembersOf
<1>12. \A taxi : Answered(taxi)' = Answered(taxi)
  <2> SUFFICES ASSUME NEW taxi PROVE Answered(taxi)' = Answered(taxi)
    OBVIOUS
  <2>1. {t \in sent' : t.taxi = taxi /\ ~Open(t)'} = {t \in sent : t.taxi = taxi /\ ~Open(t)}
    BY <1>2, <1>10, <1>11
  <2> QED BY <2>1 DEF Answered
<1>13. \A c : split(c)' = split(c)
  BY <1>3 DEF split, Bits
<1>14. Keyed'
  BY <1>2, <1>3, <1>4, <1>12, <1>13 DEF Keyed
<1>15. Settled'
  BY <1>2 DEF Settled
<1> QED BY <1>8, <1>14, <1>15 DEF PartsInv


(* The members of a set of two numbers are its largest and its least.      *)
LEMMA MaxMinOfTwo ==
  ASSUME NEW a \in Nat, NEW b \in Nat, NEW S, S = {a, b}
  PROVE  S = {Max(S), Min(S)}
<1>1. Max(S) \in S /\ \A y \in S : Max(S) >= y
  <2>1. \E x \in S : \A y \in S : x >= y
    OBVIOUS
  <2> QED BY <2>1 DEF Max
<1>2. Min(S) \in S /\ \A y \in S : Min(S) <= y
  <2>1. \E x \in S : \A y \in S : x <= y
    OBVIOUS
  <2> QED BY <2>1 DEF Min
<1> QED BY <1>1, <1>2

(* A map with the distances of a task has the keys of its combinations.    *)
LEMMA StoredIs ==
  ASSUME SplitIInv, KeysFit, NEW task \in sent,
         NEW m, IsMap(m), m.levels = (passengers % word) + 1, NEW r, r = Stored(task, m)
  PROVE  /\ IsMap(r) /\ r.levels = m.levels
         /\ DOMAIN r.vec = DOMAIN m.vec \cup {Key(c) : c \in task.combinations}
<1> DEFINE a == Max(task.combinations)
           b == Min(task.combinations)
           first == Parts!insert(m, split(a), distance[task.taxi][a])
<1>1. instance \in Instances
  BY Facts
<1>2. task.combinations = {a, b}
  <2>1. PICK c \in mid .. max : task.combinations = {c, max - c}
    BY Facts
  <2>2. c \in Nat /\ max - c \in Nat
    BY Facts
  <2> QED BY <2>1, <2>2, MaxMinOfTwo
<1>3. r = Parts!insert(first, split(b), distance[task.taxi][b])
  BY DEF Stored
<1> HIDE DEF a, b, first
<1>4. first = Parts!insert(m, split(a), distance[task.taxi][a])
  BY DEF first
<1>5. Parts!Fits(m, split(a)) /\ Parts!Along(m, split(a)) = Key(a)
  BY <1>1, SplitAlong
<1>6. IsMap(first) /\ first.levels = m.levels /\ DOMAIN first.vec = DOMAIN m.vec \cup {Key(a)}
  BY <1>4, <1>5, PutIs
<1>7. Parts!Fits(first, split(b)) /\ Parts!Along(first, split(b)) = Key(b)
  BY <1>1, <1>6, SplitAlong
<1>8. IsMap(r) /\ r.levels = first.levels /\ DOMAIN r.vec = DOMAIN first.vec \cup {Key(b)}
  BY <1>3, <1>6, <1>7, PutIs
<1>9. {Key(c) : c \in task.combinations} = {Key(a), Key(b)}
  BY <1>2
<1> QED BY <1>6, <1>8, <1>9

KeysOf(taxi) == {Key(c) : c \in Answered(taxi)}

LEMMA KeyedIs ==
  ASSUME instance \in Instances, KeysFit
  PROVE  Keyed <=> /\ DOMAIN parts = Taxies
                   /\ \A taxi \in Taxies : /\ IsMap(parts[taxi])
                                           /\ parts[taxi].levels = (passengers % word) + 1
                                           /\ DOMAIN parts[taxi].vec = KeysOf(taxi)
<1>1. ASSUME NEW taxi \in Taxies, parts[taxi].levels = (passengers % word) + 1
      PROVE  {Parts!Along(parts[taxi], split(c)) : c \in Answered(taxi)} = KeysOf(taxi)
  <2>1. \A c : Parts!Along(parts[taxi], split(c)) = Key(c)
    BY <1>1, SplitAlong
  <2> QED BY <2>1 DEF KeysOf
<1> QED BY <1>1 DEF Keyed, IsMap

LEMMA ResultParts ==
  ASSUME PartsIInv, NEW task \in sent, process_result(task)
  PROVE  PartsIInv'
<1>1. SplitIInv /\ SplitIInv'
  <2>1. phase # "splitting" => cur_taxi = taxies
    BY DEF PartsIInv, SplitIInv, SplitInv, Position
  <2> QED BY <2>1, SameSplit DEF PartsIInv, process_result, splitter
<1> SUFFICES ASSUME KeysFit' PROVE PartsInv'
  BY <1>1 DEF PartsIInv
<1>2. /\ phase' = phase /\ n' = n /\ sent' = sent /\ instance' = instance
      /\ tasks' = TaskSet!remove(tasks, word, task.id)
      /\ parts' = (IF TaskSet!contains(tasks, word, task.id)
                   THEN [parts EXCEPT ![task.taxi] = Stored(task, @)] ELSE parts)
  BY DEF process_result, splitter
<1>3. taxies' = taxies /\ passengers' = passengers /\ word' = word /\ Taxies' = Taxies
  BY <1>2 DEF taxies, passengers, word, Taxies
<1>4. KeysFit /\ Counted /\ Keyed /\ Settled
  BY <1>3 DEF KeysFit, PartsIInv, PartsInv
<1>5. /\ instance \in Instances /\ word \in Nat \ {0} /\ n \in Nat
      /\ \A t \in sent : t.id \in 0 .. n - 1 /\ t.taxi \in Taxies
  BY <1>1, Facts
<1>6. tasks \in TaskSets(word) /\ Members \subseteq 0 .. n - 1 /\ tasks.len = Cardinality(Members)
  BY <1>4, <1>5, CountedIs
<1>7. IsFiniteSet(Members)
  <2>1. IsFiniteSet(0 .. n - 1)
    BY <1>5, FS_Interval
  <2> QED BY <1>6, <2>1, FS_Subset
<1>8. task.id \in Nat /\ (TaskSet!contains(tasks, word, task.id) <=> task.id \in Members)
  BY <1>5 DEF Members, MembersOf
<1>9. /\ tasks' \in TaskSets(word) /\ Members' = Members \ {task.id}
      /\ tasks'.len = IF task.id \in Members THEN tasks.len - 1 ELSE tasks.len
  <2>1. CASE task.id \in Members
    <3>1. tasks.len # 0
      BY <1>6, <1>7, <2>1, FS_EmptySet
    <3> QED BY <1>2, <1>3, <1>5, <1>6, <1>8, <3>1, RemoveIs DEF Members
  <2>2. CASE task.id \notin Members
    <3>1. tasks' = tasks
      BY <1>2, <1>8, <2>2 DEF TaskSet!remove
    <3>2. Members' = Members
      BY <1>3, <3>1 DEF Members
    <3> QED BY <1>6, <2>2, <3>1, <3>2
  <2> QED BY <2>1, <2>2
<1>10. tasks'.len = Cardinality(Members')
  <2>1. CASE task.id \in Members
    <3>1. Cardinality(Members') = Cardinality(Members) - 1
      BY <1>7, <1>9, <2>1, FS_RemoveElement
    <3> QED BY <1>6, <1>9, <2>1, <3>1
  <2>2. CASE task.id \notin Members
    <3>1. Members' = Members
      BY <1>9, <2>2
    <3> QED BY <1>6, <1>9, <2>2, <3>1
  <2> QED BY <2>1, <2>2
<1>11. Counted'
  <2>1. (instance \in Instances /\ n \in Nat =>
           (Counted <=> /\ tasks \in TaskSets(word)
                        /\ Members \subseteq 0 .. n - 1 /\ tasks.len = Cardinality(Members)))'
    BY CountedIs, PTL
  <2> QED BY <1>2, <1>3, <1>5, <1>6, <1>9, <1>10, <2>1
<1>12. \A t \in sent : (Open(t) <=> t.id \in Members) /\ (Open(t)' <=> t.id \in Members')
  <2> SUFFICES ASSUME NEW t \in sent PROVE (Open(t) <=> t.id \in Members) /\ (Open(t)' <=> t.id \in Members')
    OBVIOUS
  <2>1. t.id \in Nat
    BY <1>5
  <2> QED BY <2>1 DEF Open, Members, MembersOf
<1>13. \A t \in sent : t.id = task.id => t = task
  BY <1>1 DEF SplitIInv, SplitInv, Numbered
<1>14. \A taxi : Answered(taxi)' = IF taxi = task.taxi /\ task.id \in Members
                                   THEN Answered(taxi) \cup task.combinations ELSE Answered(taxi)
  <2> SUFFICES ASSUME NEW taxi
               PROVE  Answered(taxi)' = IF taxi = task.taxi /\ task.id \in Members
                                        THEN Answered(taxi) \cup task.combinations ELSE Answered(taxi)
    OBVIOUS
  <2> DEFINE Old == {t \in sent : t.taxi = taxi /\ ~Open(t)}
             New == {t \in sent : t.taxi = taxi /\ ~Open(t)'}
  <2>1. Answered(taxi) = UNION {t.combinations : t \in Old}
    BY DEF Answered
  <2>2. Answered(taxi)' = UNION {t.combinations : t \in New}
    BY <1>2 DEF Answered
  <2>3. New = IF taxi = task.taxi /\ task.id \in Members THEN Old \cup {task} ELSE Old
    BY <1>9, <1>12, <1>13
  <2> HIDE DEF Old, New
  <2> QED BY <2>1, <2>2, <2>3
<1>15. Keyed'
  <2>1. /\ DOMAIN parts = Taxies
        /\ \A taxi \in Taxies : /\ IsMap(parts[taxi])
                                /\ parts[taxi].levels = (passengers % word) + 1
                                /\ DOMAIN parts[taxi].vec = KeysOf(taxi)
    BY <1>4, <1>5, KeyedIs
  <2>2. DOMAIN parts' = Taxies
    BY <1>2, <2>1
  <2>3. \A c : Key(c)' = Key(c)
    BY <1>3 DEF Key, Bits
  <2>4. ASSUME NEW taxi \in Taxies
        PROVE  /\ IsMap(parts'[taxi])
               /\ parts'[taxi].levels = (passengers % word) + 1
               /\ DOMAIN parts'[taxi].vec = KeysOf(taxi)'
    <3>1. CASE taxi = task.taxi /\ task.id \in Members
      <4>1. parts'[taxi] = Stored(task, parts[taxi])
        BY <1>2, <1>8, <2>1, <3>1
      <4>2. /\ IsMap(parts'[taxi]) /\ parts'[taxi].levels = parts[taxi].levels
            /\ DOMAIN parts'[taxi].vec = DOMAIN parts[taxi].vec \cup {Key(c) : c \in task.combinations}
        BY <1>1, <1>4, <2>1, <4>1, StoredIs
      <4>3. KeysOf(taxi)' = KeysOf(taxi) \cup {Key(c) : c \in task.combinations}
        BY <1>14, <2>3, <3>1 DEF KeysOf
      <4> QED BY <2>1, <4>2, <4>3
    <3>2. CASE ~(taxi = task.taxi /\ task.id \in Members)
      <4>1. parts'[taxi] = parts[taxi]
        BY <1>2, <1>8, <2>1, <3>2
      <4>2. KeysOf(taxi)' = KeysOf(taxi)
        BY <1>14, <2>3, <3>2 DEF KeysOf
      <4> QED BY <2>1, <4>1, <4>2
    <3> QED BY <3>1, <3>2
  <2>5. (instance \in Instances /\ KeysFit =>
          (Keyed <=> /\ DOMAIN parts = Taxies
                     /\ \A taxi \in Taxies : /\ IsMap(parts[taxi])
                                             /\ parts[taxi].levels = (passengers % word) + 1
                                             /\ DOMAIN parts[taxi].vec = KeysOf(taxi)))'
    BY KeyedIs, PTL
  <2>6. \A taxi : IsMap(parts[taxi])' <=> IsMap(parts'[taxi])
    BY DEF IsMap
  <2> QED BY <1>2, <1>3, <1>5, <2>2, <2>4, <2>5, <2>6
<1>16. Settled'
  <2>1. tasks.len = 0 => tasks'.len = 0
    BY <1>6, <1>7, <1>9, FS_EmptySet
  <2> QED BY <1>2, <1>4, <2>1 DEF Settled, TaskSet!is_empty
<1> QED BY <1>11, <1>15, <1>16 DEF PartsInv


(* When all tasks are made and answered, every combination has its key.    *)
LEMMA AllKeys ==
  ASSUME PartsIInv, KeysFit, phase \in {"reducing", "completed"},
         NEW taxi \in Taxies, NEW c \in 0 .. max
  PROVE  c \in Answered(taxi)
<1>1. SplitIInv /\ Counted /\ Settled
  BY DEF PartsIInv, PartsInv
<1>2. /\ mid \in Nat /\ max = 2 * mid - 1 /\ Covered /\ cur_taxi = taxies /\ taxies \in Nat
      /\ instance \in Instances /\ n \in Nat
  <2>1. passengers # 0 /\ instance \in Instances
    BY <1>1, Facts, WordSizes
  <2> QED BY <1>1, <2>1, Sizes, Facts DEF SplitIInv, SplitInv, Position
<1>3. PICK d \in mid .. max : c \in {d, max - d}
  <2>1. CASE c >= mid
    BY <2>1, <1>2
  <2>2. CASE ~(c >= mid)
    <3>1. max - c \in mid .. max /\ c = max - (max - c)
      BY <2>2, <1>2
    <3> QED BY <3>1
  <2> QED BY <2>1, <2>2
<1>4. Made(taxi, d)
  BY <1>2 DEF Made, Taxies
<1>5. PICK task \in sent : task.taxi = taxi /\ task.combinations = {d, max - d}
  BY <1>2, <1>4 DEF Covered
<1>6. Members = {}
  <2>1. tasks.len = 0
    BY <1>1 DEF Settled, TaskSet!is_empty
  <2>2. tasks.len = Cardinality(Members) /\ Members \subseteq 0 .. n - 1
    BY <1>1, <1>2, CountedIs
  <2>3. IsFiniteSet(Members)
    <3>1. IsFiniteSet(0 .. n - 1)
      BY <1>2, FS_Interval
    <3> QED BY <2>2, <3>1, FS_Subset
  <2> QED BY <2>1, <2>2, <2>3, FS_EmptySet
<1>7. ~Open(task)
  <2>1. task.id \in Nat
    BY <1>1, Facts
  <2> QED BY <1>6, <2>1, OpenIs
<1> QED BY <1>3, <1>5, <1>7 DEF Answered

(* The reducer finds the distance of every set of passengers.              *)
LEMMA BufFound ==
  ASSUME PartsIInv, KeysFit, taxies <= passengers, phase = "reducing", NEW number, NEW taxi \in Taxies
  PROVE  Parts!contains_key(parts[taxi], Buf(number)[taxi])
<1> DEFINE S == {passenger \in 0 .. told - 1 : TaxiOf(number, passenger) = taxi}
           k == (told \div word) + 1
           m == parts[taxi]
<1>1. /\ instance \in Instances /\ word \in Nat \ {0} /\ taxies \in Nat /\ passengers \in Nat
      /\ passengers % word \in Nat /\ 2 <= (passengers % word) + 1 /\ passengers < 2 * word
  BY Facts, WordSizes DEF PartsIInv, KeysFit
<1>2. Buf(number)[taxi] = TaskSet!Words(S, word, k)
  BY DEF Buf
<1>3. k \in Nat /\ k <= 2 /\ told \in Nat /\ told <= word * k
  <2>1. told \in Nat /\ told <= passengers /\ told < 2 * word
    BY <1>1 DEF told
  <2> DEFINE q == told \div word
             r == told % word
  <2>2. q \in Nat /\ r \in 0 .. word - 1 /\ told = word * q + r
    BY <1>1, <2>1, DivMod
  <2> HIDE DEF q, r
  <2>3. q < 2
    <3> SUFFICES ASSUME 2 <= q PROVE FALSE
      BY <2>2
    <3>1. word * 2 <= word * q /\ word * q \in Nat
      BY <1>1, <2>2
    <3> QED BY <1>1, <2>1, <2>2, <3>1
  <2>4. word * (q + 1) = word * q + word /\ word * q \in Nat
    BY <1>1, <2>2
  <2>5. told <= word * (q + 1)
    BY <1>1, <2>1, <2>2, <2>4
  <2> QED BY <2>1, <2>2, <2>3, <2>5 DEF q
<1> HIDE DEF k
<1>4. S \in SUBSET (0 .. passengers - 1) /\ S \subseteq 0 .. word * k - 1
  <2>1. told <= passengers /\ word * k \in Int
    BY <1>1, <1>3 DEF told
  <2>2. 0 .. told - 1 \subseteq 0 .. passengers - 1 /\ 0 .. told - 1 \subseteq 0 .. word * k - 1
    BY <1>1, <1>3, <2>1
  <2> QED BY <2>2
<1> HIDE DEF S, m
<1>5. m.levels = (passengers % word) + 1 /\ DOMAIN m.vec = KeysOf(taxi)
  <2>1. Keyed
    BY DEF PartsIInv, PartsInv
  <2> QED BY <1>1, <2>1, KeyedIs DEF m
<1>6. k <= m.levels
  BY <1>1, <1>3, <1>5
<1>7. PICK c \in 0 .. max : /\ Parts!Fits(m, TaskSet!Words(S, word, k))
                            /\ Parts!Along(m, TaskSet!Words(S, word, k)) = Key(c)
  BY <1>1, <1>3, <1>4, <1>5, <1>6, KeyOfSet
<1>8. Key(c) \in KeysOf(taxi)
  BY AllKeys DEF KeysOf
<1> QED BY <1>2, <1>5, <1>7, <1>8 DEF Parts!contains_key, m

PipelineIInv == PartsIInv /\ (KeysFit /\ taxies <= passengers => ~failed)

LEMMA InitPipeline == Init => PipelineIInv
BY InitParts DEF PipelineIInv, Init

LEMMA PipelineStep ==
  ASSUME PipelineIInv, [Next]_vars
  PROVE  PipelineIInv'
<1>1. PartsIInv /\ SplitIInv /\ SplitIInv'
  BY SplitStep DEF PipelineIInv, PartsIInv
<1>2. instance' = instance
  BY DEF Next, NextTask, SplitterExhausted, process_result, StartReducing, Reduce,
         ReducerExhausted, vars
<1>3. taxies' = taxies /\ passengers' = passengers /\ word' = word /\ (KeysFit' <=> KeysFit)
  BY <1>2 DEF taxies, passengers, word, KeysFit
<1>4. ASSUME PartsIInv', ~(phase = "reducing" /\ Reduce), failed' = failed PROVE PipelineIInv'
  BY <1>3, <1>4 DEF PipelineIInv
<1>5. ~KeysFit' \/ Settled
  BY <1>1, <1>3 DEF PartsIInv, PartsInv
<1>6. CASE ~KeysFit'
  BY <1>1, <1>6 DEF PipelineIInv, PartsIInv
<1>7. CASE NextTask
  BY <1>1, <1>3, <1>7, NextTaskParts DEF PipelineIInv, NextTask, reducer
<1>8. CASE SplitterExhausted /\ Settled
  <2>1. Settled' /\ PartsIInv'
    BY <1>1, <1>8, SameParts DEF SplitterExhausted, Settled, splitter
  <2> QED BY <1>3, <1>8, <2>1 DEF PipelineIInv, SplitterExhausted, reducer
<1>9. ASSUME NEW task \in sent, process_result(task) PROVE PipelineIInv'
  BY <1>1, <1>3, <1>9, ResultParts DEF PipelineIInv, process_result, reducer
<1>10. CASE StartReducing /\ Settled
  <2>1. Settled' /\ PartsIInv'
    BY <1>1, <1>10, SameParts DEF StartReducing, Settled, splitter
  <2> QED BY <1>3, <1>10, <2>1 DEF PipelineIInv, StartReducing
<1>11. CASE Reduce /\ Settled
  <2>1. Settled' /\ PartsIInv'
    BY <1>1, <1>11, SameParts DEF Reduce, Settled, splitter
  <2>2. ASSUME KeysFit, taxies <= passengers PROVE ~failed'
    <3>1. phase = "reducing"
      BY <1>11 DEF Reduce
    <3>2. \A taxi \in Taxies : Parts!contains_key(parts[taxi], Buf(left')[taxi])
      BY <1>1, <2>2, <3>1, BufFound
    <3>3. (\A taxi \in {t \in Taxies : \E k \in DOMAIN Buf(left')[t] : Buf(left')[t][k] # {}} :
              Parts!contains_key(parts[taxi], Buf(left')[taxi])) => failed' = FALSE
      BY <1>11 DEF Reduce
    <3> QED BY <3>2, <3>3
  <2> QED BY <1>3, <2>1, <2>2 DEF PipelineIInv
<1>12. CASE ReducerExhausted /\ Settled
  <2>1. Settled' /\ PartsIInv'
    BY <1>1, <1>12, SameParts DEF ReducerExhausted, Settled, splitter
  <2> QED BY <1>3, <1>12, <2>1 DEF PipelineIInv, ReducerExhausted, reducer
<1>13. CASE UNCHANGED vars /\ Settled
  <2>1. Settled' /\ PartsIInv'
    BY <1>1, <1>13, SameParts DEF vars, Settled, splitter
  <2> QED BY <1>3, <1>13, <2>1 DEF PipelineIInv, vars, reducer
<1> QED BY <1>5, <1>6, <1>7, <1>8, <1>9, <1>10, <1>11, <1>12, <1>13 DEF Next

(* While results come, in any order and more than once, the set of open    *)
(* tasks (TaskSet, BitSet) and the maps of distances tell the same, for    *)
(* any number of passengers whose keys fit the maps.                       *)
THEOREM OpenTasks == Spec => [](KeysFit => OpenTasksExact)
<1>1. PipelineIInv => (KeysFit => OpenTasksExact)
  <2> SUFFICES ASSUME PipelineIInv, KeysFit PROVE OpenTasksExact
    OBVIOUS
  <2> DEFINE Kept(task) == \A c \in task.combinations : Parts!contains_key(parts[task.taxi], split(c))
             open == {task.id : task \in {t \in sent : ~Kept(t)}}
  <2>1. PartsIInv /\ SplitIInv /\ Counted /\ Keyed
    BY DEF PipelineIInv, PartsIInv, PartsInv
  <2>2. /\ instance \in Instances /\ word \in Nat \ {0} /\ n \in Nat
        /\ mid \in Nat /\ max \in Nat /\ mid <= max /\ max <= 2 * mid
        /\ \A t \in sent : t.id \in 0 .. n - 1 /\ t.taxi \in Taxies /\ t.combinations \subseteq 0 .. max
    BY <2>1, Facts
  <2>3. tasks \in TaskSets(word) /\ Members \subseteq 0 .. n - 1 /\ tasks.len = Cardinality(Members)
    BY <2>1, <2>2, CountedIs
  <2>4. ASSUME NEW t \in sent PROVE Kept(t) <=> t.id \notin Members
    <3>1. \A c : Parts!contains_key(parts[t.taxi], split(c)) <=> Key(c) \in KeysOf(t.taxi)
      <4>1. parts[t.taxi].levels = (passengers % word) + 1 /\ DOMAIN parts[t.taxi].vec = KeysOf(t.taxi)
        BY <2>1, <2>2, KeyedIs
      <4> QED BY <2>2, <4>1, SplitAlong DEF Parts!contains_key
    <3>2. Open(t) <=> t.id \in Members
      BY <2>2, OpenIs
    <3>3. ASSUME t.id \notin Members PROVE Kept(t)
      <4>1. t.combinations \subseteq Answered(t.taxi)
        BY <3>2, <3>3 DEF Answered
      <4> QED BY <3>1, <4>1 DEF KeysOf
    <3>4. ASSUME t.id \in Members, Kept(t) PROVE FALSE
      <4>1. PICK c \in mid .. max : t.combinations = {c, max - c}
        BY <2>1, Facts
      <4>2. PICK d \in Answered(t.taxi) : Key(c) = Key(d)
        BY <3>1, <3>4, <4>1 DEF KeysOf
      <4>3. PICK u \in sent : u.taxi = t.taxi /\ ~Open(u) /\ d \in u.combinations
        BY DEF Answered
      <4>4. c \in 0 .. max /\ d \in 0 .. max
        BY <2>2, <4>1, <4>3
      <4>5. c = d
        BY <2>2, <4>2, <4>4, KeysApart
      <4>6. PICK e \in mid .. max : u.combinations = {e, max - e}
        BY <2>1, Facts
      <4>7. {e, max - e} = {c, max - c}
        <5>1. c = e \/ c = max - e
          BY <4>3, <4>5, <4>6
        <5> QED BY <2>2, <5>1
      <4>8. u = t
        <5>1. \A a, b \in sent : a.taxi = b.taxi /\ a.combinations = b.combinations => a = b
          BY <2>1 DEF SplitIInv, SplitInv, Covered
        <5> QED BY <4>1, <4>3, <4>6, <4>7, <5>1
      <4> QED BY <3>2, <3>4, <4>3, <4>8
    <3> QED BY <3>3, <3>4
  <2>5. \A id \in 0 .. n - 1 : \E t \in sent : t.id = id
    BY <2>1 DEF SplitIInv, SplitInv, Numbered
  <2> HIDE DEF Kept
  <2>6. open = Members
    <3>1. \A id \in Members : \E t \in sent : t.id = id /\ ~Kept(t)
      BY <2>3, <2>4, <2>5
    <3> QED BY <2>4, <3>1
  <2>7. ToSet(TaskSet!iter(tasks, word)) = Members
    BY <2>2, <2>3, IterIs DEF Members
  <2> QED BY <2>3, <2>6, <2>7 DEF OpenTasksExact, Kept
<1>2. PipelineIInv /\ [Next]_vars => PipelineIInv'
  BY PipelineStep
<1> QED BY InitPipeline, <1>1, <1>2, PTL DEF Spec

(* The unwrap() in TaskReducer::next finds every distance it asks for, as  *)
(* long as there are no more taxies than passengers and the keys fit.      *)
THEOREM DistancesFound == Spec => [](KeysFit /\ taxies <= passengers => PartsFound)
<1>1. PipelineIInv => (KeysFit /\ taxies <= passengers => PartsFound)
  BY DEF PipelineIInv, PartsFound
<1>2. PipelineIInv /\ [Next]_vars => PipelineIInv'
  BY PipelineStep
<1> QED BY InitPipeline, <1>1, <1>2, PTL DEF Spec
=============================================================================
