----------------------------- MODULE JobPipeline -----------------------------
(***************************************************************************)
(* One job of the task manager, from its data to its answer: the splitter  *)
(* (task_manager/src/splitter.rs) makes the tasks, nodes compute them      *)
(* (module PathFinding), their results are kept in maps (process_result)   *)
(* and the reducer (task_manager/src/reducer.rs) takes the minimum over    *)
(* the ways to give each passenger to a taxi.                              *)
(*                                                                         *)
(* A combination of passengers is the number whose bits they are.  What a  *)
(* node computes depends on the job alone, so that the distances are       *)
(* computed once.  Restarts and errors are in module TaskManager.          *)
(***************************************************************************)
EXTENDS PathFinding, Functions

CONSTANTS
    Instances,  \* the data of jobs, and the bits of a word: 64 in the code
    Infinity    \* Distance::MAX

(* Taxies and passengers come in vectors, and a word has bits. *)
ASSUME PipelineAssumption ==
    \A data \in Instances :
        /\ IsFiniteSet(DOMAIN data.taxies) /\ IsFiniteSet(DOMAIN data.passengers)
        /\ data.word \in Nat \ {0}

TaskSet == INSTANCE BitSet
Parts == INSTANCE MultilevelVecMap

VARIABLES
    instance,
    distance,           \* of each taxi and combination, as the nodes compute it
    phase,
    n, cur_taxi, cur,   \* TaskSplitter
    sent,               \* tasks produced
    tasks,              \* TaskSet: the numbers of those without an answer
    parts,              \* for each taxi the distances stored, by combination
    left,               \* CombinationGenerator.n
    minimal,
    failed              \* the reducer has hit the unwrap() of a missing part

splitter == <<n, cur_taxi, cur>>
reducer == <<left, minimal, failed>>
vars == <<instance, distance, phase, splitter, sent, tasks, parts, reducer>>

taxies == Count(instance.taxies)
passengers == Count(instance.passengers)
word == instance.word
Taxies == 0 .. taxies - 1
Pow2[k \in Nat] == IF k = 0 THEN 1 ELSE 2 * Pow2[k - 1]
max == Pow2[passengers] - 1
mid == Pow2[passengers] \div 2
total_tasks == mid * taxies

(* The passengers of a combination, and its words. *)
Bits(c) == {p \in 0 .. passengers - 1 : (c \div Pow2[p]) % 2 = 1}
split(c) == TaskSet!Words(Bits(c), word, 2)

(* Only data that are valid make a job.  There is a map for each taxi,     *)
(* with (passengers % 64) + 1 levels.                                      *)
Init ==
    /\ instance \in Instances
    /\ validate(instance)
    /\ distance = [taxi \in Taxies |-> [c \in 0 .. max |-> job(instance, taxi, split(c), word)]]
    /\ phase = "splitting"
    /\ n = 0 /\ cur_taxi = 0 /\ cur = mid
    /\ sent = {} /\ tasks = TaskSet!with_capacity
    /\ parts = [taxi \in Taxies |-> Parts!with_capacity((passengers % word) + 1)]
    /\ left = 0 /\ minimal = Infinity /\ failed = FALSE
-----------------------------------------------------------------------------
(* TaskSplitter::next; max^cur is the complement of cur. *)
AtMaxEarly == cur + 1 >= max
AtMax == cur = max

NextTask ==
    /\ phase = "splitting"
    /\ cur_taxi < taxies
    /\ LET task == [id |-> n, taxi |-> cur_taxi, combinations |-> {cur, max - cur}]
       IN  sent' = sent \cup {task} /\ tasks' = TaskSet!insert(tasks, word, n)
    /\ n' = n + 1
    /\ cur_taxi' = IF AtMax THEN cur_taxi + 1 ELSE cur_taxi
    /\ cur' = IF AtMax THEN mid ELSE cur + 1
    /\ UNCHANGED <<instance, distance, phase, parts, reducer>>

SplitterExhausted ==
    /\ phase = "splitting"
    /\ cur_taxi = taxies
    /\ phase' = "waiting"
    /\ UNCHANGED <<instance, distance, splitter, sent, tasks, parts, reducer>>
-----------------------------------------------------------------------------
(* What the map of a taxi becomes with the distances of a task. *)
StoredFirst(task, m) ==
    LET c == Max(task.combinations) IN Parts!insert(m, split(c), distance[task.taxi][c])

Stored(task, m) ==
    LET Put(acc, c) == Parts!insert(acc, split(c), distance[task.taxi][c])
    IN  Put(Put(m, Max(task.combinations)), Min(task.combinations))

(* process_result: a result that has come before is ignored. *)
process_result(task) ==
    /\ tasks' = TaskSet!remove(tasks, word, task.id)
    /\ parts' = IF TaskSet!contains(tasks, word, task.id)
                THEN [parts EXCEPT ![task.taxi] = Stored(task, @)] ELSE parts
    /\ UNCHANGED <<instance, distance, phase, splitter, sent, reducer>>

(* WaitingTasksCompletions: the reducer is told that there are as many     *)
(* passengers as taxies.                                                   *)
told == taxies
Assignments == taxies^told

StartReducing ==
    /\ phase = "waiting"
    /\ TaskSet!is_empty(tasks)
    /\ phase' = "reducing"
    /\ left' = Assignments
    /\ UNCHANGED <<instance, distance, splitter, sent, tasks, parts, minimal, failed>>

(* extract_combination: the digits of the number in base taxies. *)
TaxiOf(number, passenger) == (number \div taxies^(told - 1 - passenger)) % taxies

(* The passengers of each taxi, as the words of buf. *)
Buf(number) ==
    [taxi \in Taxies |->
        TaskSet!Words({passenger \in 0 .. told - 1 : TaxiOf(number, passenger) = taxi}, word,
                      told \div word + 1)]

(* TaskReducer::next; a taxi without passengers is passed over. *)
Reduce ==
    /\ phase = "reducing"
    /\ left > 0
    /\ ~failed
    /\ left' = left - 1
    /\ LET buf == Buf(left')
           busy == {taxi \in Taxies : \E k \in DOMAIN buf[taxi] : buf[taxi][k] # {}}
           sum == MapThenSumSet(LAMBDA taxi : Parts!get(parts[taxi], buf[taxi]), busy)
       IN  IF \A taxi \in busy : Parts!contains_key(parts[taxi], buf[taxi])
           THEN minimal' = Min({minimal, sum}) /\ failed' = FALSE
           ELSE minimal' = minimal /\ failed' = TRUE
    /\ UNCHANGED <<instance, distance, phase, splitter, sent, tasks, parts>>

ReducerExhausted ==
    /\ phase = "reducing"
    /\ left = 0
    /\ ~failed
    /\ phase' = "completed"
    /\ UNCHANGED <<instance, distance, splitter, sent, tasks, parts, reducer>>
-----------------------------------------------------------------------------
Next ==
    \/ NextTask
    \/ SplitterExhausted
    \/ \E task \in sent : process_result(task)
    \/ StartReducing
    \/ Reduce
    \/ ReducerExhausted

Spec == Init /\ [][Next]_vars
-----------------------------------------------------------------------------
(* The splitter announces as many tasks as it makes, with the numbers from *)
(* 0 on, and they ask for every combination for every taxi, each exactly   *)
(* once (TaskSplitter::total_tasks and next).                              *)
TasksCover ==
    phase # "splitting" =>
        /\ {task.id : task \in sent} = 0 .. total_tasks - 1
        /\ Cardinality(sent) = total_tasks
        /\ \A taxi \in Taxies, c \in 0 .. max :
              Cardinality({task \in sent : task.taxi = taxi /\ c \in task.combinations}) = 1

(* The reducer finds a distance for each combination it asks for: the      *)
(* unwrap() in TaskReducer::next never fails.                              *)
PartsFound == ~failed

(* While results come, in any order and more than once, the task set has   *)
(* exactly the tasks sent whose distances are not stored, and its length,  *)
(* by which the end of the phase is seen, counts them (BitSet, TaskSet).   *)
OpenTasksExact ==
    LET Kept(task) == \A c \in task.combinations : Parts!contains_key(parts[task.taxi], split(c))
        open == {task.id : task \in {t \in sent : ~Kept(t)}}
    IN  ToSet(TaskSet!iter(tasks, word)) = open /\ tasks.len = Cardinality(open)

(* The answer of the job is the least total distance over all ways to give *)
(* each passenger to a taxi and all orders in which a taxi drives its      *)
(* passengers, along shortest paths of the graph (path_finding.rs, the     *)
(* splitter and the reducer together).                                     *)
Total(f) ==
    MapThenSumSet(LAMBDA taxi : LeastDrive(instance, taxi, {p \in DOMAIN f : f[p] = taxi}), Taxies)
AnswerMinimal ==
    phase = "completed" =>
        minimal = Min({Total(f) : f \in [0 .. passengers - 1 -> Taxies]})
-----------------------------------------------------------------------------
(* The inductive invariant for TasksCover: where the splitter stands, and  *)
(* that the tasks sent are those of the combinations before that place.    *)
Made(taxi, c) ==
    /\ taxi \in Taxies /\ c \in mid .. max
    /\ taxi < cur_taxi \/ (taxi = cur_taxi /\ c < cur)

Position ==
    /\ cur_taxi \in 0 .. taxies /\ cur \in mid .. max
    /\ cur_taxi = taxies => cur = mid
    /\ phase # "splitting" => cur_taxi = taxies
    /\ n = cur_taxi * (max - mid + 1) + (cur - mid)

Numbered ==
    /\ \A task \in sent : task.id \in 0 .. n - 1
    /\ \A id \in 0 .. n - 1 : \E task \in sent : task.id = id
    /\ \A a, b \in sent : a.id = b.id => a = b

Covered ==
    /\ \A task \in sent : \E c \in mid .. max : Made(task.taxi, c) /\ task.combinations = {c, max - c}
    /\ \A taxi \in Taxies, c \in mid .. max :
          Made(taxi, c) => \E task \in sent : task.taxi = taxi /\ task.combinations = {c, max - c}
    /\ \A a, b \in sent : a.taxi = b.taxi /\ a.combinations = b.combinations => a = b

SplitInv == Position /\ Numbered /\ Covered
-----------------------------------------------------------------------------
(* Two words hold every combination and a map takes keys of two words.     *)
KeysFit == passengers % word # 0 /\ passengers < 2 * word

(* The combinations of a taxi whose distances have come. *)
Open(task) == TaskSet!contains(tasks, word, task.id)
Answered(taxi) == UNION {task.combinations : task \in {t \in sent : t.taxi = taxi /\ ~Open(t)}}

(* The inductive invariant for OpenTasksExact and PartsFound: the task set *)
(* has only numbers of tasks made and counts them, each map has exactly    *)
(* the keys of the combinations answered, and the reducer starts when no   *)
(* task is open.                                                           *)
Counted ==
    /\ tasks \in [len : Nat, inner : Seq(SUBSET (0 .. word - 1))]
    /\ \A id \in 0 .. Len(tasks.inner) * word : TaskSet!contains(tasks, word, id) => id < n
    /\ tasks.len = Cardinality({id \in 0 .. n - 1 : TaskSet!contains(tasks, word, id)})

Keyed ==
    /\ DOMAIN parts = Taxies
    /\ \A taxi \in Taxies :
          /\ DOMAIN parts[taxi] = {"n", "levels", "vec"}
          /\ parts[taxi].levels = (passengers % word) + 1
          /\ DOMAIN parts[taxi].vec = {Parts!Along(parts[taxi], split(c)) : c \in Answered(taxi)}

Settled ==
    /\ phase \in {"splitting", "waiting", "reducing", "completed"}
    /\ phase \in {"reducing", "completed"} => TaskSet!is_empty(tasks)

PartsInv == Counted /\ Keyed /\ Settled
=============================================================================
