------------------------------ MODULE Benchmark ------------------------------
(***************************************************************************)
(* The benchmark program (bench/main.cpp with include/benchmark.hpp): for  *)
(* each scheduler and each number of threads three workloads, each of them *)
(* set up and run twice, the second time for the record.                   *)
(*                                                                         *)
(* The schedulers are any IScheduler, through the abstract specification,  *)
(* with workers that execute one task at a time.  What a task computes,    *)
(* clocks and printing are left out.                                       *)
(***************************************************************************)
EXTENDS Naturals, Sequences, Functions

CONSTANTS
  Hw,           \* hardware_concurrency()
  Schedulers,   \* how many schedulers are measured
  MayHang,      \* those of them whose run() may not return (see MutexQueue!OnlyHung)
  TreeDepth,    \* depth of the recursive workload
  CpuTasks,     \* tasks of the CPU-bound workload
  TinyTasks,    \* tasks of the workload of tiny tasks
  RingSize      \* kRingSize of the lock-free queue

ASSUME HwAssumption == Hw \in Nat \ {0} /\ Schedulers \in Nat \ {0}
ASSUME HangAssumption == MayHang \subseteq 1..Schedulers
ASSUME SizeAssumption == TreeDepth \in Nat /\ CpuTasks \in Nat /\ TinyTasks \in Nat

\* A task of the recursive workload is known by its depth; the others are alike.
Flat  == TreeDepth + 1
Tasks == 0..Flat

-----------------------------------------------------------------------------
\* The numbers of threads: 1, 2, 3, 4, 8, ... up to Hw.
CountsFrom[n \in 1..2*Hw] ==
  IF n > Hw THEN <<>> ELSE <<n>> \o CountsFrom[IF n < 4 THEN n + 1 ELSE n * 2]
ThreadCounts == CountsFrom[1]

\* uint64_t(1) << d.
Shifted[d \in Tasks] == IF d = 0 THEN 1 ELSE 2 * Shifted[d - 1]

\* Variant: the leaves are not counted.
TreeSizeInner(d) == Shifted[d] - 1

TreeSize(d) == Shifted[d + 1] - 1

\* The sizes are chosen for the ring: 50'000 and 100'000 tasks, and a tree with 4096
\* leaves on at most 126'976 threads, for 131'072 slots.
ASSUME RingAssumption ==
  /\ RingSize \in Nat /\ CpuTasks <= RingSize /\ TinyTasks <= RingSize
  /\ Shifted[TreeDepth] + Hw <= RingSize

\* What each workload submits before run(), and how many tasks it says that makes.
Workloads ==
  << [root |-> Flat,      roots |-> CpuTasks,  total |-> CpuTasks],
     [root |-> TreeDepth, roots |-> 1,         total |-> TreeSize(TreeDepth)],
     [root |-> Flat,      roots |-> TinyTasks, total |-> TinyTasks] >>

VARIABLES
  sched,      \* the scheduler measured
  place,      \* the place in ThreadCounts
  bench,      \* the workload
  pass,       \* "warm-up" or "timed" pass of run_bench, or "table" at the end
  submitted,  \* submissions made by the set-up so far
  count,      \* g_task_count
  task,       \* the task each worker executes
  spawned,    \* how many children it has submitted
  executed,   \* history: executions that ended in this pass
  results,    \* all_results, with executed and g_task_count at the end of the pass
  todo, running, done, driver   \* the scheduler in use

loops == <<sched, place, bench>>
state == <<todo, running, done, driver>>
vars == <<loops, pass, submitted, count, task, spawned, executed, results, state>>

Sched == INSTANCE Scheduler

NumWorkers == ThreadCounts[place]
Workload == Workloads[bench]
Workers == 1..Hw
Idle == Flat + 1

Init ==
  /\ sched = 1 /\ place = 1 /\ bench = 1
  /\ pass = "warm-up" /\ submitted = 0
  /\ count = 0 /\ executed = 0
  /\ task = [w \in Workers |-> Idle]
  /\ spawned = [w \in Workers |-> 0]
  /\ results = <<>>
  /\ Sched!Init

-----------------------------------------------------------------------------
\* The set-up functions, one submission at a time.

\* Variant: the counter is not reset.
AtSetUpKept == count

AtSetUp == IF Workload.root # Flat THEN 0 ELSE count

\* Variant: one submission too many.
SetUpGoesTooFar == submitted <= Workload.roots

SetUpGoesOn == submitted < Workload.roots

SetUp ==
  /\ pass # "table" /\ driver = "out" /\ SetUpGoesOn
  /\ submitted' = submitted + 1
  /\ count' = AtSetUp
  /\ Sched!Submit(Workload.root)
  /\ UNCHANGED <<loops, pass, task, spawned, executed, results>>

-----------------------------------------------------------------------------
\* Tasks, on the workers that run() has started

\* Variant: one worker less.
CrewLess == 1..NumWorkers-1

Crew == 1..NumWorkers

Start(w, k) ==
  /\ w \in Crew /\ task[w] = Idle
  /\ Sched!Start(k)
  /\ task' = [task EXCEPT ![w] = k]
  /\ count' = IF k = Flat THEN count ELSE count + 1
  /\ UNCHANGED <<loops, pass, submitted, spawned, executed, results>>

\* recursive_spawn submits two tasks, unless it is at depth 0.
Children(k) == IF k \in {0, Flat} THEN 0 ELSE 2

Spawn(w) ==
  /\ task[w] # Idle /\ spawned[w] < Children(task[w])
  /\ Sched!Submit(task[w] - 1)
  /\ spawned' = [spawned EXCEPT ![w] = @ + 1]
  /\ UNCHANGED <<loops, pass, submitted, count, task, executed, results>>

Finish(w) ==
  /\ task[w] # Idle /\ spawned[w] = Children(task[w])
  /\ Sched!Finish(task[w])
  /\ task' = [task EXCEPT ![w] = Idle]
  /\ spawned' = [spawned EXCEPT ![w] = 0]
  /\ executed' = executed + 1
  /\ UNCHANGED <<loops, pass, submitted, count, results>>

-----------------------------------------------------------------------------
\* run_bench, and the loops around it

Run ==
  /\ pass # "table" /\ ~SetUpGoesOn
  /\ Sched!Run
  /\ UNCHANGED <<loops, pass, submitted, count, task, spawned, executed, results>>

Result == [sched |-> sched, bench |-> bench, num_workers |-> NumWorkers,
           num_tasks |-> Workload.total, executed |-> executed, counted |-> count]

\* Variant: the last number of threads is left out.
MoreThreadsShort == place + 1 < Len(ThreadCounts)

MoreThreads == place < Len(ThreadCounts)

\* The innermost loop that has a next turn takes it.
NextTurn ==
  IF bench < Len(Workloads) THEN <<sched, place, bench + 1>>
  ELSE IF MoreThreads       THEN <<sched, place + 1, 1>>
  ELSE <<sched + 1, 1, 1>>

\* run() returns.  An idle scheduler is as good as a new one for the next turn.
Return ==
  /\ Sched!Return
  /\ executed' = 0 /\ submitted' = 0
  /\ IF pass = "warm-up"
     THEN pass' = "timed" /\ UNCHANGED <<loops, results>>
     ELSE /\ results' = Append(results, Result)
          /\ sched' = NextTurn[1] /\ place' = NextTurn[2] /\ bench' = NextTurn[3]
          /\ pass' = IF sched' > Schedulers THEN "table" ELSE "warm-up"
  /\ UNCHANGED <<count, task, spawned>>

-----------------------------------------------------------------------------
Worker(w) ==
  \/ \E k \in Tasks : Start(w, k)
  \/ Spawn(w)
  \/ Finish(w)

Next ==
  \/ SetUp
  \/ Run
  \/ Return
  \/ \E w \in Workers : Worker(w)

Spec == Init /\ [][Next]_vars

\* The program goes on, and so do the workers that run() started; run() returns,
\* but for a scheduler whose run() may hang.
Fairness ==
  /\ WF_vars(SetUp \/ Run \/ (sched \notin MayHang /\ Return))
  /\ \A w \in Workers : WF_vars(Worker(w))

FairSpec == Spec /\ Fairness

-----------------------------------------------------------------------------
(***************************************************************************)
(* Properties.                                                             *)
(***************************************************************************)

\* The variables have their types; g_task_count never exceeds the size of the tree.
TypeOK ==
  /\ sched \in 1..Schedulers+1
  /\ place \in 1..Len(ThreadCounts)
  /\ bench \in 1..3
  /\ pass \in {"warm-up", "timed", "table"}
  /\ submitted \in 0..Workload.roots
  /\ count \in 0..TreeSize(TreeDepth)
  /\ task \in [Workers -> 0..Idle]
  /\ spawned \in [Workers -> 0..2]

\* What a row of the table says was executed in the measured time is what was: the
\* tasks of that workload, all of them, once, and none of the pass before.
MeasuresAll ==
  \A i \in DOMAIN results :
    /\ results[i].executed = results[i].num_tasks
    /\ results[i].bench = 2 => results[i].counted = results[i].num_tasks

\* The speedup table finds a row for each scheduler and workload at the last
\* number of threads, and only one.
FindsRows ==
  pass = "table" =>
    \A s \in 1..Schedulers, b \in 1..3 :
      \E i \in DOMAIN results : \A j \in DOMAIN results :
        (i = j) <=> /\ results[j].sched = s /\ results[j].bench = b
                    /\ results[j].num_workers = ThreadCounts[Len(ThreadCounts)]

\* What include/lockfree_queue_scheduler.hpp:66 relies on, and the condition under
\* which its submit() returns: there are never more unfinished tasks than the ring
\* has slots.  A flat workload has all of its tasks unfinished at once, a tree at
\* most one for each leaf and each worker, and passes leave none to the next one.
HighWater == SumFunction(todo) + SumFunction(running) <= RingSize

\* The program gets to its table, unless the run() of a scheduler that may hang does,
\* with every task of the pass executed.
Hung ==
  /\ sched \in MayHang /\ driver = "in"
  /\ executed = Workload.total
Ends == <>(pass = "table") \/ <>[]Hung
=============================================================================
