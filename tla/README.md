# Formal models of the task scheduler runtime

TLA+ specifications, TLC model checks and TLAPS proofs for the C++ runtime in
`src/include`: a Chase-Lev work-stealing deque, three schedulers behind one
interface (`IScheduler`), and a task graph on top of any of them.

## 1. The system

| Component | State | Operations | Shared with |
|---|---|---|---|
| **Chase-Lev deque** (`chase_lev_deque.hpp`) | `top_`, `bot_`, `array_`, `old_arrays_` | `push_bottom`, `pop_bottom` (owner), `steal` (thieves), destructor | owner and thieves, no locks |
| **Scheduler interface** (`scheduler.hpp`, `task.hpp`) | none | `submit`, `run` | clients: the driver between runs, and running tasks |
| **Mutex queue** (`mutex_queue_scheduler.hpp`) | `queue_`, `pending_`, `shutdown_`, `mu_`, `cv_`, `done_cv_` | `submit`, `run`, `worker_loop`, destructor | driver and workers through the mutex; `pending_` outside it |
| **Lock-free queue** (`lockfree_queue_scheduler.hpp`) | `head_`, `tail_`, `ring_` (sequence, payload), `pending_`, `shutdown_` | `submit`/`enqueue`, `dequeue`, `run`, `worker_loop`, destructor | all threads, no locks |
| **Work stealing** (`work_stealing_scheduler.hpp`) | a deque per worker, `inject_queue_`, `pending_`, `shutdown_`, `tl_worker_id_` | `submit`, `run`, `worker_loop` with its steal sweep | workers through their deques |
| **Task graph** (`task_graph.hpp`) | `nodes_`, `successors_`, `deps_remaining_`, `remaining_nodes_` | `node`, `depends_on`, `execute`, the task of `submit_node` | node tasks through the counters; the scheduler |
| **Benchmark harness** (`benchmark.hpp`, `bench/`) | `g_task_count`, `all_results`, `prev_stage`, `cur_stage` | `run_suite`, `run_bench`, the set-up functions, `recursive_spawn`, `time_dag_workload` | client of the schedulers and of the task graph |
| **Tests, build files** | | | clients of the above |

Tasks are callbacks: a task runs in a worker and may call `submit` on its
scheduler. The driver submits, calls `run(n)`, which starts `n` threads and joins
them when `pending_` has reached zero, and may do so again.

What is hard: the race for the last element of a deque and the fence it depends
on; thieves inside an array that was replaced; sleeping and waking up on two
condition variables with a counter that is not under the mutex; slots that are
filled and given back out of order in a bounded ring; deciding that all work is
finished while it creates more work; tasks that never return, or that wait for their
children; predecessors of a node that finish at the same time, and whose writes the
node must see. What makes each part correct:

* deque: each task leaves it once, to one thread; operations look atomic; a null
  answer of `pop_bottom` means empty;
* schedulers: each submission is executed once, `run()` returns when and only when
  nothing is unfinished, workers leave only when there is nothing left to do, and a
  waiting task is started as long as one worker is not in a task that never returns;
* task graph: each node is submitted once, after all of its predecessors, sees what
  they wrote, and when `execute()` returns all have run that no cycle precedes;
* benchmarks: a row measures its own tasks and no others, and unfinished tasks stay
  within the bound that the ring of the lock-free queue needs.

## 2. The modules

    WorkDeque  <--implements--  ChaseLevDeque
        | its atomic operations are the deque operations of
        v
    WorkStealing --EXTENDS--> Victims <--EXTENDS-- StealSweep
        |
        | implements
        v
    Scheduler  <--implements--  MutexQueue, LockFreeQueue
        ^
        | INSTANCE
    TaskGraph, Benchmark
        ^
        | EXTENDS
    Pipeline, MCTaskGraph

`MCChaseLevDeque` and `MCLockFreeQueue` extend the modules they are named for.

The proofs about a module are in `<module>_proofs`, for `ChaseLevDeque`, `WorkStealing`,
`StealSweep`, `MutexQueue`, `LockFreeQueue`, `TaskGraph` (with `Pipeline`) and `Benchmark`; what
several of them need is in `CommonFacts`.

**`WorkDeque`**: the abstract deque, a sequence of tasks; owner at one end, thieves
at the other, every call one step.

**`ChaseLevDeque`**: the code's deque. `top` is `top_`. The owner's stores to `bot_`,
`array_` and the slots are plain ones, so `views` keeps the owner's store buffer as
the sequence of memory images its pending stores lead to: the first is memory, as
thieves read it, the last is what the owner reads itself; `Drain` makes one store
visible, `FenceDone` is the full fence of `pop_bottom`. `pop_bottom` is
`PopDecrement`, then one of `PopEmpty`, `PopInner`, `PopLast`, and `PopCas` for the
last element. `steal` is five steps, one per shared access. `push_bottom` is one
step: its one shared read is of `top_`, and its stores enter the buffer one by one.
`InstallReleases = FALSE` adds the order in which the new array's pointer is visible
before its contents, which `array_.store(relaxed)` (line 167) permits.
`MCChaseLevDeque` has the tasks pushed in one order, as which is which makes no
difference to the deque.

**`Scheduler`**: what all schedulers promise, with counters of waiting, running and
finished executions per task.

**`MutexQueue`**: one step per critical section, except `done_cv_.wait`, whose test
(`TestDone`) and going to sleep (`SleepOnDone`) are two steps with `mu_` held between
them, as `Finish` and `NotifyDone` happen without the mutex. Wakeups may be spurious.

In all three schedulers `RunStart` starts any workers, another number of them in each
run. Tasks in `Endless` may stay in their code for ever: such a task
stands for one that loops, and also for one that waits for its own child or for
another task, which the property `Served` then promises will be started.

**`LockFreeQueue`**: one step per access to a shared variable. Producers are the
driver between runs and running tasks; `ClaimFails` includes the spurious failure of
`compare_exchange_weak`. A relaxed load of `tail_` that returns an old value is a load
made earlier, which the interleaving of steps already allows. `MCLockFreeQueue` has the
tasks submitted in one order, but those that may never return at any time.

**`Victims`** and **`StealSweep`**: the choice of victims in a sweep, and one sweep that
finds every deque empty.

**`WorkStealing`**: the scheduler over atomic deques, as `ChaseLevDeque_proofs` justifies:
theorem `Refinement` for the steps, `NullMeansEmptyCorrect` for `PopNothing`;
`StealNothing` is possible in every state, because `steal` may lose a race. `Spawn`
counts a child and `Push` pushes it, since thieves may act between the two. `Foreign`
are the values of `tl_worker_id_` in other threads that submit at any time: `NoWorker`
for an ordinary thread, `i` for worker `i` of another scheduler in the process, which
shares the thread-local.

**`TaskGraph`**: building, `execute()` and the node tasks, step by step, over
`Scheduler`: each step that calls the scheduler is a step of it. The graph is any graph,
with parallel edges and cycles; `MCTaskGraph` bounds the shapes for TLC. `released`
and `known` follow which nodes' writes have reached whom: a counter's `fetch_sub`
releases what its thread knows and acquires what earlier ones released, and a submission
passes on what the submitter knows. Safety shown here
holds over the three schedulers, as each implements `Scheduler`. `ExecuteReturns`
holds over those whose `run()` returns: the lock-free queue within its ring, and
work stealing; not the mutex queue (finding 1 below).

**`Pipeline`**: the graph of `bench/scaling.cpp` (`time_dag_workload`), built by that code's
loops (`NextNode`, `NextEdge`, `NextStage`) out of the steps `Node` and `DependsOn` of
`TaskGraph`, then executed by its other steps. `Ends` holds, as `ExecuteReturns` does, over
schedulers whose `run()` returns; `bench/scaling.cpp` also measures the mutex queue, where
finding 1 excepts it.

**`Benchmark`**: the loops of `bench/main.cpp`, `run_suite` and `run_bench`, with the set-up
functions and the task `recursive_spawn`, over `Scheduler` with a number of workers that
execute one task each. A task of the recursive workload is named by its depth. `MayHang`
are the schedulers whose `run()` is not assumed to return: the mutex queue, the first one
that `main.cpp` measures. `RingSize` is `kRingSize`, and `RingAssumption` says of the sizes
what those in the code satisfy: 50'000 and 100'000 flat tasks, and a tree with 4096 leaves
on at most 126'976 threads, for 131'072 slots.

Definitions whose name extends another's and whose comment calls them a *variant*
(`FullWithoutSpare`, `FenceMissing`, `CountedNot`, ...) are plausible mistakes in the code;
substituted for the definition they follow, each breaks a property. They are
used by no specification.

## 3. What is model-checked

| Run | Bounds | Shows |
|---|---|---|
| `deque_safety` | 4 tasks, 2 thieves, 2 slots at first | types, inductive invariant, `ExactlyOnce`, `NullMeansEmpty`, refinement of `WorkDeque`, `EveryTaskLeaves` (thieves empty the deque without the owner's help) |
| `mutex` | 3 tasks, 1 endless, up to 3 workers, 2 runs | implements `Scheduler`; `NoIdleWorker`; `OnlyHung`; `RunEnds`; `Served` |
| `ring` | 4 tasks, 1 endless, up to 2 workers, 2 slots, 2 runs | implements `Scheduler` even when overfull; `FirstInFirstOut`; `SubmitReturns`, also on a full ring; `RunReturns` and `Served` within the ring |
| `sweep` | 2 to 7 workers | `NeverSelf`, `OverlooksOneAtMost`, `AnyoneFirst` |
| `stealing` | 3 tasks, 1 endless, up to 3 workers, 2 runs | implements `Scheduler`; `LeavesNothing`; `RunReturns`; `Served` |
| `graph` | 4 nodes, 4 edges, one of them at most against the numbering | `SubmittedOnce`, `AfterPredecessors`, `SeesPredecessors`, `Complete`, `ExecuteReturns` |
| `pipeline` | 3 stages of 2 nodes | `StagesInOrder`, `OneStageWaits`, `Ends` |
| `benchmark` | 1 to 4 threads, 2 schedulers of which the first may hang, tree of depth 3, 3 and 12 flat tasks, 12 slots | `MeasuresAll`, `FindsRows`, `HighWater`, `Ends` |

Why the bounds are enough. Deque: with two slots, four tasks make it grow twice
(2, 4, 8), indices wrap, and two thieves and the owner meet at the last element;
the proofs take over from there. Mutex queue: three workers are a spawner, one that
is awake and a sleeper. Ring: with four tasks for two slots a task that executes finds the
ring full when it submits, so that its worker waits for another one, or for ever if there
is none; slots are reused, and a consumer gets a round behind. Work stealing: three workers
are the least with a sweep of two attempts, and two runs reuse the scheduler; a sweep of
three workers visits all colleagues, and that larger ones overlook one is in `sweep` only,
not behind `Served`. One endless task
leaves one worker at least to serve the others. Graph: four nodes and edges hold the
chain, the diamond, the fork and the join of the tests, parallel edges, and cycles with
nodes before, on and after them; with one edge against the numbering every graph with
at most one independent cycle is there. Pipeline: the middle stage has one before and
one after. Benchmark: four threads are a count that the doubling does not reach at
once, a tree of depth three has inner nodes at two levels under the root, and the ring
has no slot more than the workloads need. A task
is submitted once in these instances (a task object is owned by one `unique_ptr`), and
clients submit from the driver between runs and from running tasks, as the tests and
benchmarks do.

Two more properties are checked only where they fail, see section 4: `OwnerPushes` and
`MutexQueue!RunReturns`; and `RunReturns` of `WorkStealing` fails when another thread
submits.

Fairness. Every thread that can take a step eventually does, tasks return that are not
in `Endless`, and the machine drains store buffers. No fairness makes anyone submit, call
`run()` or wake up spuriously. Workers of the mutex queue have strong fairness: a mutex
that is free again and again is obtained. In the ring, strong fairness says that
`compare_exchange_weak` does not fail spuriously for ever, and that a task which may
always go on submitting still returns. In work stealing it says that a
thief which tries again and again at deques that are not empty does not lose every race
and, as its generator comes up with every start again and again, that it tries them all.
In the benchmark program `run()` returns but for `MayHang`; `Ends` says that the program
then ends, or hangs in such a `run()` with all tasks of the pass executed.

## 4. Where the code and what is said about it differ

1. **Lost wakeup** (`mutex_lost_wakeup`; `mutex_queue_scheduler.hpp:103-104`). The last
   worker decrements `pending_` and notifies `done_cv_` without `mu_`. Both may fall
   between the driver's test of `pending_` and its going to sleep; `run()` then never
   returns. `RunEnds` shows that this is the only way for it to hang, and `OnlyHung` is proved
   to be its only deadlock. (The comment at
   lines 32-34 also describes a generation counter that does not exist.)
2. **External submission during `run()`** (`stealing_external`;
   `work_stealing_scheduler.hpp:98`). It is counted but goes to a queue that no worker
   reads, so `run()` spins for ever, although line 87 calls `submit` safe from any thread.
3. **Growth** (`deque_relaxed_install`; `chase_lev_deque.hpp:167`). The comment says
   release store, the code says relaxed; under the C++ model a thief may read a slot
   of the new array before its contents and lose the task.
4. **Submission from another scheduler's task** (`stealing_foreign`;
   `work_stealing_scheduler.hpp:90`). `tl_worker_id_` is one thread-local for all schedulers,
   so worker `i` of one scheduler is taken for worker `i` of the other and pushes on its
   deque as a second owner, which nothing in the deque allows for.

More, visible in the models: the promises of the ring's `run()` need `WithinRing`, as
submissions made before `run()` have no consumer and the first one beyond the ring's capacity
never returns, whatever "consumed concurrently" says at `lockfree_queue_scheduler.hpp:66-67`;
nor does one of a task when all workers are in such submissions. `SubmitReturns` says that these
are the only ways for a producer to spin for ever (`Clogged`), and `HighWater` that the
benchmarks stay within the ring. `Complete` and `ExecuteReturns` show that a cycle does
not keep `execute()` from returning, as `ENGINEERING.md:233` has it: its nodes are silently
not run (or the assertion at `task_graph.hpp:143` fails). `bot_` is not "strictly
monotonically increasing" (`chase_lev_deque.hpp:37`; `PopDecrement` lowers it on every
pop), and the branch of
`dequeue` commented "reserved this slot but hasn't filled it yet"
(`lockfree_queue_scheduler.hpp:160`) is the one for an outdated position; an unfilled
slot makes `dequeue` answer `nullptr`. Neither of these two does harm.

## 5. What is proved

With TLAPS, for every value of the constants:

* `ChaseLevDeque_proofs`. `TypeCorrect`: types, also with `InstallReleases = FALSE`.
  Under `InstallReleases` (machines on which the owner's stores become visible in
  order): `Invariance`, `ExactlyOnceCorrect`, `NullMeansEmptyCorrect`, and `Refinement`,
  which says that the deque implements `WorkDeque`. Assumed are `NullAssumption`,
  `CapAssumption` and `InstallAssumption` only.
* `StealSweep_proofs`: `NeverSelfCorrect`, `AnyoneFirstCorrect`,
  `OverlooksOneAtMostCorrect`, for any number of workers.
* `MutexQueue_proofs`: `TypeCorrect`, `NoIdleWorkerCorrect`, `OnlyHungCorrect`, which says that
  the lost wakeup of finding 1 is the only deadlock of `run()`, and `Refinement`, which says
  that the mutex queue scheduler implements `Scheduler`, for any tasks and workers.
* `LockFreeQueue_proofs`: `TypeCorrect`, `FirstInFirstOutCorrect` and `Refinement`, which says
  that the lock-free queue scheduler implements `Scheduler`: for any tasks, workers and
  size of the ring, overfull or not.
* `WorkStealing_proofs`: `TypeCorrect`, `LeavesNothingCorrect` and `Refinement`, which says
  that the work-stealing scheduler implements `Scheduler`, for any tasks and any number of
  workers in each run. They assume `Foreign = {}`, that no other thread submits: with one
  they are false (findings 2 and 4).
* `TaskGraph_proofs`: `TypeCorrect`, `SubmittedOnceCorrect`, `AfterPredecessorsCorrect`,
  `SeesPredecessorsCorrect` and `CompleteCorrect`: for graphs of any size and shape, with
  parallel edges and cycles. And for the pipeline of any width and depth `PipelineIsGraph`,
  which says that it is such a graph, `StagesInOrderCorrect`, `OneStageWaitsCorrect` and
  `AllRunCorrect`.
* `Benchmark_proofs`: `TypeCorrect`, `MeasuresAllCorrect`, `FindsRowsCorrect` and
  `HighWaterCorrect`: for any `hardware_concurrency()` but zero, any number of schedulers and
  any size of the workloads (`HighWaterCorrect`: any that `RingAssumption` allows).
* `CommonFacts`: the victims of a thief, remainders, and sequences without repetitions.

Assumed are the modules' own assumptions on their constants, and nothing else but where it
is said. With `Scheduler` implemented by all three schedulers, what `TaskGraph_proofs` shows
holds for a graph executed on any of them.

The inductive invariant of the deque, `IInv`, is needed because `ExactlyOnce` speaks
of the present deque only, while a thief acts on what it read before. Its parts:
`Room` (live indices fit the owner's array with a slot to spare, so that a store never
overwrites a live entry); `BottomsKept` and `ArraysKept` (no pending image shows a bottom
beyond the real one, and arrays only get more); `Published` (an index that some
image shows as pushed has its task there, in that image's array and every later one);
`ThiefReads` (a thief whose compare-and-swap can still succeed has read, or will read,
the task that is at `top`); `Accounted` (live indices hold distinct tasks, and every
pushed task is live or handed out once); `OwnerPlace`. `ExactlyOnce` follows from
`Accounted`, and `Refinement` from `Published` and `ThiefReads`, which say what each
hand-out returns. `Room` is why the code grows when one slot is still free.

The inductive invariant of the ring, `IInv`, follows a task from its reservation to its
execution. `Positions`: who is at work in the ring has a position of its own. `Turns`: what
a slot's sequence number is while a thread with a position works there, so that of all
threads that look at the slot only one can be the next. `Lags`: no slot is ahead of the
next producer to fill it, who is ahead of the consumers; this is what keeps a producer
of the next round waiting at `Returned`. `Contents` and `Emptied`: a slot holds the task of
the position that occupies it, or none. `Unique`, with `Hands`: a task is in one slot, in
one submission or in one execution. `Counter`: `pending_` is the number of tasks that are
somewhere, so that zero lets `run()` return. `FirstInFirstOut` follows from `Contents`;
`Refinement` needs all of them, `Counter` for the return of `run()` and the others to show
that a step moves one task only.

The mutex queue needs less: `Phases` (workers exist in `run()` only), `Unique` and `Counter`
as above. `NoIdleWorker` is then inductive by itself: a submission adds one task and one
submitter that is about to notify, and a notification that finds a sleeper adds a worker on
its way to the queue. `OnlyHung` needs `Shut` besides: workers exit after the shutdown only,
the driver joins workers that have all been woken since, and a run that has tasks has
workers. When all in `run()` sleep it follows that the driver is on `done_cv_`, where no
worker has exited; `NoIdleWorker` then says that the queue is empty, and `Counter` that
`pending_` is zero.

In work stealing, `Phases` says that only the workers of the present run have tasks in their
deques and that nothing is injected during a run, `Sweeps` that a thief has a colleague to
visit, `Hands` and `Unique` that a task is in one deque, in the injection queue, in one
submission or in one execution, and `Counter` that `pending_` is the number of such tasks,
and zero for whoever has left. `LeavesNothing` is the last of these.

In the task graph the state that the counters stand for is the set of edges not yet counted
down: an edge is *passed* when its predecessor's task is beyond it in its successors.
`Counts` says that a node's counter is the number of edges into it that are not passed,
parallel ones included. `Placement` gives each task one of its phases and one place in its list
of edges. `Once`: a node that is submitted, or about to be, has its counter at zero, and one
thread only is about to submit it, so that two predecessors never both find they were the
last. `Sees` follows the writes along the three ways they take, from who counts down to the
counter, from the counter to who counts it down last, and from there to the node. `Waits`
and the last part of `Once` are the two halves of `Complete`: nodes that wait for each other
are never submitted, and a node that waits for nobody is.

The pipeline adds three invariants to those of the graph. `Layers`: stages are full when the
next one begins, so that a node's number tells its stage. `Wiring`: edges lead from a stage to
the next one, all of them, but for the latest node, whose edges come in order. `Staged`: who is
submitted comes after all of every earlier stage and sees what these wrote, which passes on
from stage to stage. As numbers grow along the edges no nodes wait for each other, so that
`AllRun` follows from `Complete`; in the run it is the safety half of `Ends`.

The invariant of the benchmark program weighs the tasks. A task of depth `k` weighs `Size[k]`,
the number of tasks it becomes, itself included; `Outstanding` is the weight of all that wait
and of all that executing tasks have yet to submit. `Accounts`: with what has been executed and
what is being executed that makes what was submitted, so that all of it has been executed when
nothing is left and `run()` returns; and with the number of leaves as the weights, which no step
increases, it bounds the tasks that wait (`HighWater`). `Driven`: workers execute in `run()`
only, after the set-up, one task each. `Rows`: there is one row for each turn before this one,
and no other, which needs that no number of threads comes up twice in `main.cpp`'s list.
`ThreadCounts`, `Shifted` and the sums are recursive; that such definitions have a solution, and
what it is, is derived in the same module, by induction over numbers and over finite sets that
speaks of the set of those for which a statement holds.

Only model-checked: liveness, which is outside the prover's reach: `EveryTaskLeaves`, `RunEnds`,
`Served`, `SubmitReturns`, `RunReturns`, `ExecuteReturns` and both `Ends`. Every invariant and
every refinement that a run checks is also proved, the deque's on machines that keep the order
of stores and work stealing's without foreign threads.

## 6. What is not modelled

* Reordering under the C++ model other than in section 2: the owner's stores stay in
  order except at a growth, and loads are not reordered. The fences and acquire loads
  of the code order the others.
* `empty()` and `size()` (they only read), names, padding and alignment, backoff.
* Wrap-around of 64-bit counters.
* `run(0)` with tasks pending on the mutex queue and on the lock-free queue, which would not
  return: `RunStart` gives such a run a worker at least.
* `run(0)` of the work-stealing scheduler with injected tasks (undefined: `workers_[0]` of an empty vector), and on a
  machine whose `hardware_concurrency()` is 0 the end of `bench/main.cpp` (undefined:
  `back()` of an empty vector).
* In the benchmarks: clocks, printing, floating-point arithmetic, the flat workload and
  the repetitions of `bench/scaling.cpp` (they do what `bench/main.cpp` does).
* The tests (their scenarios are instances of the modelled clients) and the build files.

## 7. Plan

Done: all the components above, and the proofs of section 5. What could come next, in
this order:

1. the composition of `WorkStealing` with `ChaseLevDeque` itself, and finer orders of the
   owner's stores;
2. what liveness rests on, as invariants to prove, as `OnlyHung` is for the mutex queue: that a
   state from which a thread should go on is one in which it can.
