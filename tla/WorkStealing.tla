---------------------------- MODULE WorkStealing ----------------------------
(***************************************************************************)
(* WorkStealingScheduler (include/work_stealing_scheduler.hpp): a deque    *)
(* per worker, an injection queue for what is submitted from outside, and  *)
(* a counter of unfinished tasks that tells everyone when to stop.         *)
(*                                                                         *)
(* A call on a deque is one step.  ChaseLevDeque shows that push_bottom,   *)
(* pop_bottom and steal behave so, as long as only the owner pushes and    *)
(* pops: pop_bottom fails only on an empty deque, steal may also fail      *)
(* because it lost a race.                                                 *)
(***************************************************************************)
EXTENDS Victims, Integers, Sequences, FiniteSets

CONSTANTS
  Tasks,        \* tasks that may be submitted, each once
  Endless,      \* those of them that may never return
  NULL,         \* no task
  MaxWorkers,   \* bound on the argument of run()
  MaxRuns,      \* bound on the calls of run()
  NoWorker,     \* tl_worker_id_ of a thread that is no worker (-1)
  Foreign       \* tl_worker_id_ of the other threads that may submit at any time:
                \* that, or the number of a worker of another scheduler

ASSUME TaskAssumption == NULL \notin Tasks /\ IsFiniteSet(Tasks) /\ Endless \subseteq Tasks
ASSUME WorkerAssumption == MaxWorkers \in Nat \ {0}
ASSUME RunsAssumption == MaxRuns \in Nat
ASSUME ForeignAssumption == NoWorker \notin Nat /\ Foreign \subseteq Nat \cup {NoWorker}

Ids == 0..MaxWorkers-1

VARIABLES
  driver,     \* where the thread that calls run() is
  n,          \* workers_.size()
  deque,      \* the deque of each worker, from top to bottom
  inject,     \* inject_queue_
  pending,    \* pending_
  shutdown,   \* shutdown_
  pc,         \* where each worker is in worker_loop
  task,       \* the task it executes
  arg,        \* the task it is submitting
  sweep,      \* its start and attempt while it looks for a victim
  done,       \* history: finished executions of each task
  runs        \* calls of run() so far

control == <<driver, n, shutdown, runs>>
vars == <<control, deque, inject, pending, pc, task, arg, sweep, done>>

NoSweep == [start |-> 0, attempt |-> 0]

Init ==
  /\ driver = "out" /\ n = 0 /\ shutdown = FALSE /\ runs = 0
  /\ deque = [w \in Ids |-> <<>>]
  /\ inject = <<>>
  /\ pending = 0
  /\ pc = [w \in Ids |-> "none"]
  /\ task = [w \in Ids |-> NULL]
  /\ arg = [w \in Ids |-> NULL]
  /\ sweep = [w \in Ids |-> NoSweep]
  /\ done = [k \in Tasks |-> 0]

Goto(w, place) == pc' = [pc EXCEPT ![w] = place]

In(q, k)     == \E i \in DOMAIN q : q[i] = k
InDeques(k)  == \E w \in Ids : In(deque[w], k)
Waiting(k)   == In(inject, k) \/ InDeques(k) \/ \E w \in Ids : arg[w] = k
Executing(k) == \E w \in Ids : task[w] = k
Fresh(k)     == ~Waiting(k) /\ ~Executing(k) /\ done[k] = 0

-----------------------------------------------------------------------------
\* submit by a thread whose tl_worker_id_ is id, and which is not one of this
\* scheduler's workers.
SubmitOutside(id, k) ==
  /\ (driver = "out" /\ id = NoWorker) \/ (driver # "gone" /\ id \in Foreign)
  /\ Fresh(k)
  /\ pending' = pending + 1
  /\ IF id \in 0..n-1
     THEN deque' = [deque EXCEPT ![id] = Append(@, k)] /\ UNCHANGED inject
     ELSE inject' = Append(inject, k) /\ UNCHANGED deque
  /\ UNCHANGED <<control, pc, task, arg, sweep, done>>

\* Variants: the child is not counted, or counted twice.
CountedNot == pending
CountedTwice == pending + 2

CountedChild == pending + 1

\* submit by a running task: count it, then push it on the worker's own deque.
Spawn(w, k) ==
  /\ pc[w] = "run" /\ Fresh(k)
  /\ pending' = CountedChild
  /\ arg' = [arg EXCEPT ![w] = k]
  /\ Goto(w, "push")
  /\ UNCHANGED <<control, deque, inject, task, sweep, done>>

Push(w) ==
  /\ pc[w] = "push"
  /\ deque' = [deque EXCEPT ![w] = Append(@, arg[w])]
  /\ arg' = [arg EXCEPT ![w] = NULL]
  /\ Goto(w, "run")
  /\ UNCHANGED <<control, inject, pending, task, sweep, done>>

-----------------------------------------------------------------------------
\* run

\* Variant: the injection queue is not cleared after it was drained.
InjectUncleared == inject

InjectCleared == <<>>

\* Fresh deques, all that was injected in that of worker 0, and the threads.
\* Without workers there must be nothing to drain: workers_[0] does not exist.
RunStart(m) ==
  /\ driver = "out" /\ runs < MaxRuns
  /\ m > 0 \/ inject = <<>>
  /\ n' = m
  /\ deque' = [w \in Ids |-> IF w = 0 THEN inject ELSE <<>>]
  /\ inject' = InjectCleared
  /\ shutdown' = FALSE
  /\ pc' = [w \in Ids |-> IF w < m THEN "pop" ELSE "none"]
  /\ driver' = "wait"
  /\ runs' = runs + 1
  /\ UNCHANGED <<pending, task, arg, sweep, done>>

AllDone ==
  /\ driver = "wait" /\ pending = 0
  /\ shutdown' = TRUE
  /\ driver' = "join"
  /\ UNCHANGED <<n, runs, deque, inject, pending, pc, task, arg, sweep, done>>

\* The deques go with their workers, and what is in them is freed.
Join ==
  /\ driver = "join"
  /\ \A w \in 0..n-1 : pc[w] = "exit"
  /\ n' = 0
  /\ deque' = [w \in Ids |-> <<>>]
  /\ pc' = [w \in Ids |-> "none"]
  /\ driver' = "out"
  /\ UNCHANGED <<shutdown, runs, inject, pending, task, arg, sweep, done>>

\* The destructor frees what was injected and never run.
Destroy ==
  /\ driver = "out"
  /\ inject' = <<>>
  /\ driver' = "gone"
  /\ UNCHANGED <<n, shutdown, runs, deque, pending, pc, task, arg, sweep, done>>

-----------------------------------------------------------------------------
\* worker_loop

Pop(w) ==
  /\ pc[w] = "pop" /\ deque[w] # <<>>
  /\ task' = [task EXCEPT ![w] = deque[w][Len(deque[w])]]
  /\ deque' = [deque EXCEPT ![w] = SubSeq(@, 1, Len(@) - 1)]
  /\ Goto(w, "run")
  /\ UNCHANGED <<control, inject, pending, arg, sweep, done>>

PopNothing(w) ==
  /\ pc[w] = "pop" /\ deque[w] = <<>>
  /\ Goto(w, "pending?")
  /\ UNCHANGED <<control, deque, inject, pending, task, arg, sweep, done>>

\* The task returns; who finishes the last one leaves at once.
Finish(w) ==
  /\ pc[w] = "run"
  /\ task' = [task EXCEPT ![w] = NULL]
  /\ done' = [done EXCEPT ![task[w]] = @ + 1]
  /\ pending' = pending - 1
  /\ Goto(w, IF pending = 1 THEN "exit" ELSE "pop")
  /\ UNCHANGED <<control, deque, inject, arg, sweep>>

CheckPending(w) ==
  /\ pc[w] = "pending?"
  /\ Goto(w, IF pending = 0 THEN "exit" ELSE "shutdown?")
  /\ UNCHANGED <<control, deque, inject, pending, task, arg, sweep, done>>

\* Past the second check a worker with colleagues starts a sweep.
CheckShutdown(w) ==
  /\ pc[w] = "shutdown?"
  /\ IF shutdown \/ n = 1
     THEN Goto(w, IF shutdown THEN "exit" ELSE "pop") /\ UNCHANGED sweep
     ELSE /\ Goto(w, "steal")
          /\ \E s \in Starts(n, w) :
               sweep' = [sweep EXCEPT ![w] = [start |-> s, attempt |-> 0]]
  /\ UNCHANGED <<control, deque, inject, pending, task, arg, done>>

\* Variant: the last attempt of a sweep is left out.
SweepShort(w) == sweep[w].attempt + 2 < n - 1

SweepGoesOn(w) == sweep[w].attempt + 1 < n - 1
Target(w) == Victim(n, w, sweep[w].start, sweep[w].attempt)

Steal(w) ==
  /\ pc[w] = "steal" /\ deque[Target(w)] # <<>>
  /\ task' = [task EXCEPT ![w] = Head(deque[Target(w)])]
  /\ deque' = [deque EXCEPT ![Target(w)] = Tail(@)]
  /\ sweep' = [sweep EXCEPT ![w] = NoSweep]
  /\ Goto(w, "run")
  /\ UNCHANGED <<control, inject, pending, arg, done>>

\* The victim's deque was empty, or another thread won the race for its top.
StealNothing(w) ==
  /\ pc[w] = "steal"
  /\ IF SweepGoesOn(w)
     THEN sweep' = [sweep EXCEPT ![w].attempt = @ + 1] /\ UNCHANGED pc
     ELSE sweep' = [sweep EXCEPT ![w] = NoSweep] /\ Goto(w, "pop")
  /\ UNCHANGED <<control, deque, inject, pending, task, arg, done>>

-----------------------------------------------------------------------------
\* What a worker does apart from its tasks.
Loop(w) ==
  \/ Push(w)
  \/ Pop(w)
  \/ PopNothing(w)
  \/ CheckPending(w)
  \/ CheckShutdown(w)
  \/ Steal(w)
  \/ StealNothing(w)

Next ==
  \/ \E k \in Tasks : \/ \E id \in Foreign \cup {NoWorker} : SubmitOutside(id, k)
                      \/ \E w \in Ids : Spawn(w, k)
  \/ \E m \in 0..MaxWorkers : RunStart(m)
  \/ AllDone
  \/ Join
  \/ Destroy
  \/ \E w \in Ids : Loop(w) \/ Finish(w)

Spec == Init /\ [][Next]_vars

\* Every thread goes on, tasks return that are not endless, and who tries again
\* and again to steal from deques that are not empty will not lose every race.
\* Nobody has to submit or to call run().
Fairness ==
  /\ WF_vars(AllDone) /\ WF_vars(Join)
  /\ \A w \in Ids : /\ WF_vars(Loop(w)) /\ SF_vars(Steal(w))
                    /\ WF_vars(task[w] \notin Endless /\ Finish(w))

FairSpec == Spec /\ Fairness

-----------------------------------------------------------------------------
(***************************************************************************)
(* Properties.                                                             *)
(***************************************************************************)

InRun == driver \in {"wait", "join"}

\* The variables have their types; a worker never steals from itself.
TypeOK ==
  /\ driver \in {"out", "wait", "join", "gone"}
  /\ n \in 0..MaxWorkers
  /\ deque \in [Ids -> Seq(Tasks)]
  /\ inject \in Seq(Tasks)
  /\ pending \in Nat
  /\ shutdown \in BOOLEAN
  /\ pc \in [Ids -> {"none", "pop", "run", "push", "pending?", "shutdown?", "steal", "exit"}]
  /\ task \in [Ids -> Tasks \cup {NULL}]
  /\ arg \in [Ids -> Tasks \cup {NULL}]
  /\ sweep \in [Ids -> [start : Ids, attempt : 0..MaxWorkers]]
  /\ \A w \in Ids : pc[w] = "steal" => Target(w) \in Others(n, w)
  /\ done \in [Tasks -> Nat]
  /\ runs \in 0..MaxRuns

\* Seen from outside this is a Scheduler: nothing is lost, not even with the
\* deques freed at the end of run(), or executed twice, and run() returns only
\* when everything submitted has finished.
One(b) == IF b THEN 1 ELSE 0
Abstract == INSTANCE Scheduler WITH
  todo    <- [k \in Tasks |-> One(Waiting(k))],
  running <- [k \in Tasks |-> One(Executing(k))],
  driver  <- IF InRun THEN "in" ELSE driver
Implements == Abstract!Spec

\* A worker leaves, by whichever of its exits, only when no work is left in the
\* run: no deque, colleague or injection queue holds an unfinished task.
LeavesNothing ==
  (\E w \in Ids : pc[w] = "exit") =>
    /\ \A w \in Ids : deque[w] = <<>> /\ task[w] = NULL /\ arg[w] = NULL
    /\ inject = <<>>

\* run() returns: the tasks in it finish, and every worker sees that they have.
RunReturns == InRun ~> ~InRun \/ \E k \in Endless : Executing(k)

\* A task in a deque is started, although the deque's owner may be in a task that
\* never returns (or that waits for this one), as long as a worker is free of such.
Served ==
  \A k \in Tasks : InDeques(k) /\ Cardinality(Endless) < n ~> ~InDeques(k)

\* What include/chase_lev_deque.hpp:157 asks of callers: push_bottom is called by
\* the owner only (or before the workers exist).
OwnerPushes ==
  [][\A w \in Ids : Len(deque'[w]) > Len(deque[w]) => pc[w] = "push" \/ driver = "out"]_vars
=============================================================================
