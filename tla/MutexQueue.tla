----------------------------- MODULE MutexQueue -----------------------------
(***************************************************************************)
(* MutexQueueScheduler (include/mutex_queue_scheduler.hpp): one queue      *)
(* under a mutex, workers that sleep on cv_, and a driver that sleeps on   *)
(* done_cv_ until pending_ is zero.                                        *)
(*                                                                         *)
(* A critical section is one step, taken when mu_ is free.  The exception  *)
(* is the driver's done_cv_.wait, which tests pending_ and goes to sleep   *)
(* in two steps, holding mu_ between them: pending_ is decremented and     *)
(* done_cv_ notified without the mutex.  (Workers' cv_.wait needs no such  *)
(* split, because what it tests changes only under mu_.)                   *)
(***************************************************************************)
EXTENDS Naturals, Sequences, FiniteSets

CONSTANTS
  Tasks,     \* tasks that may be submitted, each once
  Endless,   \* those of them that may never return
  Workers,   \* threads that calls of run() may start
  NULL,      \* no task
  MaxRuns    \* bound on the calls of run()

ASSUME TaskAssumption == NULL \notin Tasks /\ IsFiniteSet(Tasks) /\ Endless \subseteq Tasks
ASSUME RunsAssumption == MaxRuns \in Nat /\ IsFiniteSet(Workers)

VARIABLES
  driver,    \* where the thread that owns the scheduler is
  locked,    \* mu_ is held by the driver, about to sleep on done_cv_
  queue,     \* queue_
  pending,   \* pending_
  shutdown,  \* shutdown_
  pc,        \* where each worker is
  task,      \* the task each worker executes
  done,      \* history: finished executions of each task
  runs       \* calls of run() so far

work == <<task, done>>
vars == <<driver, locked, queue, pending, shutdown, pc, work, runs>>

Init ==
  /\ driver = "out" /\ locked = FALSE /\ runs = 0
  /\ queue = <<>> /\ pending = 0 /\ shutdown = FALSE
  /\ pc = [w \in Workers |-> "none"]
  /\ task = [w \in Workers |-> NULL]
  /\ done = [k \in Tasks |-> 0]

Queued(k)    == \E i \in DOMAIN queue : queue[i] = k
Executing(k) == \E w \in Workers : task[w] = k
Fresh(k)     == ~Queued(k) /\ ~Executing(k) /\ done[k] = 0

Goto(w, place) == pc' = [pc EXCEPT ![w] = place]

\* Variant: the submission is not counted.
CountedNot == pending

Counted == pending + 1

\* submit, up to the notification.
Push(k) ==
  /\ ~locked /\ Fresh(k)
  /\ pending' = Counted
  /\ queue' = Append(queue, k)

\* cv_.notify_one and cv_.notify_all.
Asleep == {w \in Workers : pc[w] = "asleep"}
Woken(ws) == [w \in Workers |-> IF w \in ws THEN "loop" ELSE pc[w]]

\* Variants: the notification is forgotten; or is one where all are due.
NotifyNone == {pc}
NotifyFirst == IF Asleep = {} THEN pc ELSE Woken({CHOOSE w \in Asleep : TRUE})

NotifyOne == IF Asleep = {} THEN {pc} ELSE {Woken({w}) : w \in Asleep}
NotifyAll == Woken(Asleep)

-----------------------------------------------------------------------------
\* Driver

DriverSubmit(k) ==
  /\ driver = "out" /\ Push(k)
  /\ driver' = "notify"
  /\ UNCHANGED <<locked, shutdown, pc, work, runs>>

DriverNotifyOne ==
  /\ driver = "notify"
  /\ driver' = "out"
  /\ pc' \in NotifyOne
  /\ UNCHANGED <<locked, queue, pending, shutdown, work, runs>>

\* Variant: run() does not reset shutdown_.
RestartedNot == shutdown

Restarted == FALSE

\* run: reset, and start the workers.  Who calls it with tasks pending gives it
\* some; it would not return.
RunStart(started) ==
  /\ driver = "out" /\ runs < MaxRuns
  /\ started # {} \/ pending = 0
  /\ shutdown' = Restarted
  /\ pc' = [w \in Workers |-> IF w \in started THEN "loop" ELSE "none"]
  /\ driver' = "test"
  /\ runs' = runs + 1
  /\ UNCHANGED <<locked, queue, pending, work>>

\* The predicate of done_cv_.wait.
TestDone ==
  /\ driver = "test" /\ ~locked
  /\ IF pending = 0
     THEN driver' = "stop" /\ shutdown' = TRUE /\ UNCHANGED locked
     ELSE driver' = "tested" /\ locked' = TRUE /\ UNCHANGED shutdown
  /\ UNCHANGED <<queue, pending, pc, work, runs>>

SleepOnDone ==
  /\ driver = "tested"
  /\ driver' = "asleep" /\ locked' = FALSE
  /\ UNCHANGED <<queue, pending, shutdown, pc, work, runs>>

Stop ==
  /\ driver = "stop"
  /\ driver' = "join"
  /\ pc' = NotifyAll
  /\ UNCHANGED <<locked, queue, pending, shutdown, work, runs>>

Join ==
  /\ driver = "join"
  /\ \A w \in Workers : pc[w] \in {"none", "exit"}
  /\ driver' = "out"
  /\ pc' = [w \in Workers |-> "none"]
  /\ UNCHANGED <<locked, queue, pending, shutdown, work, runs>>

\* The destructor frees what was submitted and never run.
Destroy ==
  /\ driver = "out"
  /\ driver' = "gone" /\ shutdown' = TRUE /\ queue' = <<>>
  /\ pc' = NotifyAll
  /\ UNCHANGED <<locked, pending, work, runs>>

-----------------------------------------------------------------------------
\* Workers

\* Variant: the task at the front is copied and stays in the queue.
RestAll == queue

\* queue_.pop.
Rest == Tail(queue)

\* cv_.wait and what follows it in the critical section.
Fetch(w) ==
  /\ pc[w] = "loop" /\ ~locked
  /\ IF queue # <<>>
     THEN /\ task' = [task EXCEPT ![w] = Head(queue)]
          /\ queue' = Rest
          /\ Goto(w, "run")
     ELSE /\ Goto(w, IF shutdown THEN "exit" ELSE "asleep")
          /\ UNCHANGED <<queue, task>>
  /\ UNCHANGED <<driver, locked, pending, shutdown, done, runs>>

\* The running task submits a child.
Spawn(w, k) ==
  /\ pc[w] = "run" /\ Push(k)
  /\ Goto(w, "notify")
  /\ UNCHANGED <<driver, locked, shutdown, work, runs>>

SpawnNotify(w) ==
  /\ pc[w] = "notify"
  /\ \E p \in NotifyOne : pc' = [p EXCEPT ![w] = "run"]
  /\ UNCHANGED <<driver, locked, queue, pending, shutdown, work, runs>>

\* The task returns; pending_.fetch_sub.
Finish(w) ==
  /\ pc[w] = "run"
  /\ pending' = pending - 1
  /\ Goto(w, IF pending = 1 THEN "last" ELSE "loop")
  /\ done' = [done EXCEPT ![task[w]] = @ + 1]
  /\ task' = [task EXCEPT ![w] = NULL]
  /\ UNCHANGED <<driver, locked, queue, shutdown, runs>>

\* done_cv_.notify_all: it wakes the driver only if the driver is asleep.
NotifyDone(w) ==
  /\ pc[w] = "last"
  /\ Goto(w, "loop")
  /\ driver' = IF driver = "asleep" THEN "test" ELSE driver
  /\ UNCHANGED <<locked, queue, pending, shutdown, work, runs>>

\* A condition variable may wake anyone for no reason.
SpuriousWakeup ==
  /\ \/ \E w \in Asleep : pc' = Woken({w}) /\ UNCHANGED driver
     \/ driver = "asleep" /\ driver' = "test" /\ UNCHANGED pc
  /\ UNCHANGED <<locked, queue, pending, shutdown, work, runs>>

-----------------------------------------------------------------------------
Driver ==
  \/ DriverNotifyOne
  \/ TestDone
  \/ SleepOnDone
  \/ Stop
  \/ Join

\* What a worker does apart from its tasks.
Loop(w) == Fetch(w) \/ SpawnNotify(w) \/ NotifyDone(w)

Next ==
  \/ \E k \in Tasks : DriverSubmit(k) \/ \E w \in Workers : Spawn(w, k)
  \/ \E started \in SUBSET Workers : RunStart(started)
  \/ Destroy
  \/ Driver
  \/ \E w \in Workers : Loop(w) \/ Finish(w)
  \/ SpuriousWakeup

Spec == Init /\ [][Next]_vars

\* Threads that can go on do so, a mutex that is free often enough is obtained,
\* and tasks return that are not endless.  Nobody is obliged to wake up
\* spuriously, to submit or to call run().
Fairness ==
  /\ WF_vars(Driver)
  /\ \A w \in Workers : SF_vars(Loop(w)) /\ SF_vars(task[w] \notin Endless /\ Finish(w))

FairSpec == Spec /\ Fairness

-----------------------------------------------------------------------------
(***************************************************************************)
(* Properties.                                                             *)
(***************************************************************************)

InRun == driver \in {"test", "tested", "asleep", "stop", "join"}

\* The variables have their types.
TypeOK ==
  /\ driver \in {"out", "notify", "test", "tested", "asleep", "stop", "join", "gone"}
  /\ locked = (driver = "tested")
  /\ queue \in Seq(Tasks)
  /\ pending \in Nat
  /\ shutdown \in BOOLEAN
  /\ pc \in [Workers -> {"none", "loop", "asleep", "run", "notify", "last", "exit"}]
  /\ task \in [Workers -> Tasks \cup {NULL}]
  /\ done \in [Tasks -> Nat]
  /\ runs \in 0..MaxRuns

\* Seen from outside this is a Scheduler: nothing is lost or executed twice, and
\* run() returns only when everything submitted has finished.
One(b) == IF b THEN 1 ELSE 0
Abstract == INSTANCE Scheduler WITH
  todo    <- [k \in Tasks |-> One(Queued(k))],
  running <- [k \in Tasks |-> One(Executing(k))],
  driver  <- IF InRun THEN "in" ELSE IF driver = "gone" THEN "gone" ELSE "out"
Implements == Abstract!Spec

\* No worker sleeps through work: when one is asleep on cv_, each queued task has
\* a worker on its way to the queue, or a submitter about to wake one.
Attending == {w \in Workers : pc[w] \in {"loop", "last", "notify"}}
NoIdleWorker == Asleep # {} => Len(queue) <= Cardinality(Attending)

\* run() returns, except from a task that does not and in one other way: the driver
\* sleeps on done_cv_ with pending_ at zero, and the notification has come and gone.
Hung == driver = "asleep" /\ pending = 0 /\ queue = <<>>
RunEnds == []<>~InRun \/ <>[]Hung \/ <>[](\E k \in Endless : Executing(k))

\* Everybody in run() waits for somebody else: the driver for the last task or for
\* a worker to exit, the workers for work or for the shutdown.
Standstill ==
  /\ driver = "asleep" \/ (driver = "join" /\ Asleep # {})
  /\ \A w \in Workers : pc[w] \in {"none", "asleep", "exit"}

\* The lost wakeup is the only deadlock of run(): the shutdown reaches every
\* worker, and nobody sleeps on either condition variable while a task is left.
OnlyHung == Standstill => Hung

\* A queued task is started, although others of the run never return (or wait for
\* this one), as long as one worker is not in such a task.
Crew == {w \in Workers : pc[w] # "none"}
Served == \A k \in Tasks : Queued(k) /\ Cardinality(Crew) > Cardinality(Endless) ~> ~Queued(k)

\* The claim of include/mutex_queue_scheduler.hpp:31 that run() returns once
\* pending_ is zero.
RunReturns == InRun /\ pending = 0 ~> ~InRun
=============================================================================
