-------------------------- MODULE MutexQueue_proofs --------------------------
(***************************************************************************)
(* Proofs about MutexQueue, for any tasks and any workers: the scheduler   *)
(* implements Scheduler, no worker sleeps through work, and run() has one  *)
(* deadlock only.                                                          *)
(***************************************************************************)
EXTENDS MutexQueue, CommonFacts, FiniteSetTheorems, TLAPS

-----------------------------------------------------------------------------
(***************************************************************************)
(* The inductive invariant.                                                *)
(***************************************************************************)

Ptr == Tasks \cup {NULL}
Places == [Workers -> {"none", "loop", "asleep", "run", "notify", "last", "exit"}]

\* The types, without what needs an argument.
Types ==
  /\ driver \in {"out", "notify", "test", "tested", "asleep", "stop", "join", "gone"}
  /\ locked = (driver = "tested")
  /\ queue \in Seq(Tasks)
  /\ pending \in Int /\ shutdown \in BOOLEAN
  /\ pc \in Places
  /\ task \in [Workers -> Ptr]
  /\ done \in [Tasks -> Nat]
  /\ runs \in 0..MaxRuns

\* Workers exist in run() only, and one that executes has a task.
Phases ==
  /\ ~InRun => \A w \in Workers : pc[w] = "none"
  /\ \A w \in Workers : task[w] = NULL <=> pc[w] \notin {"run", "notify"}

\* A task is in one place.
Unique ==
  /\ Distinct(queue)
  /\ \A k \in Tasks : ~(Queued(k) /\ Executing(k))
  /\ \A v, w \in Workers : task[v] = task[w] /\ task[v] # NULL => v = w

\* The counter counts the unfinished tasks, until the destructor drops them, and
\* the driver stops the workers when there are none.
Unfinished == {k \in Tasks : Queued(k) \/ Executing(k)}
Counter ==
  /\ driver # "gone" => pending = Cardinality(Unfinished)
  /\ driver = "gone" => pending >= 0
  /\ driver \in {"stop", "join"} => pending = 0

IInv == Types /\ Phases /\ Unique /\ Counter

-----------------------------------------------------------------------------
(***************************************************************************)
(* The critical sections and the wakeups.                                  *)
(***************************************************************************)

\* p has some of the sleeping workers woken, and nobody else moved.
Wakes(p) ==
  /\ p \in Places
  /\ \A w \in Workers : p[w] # pc[w] => pc[w] = "asleep" /\ p[w] = "loop"

LEMMA WokenWakes == ASSUME Types, NEW ws \in SUBSET Asleep PROVE Wakes(Woken(ws))
BY DEF Types, Places, Wakes, Woken, Asleep

LEMMA NotifyOneWakes == ASSUME Types, NEW p \in NotifyOne PROVE Wakes(p)
<1>1. CASE Asleep = {}
  BY <1>1 DEF NotifyOne, Wakes, Types
<1>2. CASE Asleep # {}
  <2>1. PICK w \in Asleep : p = Woken({w})
    BY <1>2 DEF NotifyOne
  <2>2. {w} \in SUBSET Asleep
    OBVIOUS
  <2> QED BY <2>1, <2>2, WokenWakes
<1> QED BY <1>1, <1>2

\* Steps that only wake workers up.
LEMMA WakeupSteps ==
  ASSUME Types, DriverNotifyOne \/ Stop \/ Destroy \/ SpuriousWakeup
  PROVE  Wakes(pc')
<1>1. CASE DriverNotifyOne
  BY <1>1, NotifyOneWakes DEF DriverNotifyOne
<1>2. CASE Stop \/ Destroy
  <2>1. pc' = Woken(Asleep)
    BY <1>2 DEF Stop, Destroy, NotifyAll
  <2> QED BY <2>1, WokenWakes
<1>3. CASE SpuriousWakeup
  <2>1. ASSUME NEW w \in Asleep, pc' = Woken({w}) PROVE Wakes(pc')
    <3>1. {w} \in SUBSET Asleep
      OBVIOUS
    <3> QED BY <2>1, <3>1, WokenWakes
  <2>2. CASE pc' = pc
    BY <2>2 DEF Wakes, Types
  <2> QED BY <1>3, <2>1, <2>2 DEF SpuriousWakeup
<1> QED BY <1>1, <1>2, <1>3

\* The submitter that notifies goes back to its task.
LEMMA SpawnNotifyWakes ==
  ASSUME Types, NEW w \in Workers, SpawnNotify(w)
  PROVE  /\ pc' \in Places /\ pc[w] = "notify" /\ pc'[w] = "run"
         /\ \A v \in Workers : v # w /\ pc'[v] # pc[v] => pc[v] = "asleep" /\ pc'[v] = "loop"
<1>1. PICK p \in NotifyOne : pc' = [p EXCEPT ![w] = "run"]
  BY DEF SpawnNotify
<1>2. Wakes(p)
  BY NotifyOneWakes
<1> QED BY <1>1, <1>2 DEF Wakes, Places, SpawnNotify

\* What a worker fetches.
LEMMA FetchTakes ==
  ASSUME IInv, NEW w \in Workers, Fetch(w), queue # <<>>
  PROVE  \E k \in Tasks :
           /\ Queued(k) /\ ~Executing(k)
           /\ queue' \in Seq(Tasks) /\ Distinct(queue') /\ Len(queue') = Len(queue) - 1
           /\ \A j \in Tasks : Queued(j)' <=> Queued(j) /\ j # k
           /\ task[w] = NULL /\ task' = [task EXCEPT ![w] = k]
           /\ pc' = [pc EXCEPT ![w] = "run"]
<1>0. Types /\ Phases /\ Unique
  BY DEF IInv
<1>1. /\ Head(queue) \in Tasks /\ Occurs(queue, Head(queue))
      /\ Tail(queue) \in Seq(Tasks) /\ Distinct(Tail(queue))
      /\ \A j \in Tasks : Occurs(Tail(queue), j) <=> Occurs(queue, j) /\ j # Head(queue)
  BY <1>0, TailOccurs DEF Types, Unique
<1>2. queue' = Tail(queue) /\ Len(Tail(queue)) = Len(queue) - 1
  BY <1>0 DEF Fetch, Rest, Types
<1>3. task[w] = NULL /\ pc' = [pc EXCEPT ![w] = "run"] /\ task' = [task EXCEPT ![w] = Head(queue)]
  BY <1>0 DEF Fetch, Phases, Goto
<1>4. /\ \A j : Occurs(queue, j) <=> Queued(j)
      /\ \A j : Occurs(queue', j) <=> Queued(j)'
  BY DEF Occurs, Queued
<1>5. \A j \in Tasks : Queued(j)' <=> Queued(j) /\ j # Head(queue)
  BY <1>1, <1>2, <1>4
<1> QED BY <1>0, <1>1, <1>2, <1>3, <1>4, <1>5 DEF Unique

\* What submit puts into the queue.
LEMMA PushAppends ==
  ASSUME IInv, NEW k \in Tasks, Push(k)
  PROVE  /\ ~Queued(k) /\ ~Executing(k) /\ pending' = pending + 1
         /\ queue' \in Seq(Tasks) /\ Distinct(queue') /\ Len(queue') = Len(queue) + 1
         /\ \A j \in Tasks : Queued(j)' <=> Queued(j) \/ j = k
<1>1. queue \in Seq(Tasks) /\ Distinct(queue) /\ queue' = Append(queue, k)
  BY DEF IInv, Types, Unique, Push
<1>2. ~Queued(k) /\ ~Executing(k) /\ pending' = pending + 1
  BY DEF Push, Fresh, Counted
<1>3. /\ \A j : Occurs(queue, j) <=> Queued(j)
      /\ \A j : Occurs(queue', j) <=> Queued(j)'
  BY DEF Occurs, Queued
<1>4. /\ Append(queue, k) \in Seq(Tasks) /\ Distinct(Append(queue, k))
      /\ \A j \in Tasks : Occurs(Append(queue, k), j) <=> Occurs(queue, j) \/ j = k
  BY <1>1, <1>2, <1>3, AppendOccurs
<1>5. Len(Append(queue, k)) = Len(queue) + 1
  BY <1>1
<1> QED BY <1>1, <1>2, <1>3, <1>4, <1>5

-----------------------------------------------------------------------------
(***************************************************************************)
(* Steps keep the invariant.                                               *)
(***************************************************************************)

\* The types.
LEMMA TypesStep == IInv /\ [Next]_vars => Types'
<1> SUFFICES ASSUME IInv, [Next]_vars PROVE Types'
  OBVIOUS
<1>0. Types
  BY DEF IInv
<1>1. ASSUME NEW k \in Tasks, DriverSubmit(k) PROVE Types'
  BY <1>0, <1>1, PushAppends DEF DriverSubmit, Types, work
<1>2. ASSUME NEW w \in Workers, NEW k \in Tasks, Spawn(w, k) PROVE Types'
  BY <1>0, <1>2, PushAppends DEF Spawn, Goto, Types, Places, work
<1>3. ASSUME NEW started \in SUBSET Workers, RunStart(started) PROVE Types'
  <2>1. pc' \in [Workers -> {"loop", "none"}] /\ runs' \in 0..MaxRuns
    BY <1>0, <1>3, RunsAssumption DEF RunStart, Types
  <2>2. pc' \in Places
    BY <2>1 DEF Places
  <2>3. locked = FALSE /\ locked' = FALSE
    BY <1>0, <1>3 DEF RunStart, Types
  <2> QED BY <1>0, <1>3, <2>1, <2>2, <2>3 DEF RunStart, Restarted, Types, work
<1>4. CASE DriverNotifyOne \/ Stop \/ SpuriousWakeup
  <2>1. pc' \in Places
    BY <1>0, <1>4, WakeupSteps DEF Wakes
  <2> QED BY <1>0, <1>4, <2>1 DEF DriverNotifyOne, Stop, SpuriousWakeup, Types, work
<1>5. CASE TestDone
  BY <1>0, <1>5 DEF TestDone, Types, work
<1>6. CASE SleepOnDone
  BY <1>0, <1>6 DEF SleepOnDone, Types, work
<1>7. CASE Join
  <2>1. pc' \in Places
    BY <1>7 DEF Join, Places
  <2> QED BY <1>0, <1>7, <2>1 DEF Join, Types, work
<1>8. CASE Destroy
  <2>1. pc' \in Places /\ queue' \in Seq(Tasks)
    BY <1>0, <1>8, WakeupSteps, EmptyOccurs DEF Wakes, Destroy
  <2> QED BY <1>0, <1>8, <2>1 DEF Destroy, Types, work
<1>9. ASSUME NEW w \in Workers, Fetch(w) PROVE Types'
  <2>1. CASE queue # <<>>
    <3>1. PICK k \in Tasks :
            /\ queue' \in Seq(Tasks)
            /\ task' = [task EXCEPT ![w] = k] /\ pc' = [pc EXCEPT ![w] = "run"]
      BY <1>9, <2>1, FetchTakes
    <3>2. task' \in [Workers -> Ptr] /\ pc' \in Places
      BY <1>0, <3>1 DEF Types, Ptr, Places
    <3> QED BY <1>0, <1>9, <3>1, <3>2 DEF Fetch, Types
  <2>2. CASE queue = <<>>
    <3>1. pc' \in Places
      BY <1>0, <1>9, <2>2 DEF Fetch, Goto, Types, Places
    <3> QED BY <1>0, <1>9, <2>2, <3>1 DEF Fetch, Types
  <2> QED BY <2>1, <2>2
<1>10. ASSUME NEW w \in Workers, SpawnNotify(w) PROVE Types'
  BY <1>0, <1>10, SpawnNotifyWakes DEF SpawnNotify, Types, work
<1>11. ASSUME NEW w \in Workers, Finish(w) PROVE Types'
  <2>1. task[w] \in Tasks
    BY <1>0, <1>11 DEF IInv, Phases, Finish, Types, Ptr
  <2>2. pc' \in Places
    BY <1>0, <1>11 DEF Finish, Goto, Types, Places
  <2> QED BY <1>0, <1>11, <2>1, <2>2 DEF Finish, Types, Ptr
<1>12. ASSUME NEW w \in Workers, NotifyDone(w) PROVE Types'
  BY <1>0, <1>12 DEF NotifyDone, Goto, Types, Places, work
<1>13. CASE UNCHANGED vars
  BY <1>0, <1>13 DEF vars, work, Types
<1> QED BY <1>1, <1>2, <1>3, <1>4, <1>5, <1>6, <1>7, <1>8, <1>9, <1>10, <1>11, <1>12,
           <1>13 DEF Next, Driver, Loop

\* Where workers are.
LEMMA PhasesStep == IInv /\ [Next]_vars => Phases'
<1> SUFFICES ASSUME IInv, [Next]_vars PROVE Phases'
  OBVIOUS
<1>0. Types /\ Phases
  BY DEF IInv
<1>a. ASSUME InRun' <=> InRun, task' = task, Wakes(pc') PROVE Phases'
  <2>1. ASSUME NEW w \in Workers
        PROVE  /\ pc[w] = "none" => pc'[w] = "none"
               /\ pc'[w] \in {"run", "notify"} <=> pc[w] \in {"run", "notify"}
    BY <1>a, <2>1 DEF Wakes
  <2> QED BY <1>0, <1>a, <2>1 DEF Phases
<1>b. ASSUME NEW w \in Workers, pc[w] # "none", driver' = driver,
             task'[w] = NULL <=> pc'[w] \notin {"run", "notify"},
             \A v \in Workers : v # w => pc'[v] = pc[v] /\ task'[v] = task[v]
      PROVE  Phases'
  BY <1>0, <1>b DEF Phases, InRun
<1>1. ASSUME NEW k \in Tasks, DriverSubmit(k) PROVE Phases'
  BY <1>0, <1>1 DEF DriverSubmit, Phases, InRun, work
<1>2. ASSUME NEW w \in Workers, NEW k \in Tasks, Spawn(w, k) PROVE Phases'
  <2>1. /\ pc[w] = "run" /\ pc'[w] = "notify" /\ task' = task /\ driver' = driver
        /\ \A v \in Workers : v # w => pc'[v] = pc[v]
    BY <1>0, <1>2 DEF Spawn, Goto, Types, Places, work
  <2> QED BY <1>0, <1>b, <2>1 DEF Phases
<1>3. ASSUME NEW started \in SUBSET Workers, RunStart(started) PROVE Phases'
  <2>1. \A w \in Workers : pc[w] = "none" /\ pc'[w] \in {"loop", "none"}
    BY <1>0, <1>3 DEF RunStart, Phases, InRun
  <2> QED BY <1>0, <1>3, <2>1 DEF RunStart, Phases, InRun, work
<1>4. CASE DriverNotifyOne \/ Stop \/ Destroy \/ SpuriousWakeup
  <2>1. Wakes(pc')
    BY <1>0, <1>4, WakeupSteps
  <2>2. (InRun' <=> InRun) /\ task' = task
    BY <1>4 DEF DriverNotifyOne, Stop, Destroy, SpuriousWakeup, work, InRun
  <2> QED BY <1>a, <2>1, <2>2
<1>5. CASE TestDone
  BY <1>0, <1>5 DEF TestDone, Phases, InRun, work
<1>6. CASE SleepOnDone
  BY <1>0, <1>6 DEF SleepOnDone, Phases, InRun, work
<1>7. CASE Join
  BY <1>0, <1>7 DEF Join, Phases, InRun, work
<1>8. ASSUME NEW w \in Workers, Fetch(w) PROVE Phases'
  <2>1. pc[w] = "loop" /\ task[w] = NULL /\ driver' = driver
    BY <1>0, <1>8 DEF Fetch, Phases
  <2>2. CASE queue # <<>>
    <3>1. PICK k \in Tasks : task' = [task EXCEPT ![w] = k] /\ pc' = [pc EXCEPT ![w] = "run"]
      BY <1>8, <2>2, FetchTakes
    <3>2. /\ task'[w] = k /\ pc'[w] = "run"
          /\ \A v \in Workers : v # w => pc'[v] = pc[v] /\ task'[v] = task[v]
      BY <1>0, <3>1 DEF Types, Places
    <3> QED BY <1>b, <2>1, <3>2, TaskAssumption
  <2>3. CASE queue = <<>>
    <3>1. /\ task' = task /\ pc'[w] \in {"exit", "asleep"}
          /\ \A v \in Workers : v # w => pc'[v] = pc[v]
      BY <1>0, <1>8, <2>3 DEF Fetch, Goto, Types, Places
    <3> QED BY <1>b, <2>1, <3>1
  <2> QED BY <2>2, <2>3
<1>9. ASSUME NEW w \in Workers, SpawnNotify(w) PROVE Phases'
  <2>1. task' = task /\ driver' = driver
    BY <1>9 DEF SpawnNotify, work
  <2>2. ASSUME NEW v \in Workers
        PROVE  /\ pc[v] = "none" => pc'[v] = "none"
               /\ pc'[v] \in {"run", "notify"} <=> pc[v] \in {"run", "notify"}
    BY <1>0, <1>9, SpawnNotifyWakes
  <2> QED BY <1>0, <2>1, <2>2 DEF Phases, InRun
<1>10. ASSUME NEW w \in Workers, Finish(w) PROVE Phases'
  <2>1. /\ pc[w] = "run" /\ driver' = driver
        /\ task'[w] = NULL /\ pc'[w] \in {"last", "loop"}
        /\ \A v \in Workers : v # w => pc'[v] = pc[v] /\ task'[v] = task[v]
    BY <1>0, <1>10 DEF Finish, Goto, Types, Places
  <2> QED BY <1>b, <2>1
<1>11. ASSUME NEW w \in Workers, NotifyDone(w) PROVE Phases'
  <2>1. /\ pc[w] = "last" /\ pc'[w] = "loop" /\ task' = task /\ (InRun' <=> InRun)
        /\ \A v \in Workers : v # w => pc'[v] = pc[v]
    BY <1>0, <1>11 DEF NotifyDone, Goto, Types, Places, InRun, work
  <2> QED BY <1>0, <2>1 DEF Phases
<1>12. CASE UNCHANGED vars
  BY <1>0, <1>12 DEF vars, Phases, InRun, work
<1> QED BY <1>1, <1>2, <1>3, <1>4, <1>5, <1>6, <1>7, <1>8, <1>9, <1>10, <1>11, <1>12
        DEF Next, Driver, Loop

-----------------------------------------------------------------------------
(***************************************************************************)
(* Where a task is, before and after a step.                               *)
(***************************************************************************)

\* submit, by the driver or by a task.
LEMMA SubmitMoves ==
  ASSUME IInv, NEW k \in Tasks, DriverSubmit(k) \/ \E w \in Workers : Spawn(w, k)
  PROVE  /\ ~Queued(k) /\ ~Executing(k) /\ pending' = pending + 1
         /\ \A j \in Tasks : Queued(j)' <=> Queued(j) \/ j = k
         /\ \A j \in Tasks : Executing(j)' <=> Executing(j)
<1>1. Push(k) /\ task' = task
  BY DEF DriverSubmit, Spawn, work
<1> QED BY <1>1, PushAppends DEF Executing

\* A fetch starts the first task of the queue.
LEMMA FetchMoves ==
  ASSUME IInv, NEW w \in Workers, Fetch(w), queue # <<>>
  PROVE  \E k \in Tasks :
           /\ Queued(k) /\ ~Executing(k)
           /\ \A j \in Tasks : Queued(j)' <=> Queued(j) /\ j # k
           /\ \A j \in Tasks : Executing(j)' <=> Executing(j) \/ j = k
<1>0. Types
  BY DEF IInv
<1>1. PICK k \in Tasks :
        /\ Queued(k) /\ ~Executing(k)
        /\ \A j \in Tasks : Queued(j)' <=> Queued(j) /\ j # k
        /\ task[w] = NULL /\ task' = [task EXCEPT ![w] = k]
  BY FetchTakes
<1>2. task'[w] = k /\ \A u \in Workers : u # w => task'[u] = task[u]
  BY <1>0, <1>1 DEF Types
<1>3. ASSUME NEW j \in Tasks PROVE Executing(j)' <=> Executing(j) \/ j = k
  BY <1>1, <1>2, TaskAssumption DEF Executing
<1> QED BY <1>1, <1>3

\* When a task returns it is neither queued nor executing.
LEMMA FinishMoves ==
  ASSUME IInv, NEW w \in Workers, Finish(w)
  PROVE  /\ task[w] \in Tasks /\ Executing(task[w]) /\ ~Queued(task[w])
         /\ \A j \in Tasks : Queued(j)' <=> Queued(j)
         /\ \A j \in Tasks : Executing(j)' <=> Executing(j) /\ j # task[w]
<1>0. Types /\ Phases /\ Unique
  BY DEF IInv
<1>1. task[w] \in Tasks /\ Executing(task[w])
  BY <1>0 DEF Finish, Phases, Types, Ptr, Executing
<1>2. ~Queued(task[w]) /\ \A u \in Workers : u # w => task[u] # task[w]
  BY <1>0, <1>1, TaskAssumption DEF Unique
<1>3. /\ task'[w] = NULL /\ \A u \in Workers : u # w => task'[u] = task[u]
      /\ queue' = queue
  BY <1>0 DEF Finish, Types
<1>4. ASSUME NEW j \in Tasks PROVE Executing(j)' <=> Executing(j) /\ j # task[w]
  BY <1>2, <1>3, TaskAssumption DEF Executing
<1> QED BY <1>1, <1>2, <1>3, <1>4 DEF Queued

\* The destructor leaves no task, and between runs none is executing.
LEMMA DestroyMoves ==
  ASSUME IInv, Destroy
  PROVE  \A j \in Tasks : ~Queued(j)' /\ ~Executing(j) /\ ~Executing(j)'
<1>1. \A w \in Workers : task[w] = NULL
  BY DEF IInv, Phases, InRun, Destroy
<1>2. queue' = <<>> /\ task' = task
  BY DEF Destroy, work
<1> QED BY <1>1, <1>2, TaskAssumption DEF Queued, Executing

\* A task never gets to a second place.
LEMMA UniqueStep == IInv /\ [Next]_vars => Unique'
<1> SUFFICES ASSUME IInv, [Next]_vars PROVE Unique'
  OBVIOUS
<1>0. Types /\ Unique
  BY DEF IInv
<1>a. ASSUME queue' = queue, task' = task PROVE Unique'
  BY <1>0, <1>a DEF Unique, Queued, Executing
<1>1. ASSUME NEW k \in Tasks, DriverSubmit(k) \/ \E w \in Workers : Spawn(w, k) PROVE Unique'
  <2>1. Push(k) /\ task' = task
    BY <1>1 DEF DriverSubmit, Spawn, work
  <2>2. Distinct(queue')
    BY <2>1, PushAppends
  <2>3. \A j \in Tasks : ~(Queued(j)' /\ Executing(j)')
    BY <1>0, <1>1, SubmitMoves DEF Unique
  <2> QED BY <1>0, <2>1, <2>2, <2>3 DEF Unique
<1>2. ASSUME NEW w \in Workers, Fetch(w) PROVE Unique'
  <2>1. CASE queue # <<>>
    <3>1. PICK k \in Tasks :
            /\ Queued(k) /\ ~Executing(k) /\ Distinct(queue')
            /\ \A j \in Tasks : Queued(j)' <=> Queued(j) /\ j # k
            /\ task' = [task EXCEPT ![w] = k]
      BY <1>2, <2>1, FetchTakes
    <3>2. task'[w] = k /\ \A u \in Workers : u # w => task'[u] = task[u]
      BY <1>0, <3>1 DEF Types
    <3>3. \A u \in Workers : task[u] # k
      BY <3>1 DEF Executing
    <3>4. \A j \in Tasks : Executing(j)' => Executing(j) \/ j = k
      BY <3>2 DEF Executing
    <3>5. \A j \in Tasks : ~(Queued(j)' /\ Executing(j)')
      BY <1>0, <3>1, <3>4 DEF Unique
    <3>6. \A u, v \in Workers : task'[u] = task'[v] /\ task'[u] # NULL => u = v
      BY <1>0, <3>2, <3>3 DEF Unique
    <3> QED BY <3>1, <3>5, <3>6 DEF Unique
  <2>2. CASE queue = <<>>
    BY <1>a, <1>2, <2>2 DEF Fetch
  <2> QED BY <2>1, <2>2
<1>3. ASSUME NEW w \in Workers, Finish(w) PROVE Unique'
  <2>1. /\ task'[w] = NULL /\ \A u \in Workers : u # w => task'[u] = task[u]
        /\ queue' = queue
    BY <1>0, <1>3 DEF Finish, Types
  <2>2. \A j \in Tasks : ~(Queued(j)' /\ Executing(j)')
    BY <1>0, <1>3, FinishMoves DEF Unique
  <2> QED BY <1>0, <2>1, <2>2 DEF Unique
<1>4. CASE Destroy
  <2>1. queue' = <<>> /\ task' = task
    BY <1>4 DEF Destroy, work
  <2> QED BY <1>0, <1>4, <2>1, DestroyMoves, EmptyOccurs DEF Unique
<1>5. ASSUME NEW started \in SUBSET Workers, RunStart(started) PROVE Unique'
  BY <1>a, <1>5 DEF RunStart, work
<1>6. CASE DriverNotifyOne \/ TestDone \/ SleepOnDone \/ Stop \/ Join \/ SpuriousWakeup
  BY <1>a, <1>6 DEF DriverNotifyOne, TestDone, SleepOnDone, Stop, Join, SpuriousWakeup, work
<1>7. ASSUME NEW w \in Workers, SpawnNotify(w) \/ NotifyDone(w) PROVE Unique'
  BY <1>a, <1>7 DEF SpawnNotify, NotifyDone, work
<1>8. CASE UNCHANGED vars
  BY <1>a, <1>8 DEF vars, work
<1> QED BY <1>1, <1>2, <1>3, <1>4, <1>5, <1>6, <1>7, <1>8 DEF Next, Driver, Loop

-----------------------------------------------------------------------------
(***************************************************************************)
(* The counter.                                                            *)
(***************************************************************************)

\* There are finitely many unfinished tasks.
LEMMA UnfinishedFacts ==
  /\ IsFiniteSet(Unfinished) /\ Cardinality(Unfinished) \in Nat
  /\ Cardinality(Unfinished) = 0 <=> Unfinished = {}
<1>1. Unfinished \in SUBSET Tasks
  BY DEF Unfinished
<1>2. IsFiniteSet(Unfinished)
  BY <1>1, TaskAssumption, FS_Subset
<1> QED BY <1>2, FS_CardinalityType, FS_EmptySet

\* While a worker executes a task the driver does not stop the workers.
LEMMA ExecutingCounts ==
  ASSUME IInv, NEW w \in Workers, pc[w] = "run"
  PROVE  /\ driver \in {"test", "tested", "asleep"}
         /\ pending = Cardinality(Unfinished) /\ pending \in Nat \ {0}
<1>0. Types /\ Phases /\ Counter
  BY DEF IInv
<1>1. task[w] \in Tasks /\ Executing(task[w])
  BY <1>0 DEF Phases, Types, Ptr, Executing
<1>2. Unfinished # {}
  BY <1>1 DEF Unfinished
<1>3. InRun
  BY <1>0 DEF Phases
<1>4. pending = Cardinality(Unfinished) /\ pending \in Nat \ {0}
  BY <1>0, <1>2, <1>3, UnfinishedFacts DEF Counter, InRun
<1> QED BY <1>0, <1>3, <1>4 DEF Counter, InRun

\* The counter keeps up with the tasks.
LEMMA CounterStep == IInv /\ [Next]_vars => Counter'
<1> SUFFICES ASSUME IInv, [Next]_vars PROVE Counter'
  OBVIOUS
<1>0. Types /\ Phases /\ Counter
  BY DEF IInv
<1>a. ASSUME queue' = queue, task' = task PROVE Unfinished' = Unfinished
  BY <1>a DEF Unfinished, Queued, Executing
<1>1. ASSUME NEW k \in Tasks, DriverSubmit(k) \/ \E w \in Workers : Spawn(w, k)
      PROVE  Counter'
  <2>1. Unfinished' = Unfinished \cup {k} /\ k \notin Unfinished /\ pending' = pending + 1
    BY <1>1, SubmitMoves DEF Unfinished
  <2>2. Cardinality(Unfinished') = Cardinality(Unfinished) + 1
    BY <2>1, UnfinishedFacts, FS_AddElement
  <2>3. driver \notin {"gone", "stop", "join"} /\ driver' \in {driver, "notify"}
    <3>1. CASE DriverSubmit(k)
      BY <3>1 DEF DriverSubmit
    <3>2. ASSUME NEW w \in Workers, Spawn(w, k)
          PROVE  driver \in {"test", "tested", "asleep"} /\ driver' = driver
      BY <3>2, ExecutingCounts DEF Spawn
    <3> QED BY <1>1, <3>1, <3>2
  <2> QED BY <1>0, <2>1, <2>2, <2>3 DEF Counter
<1>2. ASSUME NEW w \in Workers, Fetch(w) PROVE Counter'
  <2>1. Unfinished' = Unfinished
    <3>1. CASE queue # <<>>
      <4>1. PICK k \in Tasks :
              /\ Queued(k)
              /\ \A j \in Tasks : Queued(j)' <=> Queued(j) /\ j # k
              /\ \A j \in Tasks : Executing(j)' <=> Executing(j) \/ j = k
        BY <1>2, <3>1, FetchMoves
      <4> QED BY <4>1 DEF Unfinished
    <3>2. CASE queue = <<>>
      BY <1>a, <1>2, <3>2 DEF Fetch
    <3> QED BY <3>1, <3>2
  <2> QED BY <1>0, <1>2, <2>1 DEF Fetch, Counter
<1>3. ASSUME NEW w \in Workers, Finish(w) PROVE Counter'
  <2>1. Unfinished' = Unfinished \ {task[w]} /\ task[w] \in Unfinished
    BY <1>3, FinishMoves DEF Unfinished
  <2>2. Cardinality(Unfinished') = Cardinality(Unfinished) - 1
    BY <2>1, UnfinishedFacts, FS_RemoveElement
  <2>3. /\ driver \in {"test", "tested", "asleep"} /\ driver' = driver
        /\ pending = Cardinality(Unfinished) /\ pending' = pending - 1
    BY <1>3, ExecutingCounts DEF Finish
  <2> QED BY <2>2, <2>3 DEF Counter
<1>4. CASE Destroy
  <2>1. driver = "out" /\ driver' = "gone" /\ pending' = pending
    BY <1>4 DEF Destroy
  <2> QED BY <1>0, <2>1, UnfinishedFacts DEF Counter
<1>5. ASSUME NEW started \in SUBSET Workers, RunStart(started) PROVE Counter'
  <2>1. Unfinished' = Unfinished
    BY <1>a, <1>5 DEF RunStart, work
  <2> QED BY <1>0, <1>5, <2>1 DEF RunStart, Counter
<1>6. CASE DriverNotifyOne \/ TestDone \/ SleepOnDone \/ Stop \/ Join
  <2>1. Unfinished' = Unfinished /\ pending' = pending
    BY <1>a, <1>6 DEF DriverNotifyOne, TestDone, SleepOnDone, Stop, Join, work
  <2>2. driver # "gone" /\ driver' # "gone"
    BY <1>6 DEF DriverNotifyOne, TestDone, SleepOnDone, Stop, Join
  <2>3. driver' \in {"stop", "join"} => pending = 0
    BY <1>0, <1>6 DEF DriverNotifyOne, TestDone, SleepOnDone, Stop, Join, Counter
  <2> QED BY <1>0, <2>1, <2>2, <2>3 DEF Counter
<1>7. ASSUME NEW w \in Workers, SpawnNotify(w) \/ NotifyDone(w) PROVE Counter'
  <2>1. Unfinished' = Unfinished /\ pending' = pending
    BY <1>a, <1>7 DEF SpawnNotify, NotifyDone, work
  <2>2. CASE SpawnNotify(w)
    BY <1>0, <2>1, <2>2 DEF Counter, SpawnNotify
  <2>3. CASE NotifyDone(w) /\ driver = "asleep"
    BY <1>0, <2>1, <2>3 DEF Counter, NotifyDone
  <2>4. CASE NotifyDone(w) /\ driver # "asleep"
    BY <1>0, <2>1, <2>4 DEF Counter, NotifyDone
  <2> QED BY <1>7, <2>2, <2>3, <2>4
<1>8. CASE SpuriousWakeup
  <2>1. Unfinished' = Unfinished /\ pending' = pending
    BY <1>a, <1>8 DEF SpuriousWakeup, work
  <2>2. CASE driver' = driver
    BY <1>0, <2>1, <2>2 DEF Counter
  <2>3. CASE driver = "asleep" /\ driver' = "test"
    BY <1>0, <2>1, <2>3 DEF Counter
  <2> QED BY <1>8, <2>2, <2>3 DEF SpuriousWakeup
<1>9. CASE UNCHANGED vars
  <2>1. Unfinished' = Unfinished
    BY <1>a, <1>9 DEF vars, work
  <2> QED BY <1>0, <1>9, <2>1 DEF vars, Counter
<1> QED BY <1>1, <1>2, <1>3, <1>4, <1>5, <1>6, <1>7, <1>8, <1>9 DEF Next, Driver, Loop

-----------------------------------------------------------------------------
(***************************************************************************)
(* The invariant holds, and what follows from it.                          *)
(***************************************************************************)

\* At first.
LEMMA IInvInit == Init => IInv
<1> SUFFICES ASSUME Init PROVE IInv
  OBVIOUS
<1>1. Types
  <2>1. pc \in [Workers -> {"none"}]
    BY DEF Init
  <2>2. pc \in Places
    BY <2>1 DEF Places
  <2>3. runs \in 0..MaxRuns
    BY RunsAssumption DEF Init
  <2>4. locked = (driver = "tested")
    BY DEF Init
  <2>5. task \in [Workers -> Ptr] /\ done \in [Tasks -> Nat]
    BY DEF Init, Ptr
  <2>6. queue \in Seq(Tasks)
    BY DEF Init
  <2>8. pending \in Int
    BY DEF Init
  <2>9. shutdown \in BOOLEAN
    BY DEF Init
  <2>7. driver \in {"out", "notify", "test", "tested", "asleep", "stop", "join", "gone"}
    BY DEF Init
  <2> QED BY <2>2, <2>3, <2>4, <2>5, <2>6, <2>7, <2>8, <2>9 DEF Types
<1>2. Phases
  BY DEF Init, Phases
<1>3. \A k \in Tasks : ~Queued(k) /\ ~Executing(k)
  BY TaskAssumption DEF Init, Queued, Executing
<1>4. Unique
  BY <1>3, EmptyOccurs DEF Init, Unique
<1>5. Counter
  <2>1. Unfinished = {}
    BY <1>3 DEF Unfinished
  <2> QED BY <2>1, UnfinishedFacts DEF Init, Counter
<1> QED BY <1>1, <1>2, <1>4, <1>5 DEF IInv

\* The invariant holds, for any tasks and workers.
THEOREM Invariance == Spec => []IInv
<1>1. IInv /\ [Next]_vars => IInv'
  BY TypesStep, PhasesStep, UniqueStep, CounterStep DEF IInv
<1> QED BY <1>1, IInvInit, PTL DEF Spec

\* The variables have their types, and the mutex is held over one step only.
THEOREM TypeCorrect == Spec => []TypeOK
<1>1. IInv => TypeOK
  <2> SUFFICES ASSUME IInv PROVE TypeOK
    OBVIOUS
  <2>1. Types
    BY DEF IInv
  <2>2. pending \in Nat
    BY <2>1, UnfinishedFacts DEF IInv, Counter, Types
  <2> QED BY <2>1, <2>2 DEF Types, TypeOK, Ptr, Places
<1> QED BY <1>1, Invariance, PTL

-----------------------------------------------------------------------------
(***************************************************************************)
(* No worker sleeps through work.                                          *)
(***************************************************************************)

\* There are finitely many workers.
LEMMA AttendingFacts == IsFiniteSet(Attending) /\ Cardinality(Attending) \in Nat
<1>1. Attending \in SUBSET Workers
  BY DEF Attending
<1>2. IsFiniteSet(Attending)
  BY <1>1, RunsAssumption, FS_Subset
<1> QED BY <1>2, FS_CardinalityType

\* Each task that is queued comes with a worker that attends to the queue, each
\* one that is fetched takes one away.
LEMMA NoIdleWorkerStep == IInv /\ NoIdleWorker /\ [Next]_vars => NoIdleWorker'
<1> SUFFICES ASSUME IInv, NoIdleWorker, [Next]_vars PROVE NoIdleWorker'
  OBVIOUS
<1>0. Types /\ Phases
  BY DEF IInv
<1>a. IsFiniteSet(Attending') /\ Cardinality(Attending') \in Nat
  <2>1. Attending' \in SUBSET Workers
    BY DEF Attending
  <2>2. IsFiniteSet(Attending')
    BY <2>1, RunsAssumption, FS_Subset
  <2> QED BY <2>2, FS_CardinalityType
<1>b. ASSUME queue' = queue, Attending \subseteq Attending', Asleep' \subseteq Asleep
      PROVE  NoIdleWorker'
  <2>1. Cardinality(Attending) <= Cardinality(Attending')
    BY <1>a, <1>b, FS_Subset
  <2> QED BY <1>0, <1>a, <1>b, <2>1, AttendingFacts DEF NoIdleWorker, Types
<1>c. ASSUME \A w \in Workers : pc'[w] # "asleep" PROVE NoIdleWorker'
  BY <1>c DEF NoIdleWorker, Asleep
<1>1. ASSUME NEW k \in Tasks, DriverSubmit(k) PROVE NoIdleWorker'
  BY <1>0, <1>1, <1>c DEF DriverSubmit, Phases, InRun
<1>2. ASSUME NEW w \in Workers, NEW k \in Tasks, Spawn(w, k) PROVE NoIdleWorker'
  <2>1. /\ pc[w] = "run" /\ pc'[w] = "notify"
        /\ \A v \in Workers : v # w => pc'[v] = pc[v]
    BY <1>0, <1>2 DEF Spawn, Goto, Types, Places
  <2>2. Attending' = Attending \cup {w} /\ w \notin Attending /\ Asleep' = Asleep
    BY <2>1 DEF Attending, Asleep
  <2>3. Cardinality(Attending') = Cardinality(Attending) + 1
    BY <2>2, AttendingFacts, FS_AddElement
  <2>4. Len(queue') = Len(queue) + 1 /\ Len(queue) \in Nat
    BY <1>0, <1>2, PushAppends DEF Spawn, Types
  <2> QED BY <2>2, <2>3, <2>4, AttendingFacts DEF NoIdleWorker
<1>3. ASSUME NEW started \in SUBSET Workers, RunStart(started) PROVE NoIdleWorker'
  BY <1>3, <1>c DEF RunStart
<1>4. CASE DriverNotifyOne \/ Stop \/ SpuriousWakeup
  <2>1. Wakes(pc') /\ queue' = queue
    BY <1>0, <1>4, WakeupSteps DEF DriverNotifyOne, Stop, SpuriousWakeup
  <2>2. Attending \subseteq Attending' /\ Asleep' \subseteq Asleep
    BY <2>1 DEF Wakes, Attending, Asleep
  <2> QED BY <1>b, <2>1, <2>2
<1>5. CASE TestDone \/ SleepOnDone
  BY <1>5, <1>b DEF TestDone, SleepOnDone, Attending, Asleep
<1>6. CASE Join
  BY <1>6, <1>c DEF Join
<1>7. CASE Destroy
  <2>1. \A w \in Workers : pc[w] = "none"
    BY <1>0, <1>7 DEF Destroy, Phases, InRun
  <2>2. Wakes(pc')
    BY <1>0, <1>7, WakeupSteps
  <2> QED BY <1>c, <2>1, <2>2 DEF Wakes
<1>8. ASSUME NEW w \in Workers, Fetch(w) PROVE NoIdleWorker'
  <2>1. CASE queue # <<>>
    <3>1. /\ pc[w] = "loop" /\ pc' = [pc EXCEPT ![w] = "run"]
          /\ Len(queue') = Len(queue) - 1 /\ Len(queue) \in Nat
      BY <1>0, <1>8, <2>1, FetchTakes DEF Fetch, Types
    <3>2. Attending' = Attending \ {w} /\ w \in Attending /\ Asleep' = Asleep
      BY <1>0, <3>1 DEF Attending, Asleep, Types, Places
    <3>3. Cardinality(Attending') = Cardinality(Attending) - 1
      BY <3>2, AttendingFacts, FS_RemoveElement
    <3> QED BY <3>1, <3>2, <3>3, AttendingFacts DEF NoIdleWorker
  <2>2. CASE queue = <<>>
    <3>1. Len(queue') = 0
      BY <1>8, <2>2 DEF Fetch
    <3> QED BY <1>a, <3>1 DEF NoIdleWorker
  <2> QED BY <2>1, <2>2
<1>9. ASSUME NEW w \in Workers, SpawnNotify(w) PROVE NoIdleWorker'
  <2>1. PICK p \in NotifyOne : pc' = [p EXCEPT ![w] = "run"]
    BY <1>9 DEF SpawnNotify
  <2>2. pc[w] = "notify" /\ queue' = queue
    BY <1>9 DEF SpawnNotify
  <2>3. CASE Asleep = {}
    <3>1. p = pc
      BY <2>1, <2>3 DEF NotifyOne
    <3>2. \A v \in Workers : pc'[v] # "asleep"
      BY <1>0, <2>1, <2>3, <3>1 DEF Asleep, Types, Places
    <3> QED BY <1>c, <3>2
  <2>4. CASE Asleep # {}
    <3>1. PICK u \in Asleep : p = Woken({u})
      BY <2>1, <2>4 DEF NotifyOne
    <3>2. /\ u \in Workers /\ pc[u] = "asleep" /\ pc'[u] = "loop" /\ pc'[w] = "run"
          /\ \A v \in Workers : v # u /\ v # w => pc'[v] = pc[v]
      BY <2>1, <2>2, <3>1 DEF Woken, Asleep
    <3>3. /\ Attending' = (Attending \ {w}) \cup {u}
          /\ w \in Attending /\ u \notin Attending \ {w}
      BY <2>2, <3>2 DEF Attending
    <3>4. /\ IsFiniteSet(Attending \ {w})
          /\ Cardinality(Attending \ {w}) = Cardinality(Attending) - 1
      BY <3>3, AttendingFacts, FS_RemoveElement
    <3>5. Cardinality(Attending') = Cardinality(Attending \ {w}) + 1
      BY <3>3, <3>4, FS_AddElement
    <3> QED BY <2>2, <2>4, <3>4, <3>5, AttendingFacts DEF NoIdleWorker
  <2> QED BY <2>3, <2>4
<1>10. ASSUME NEW w \in Workers, Finish(w) \/ NotifyDone(w) PROVE NoIdleWorker'
  <2>1. /\ pc[w] \in {"run", "last"} /\ pc'[w] \in {"last", "loop"} /\ queue' = queue
        /\ \A v \in Workers : v # w => pc'[v] = pc[v]
    BY <1>0, <1>10 DEF Finish, NotifyDone, Goto, Types, Places
  <2>2. Attending \subseteq Attending' /\ Asleep' \subseteq Asleep
    BY <2>1 DEF Attending, Asleep
  <2> QED BY <1>b, <2>1, <2>2
<1>11. CASE UNCHANGED vars
  BY <1>11, <1>b DEF vars, Attending, Asleep
<1> QED BY <1>1, <1>2, <1>3, <1>4, <1>5, <1>6, <1>7, <1>8, <1>9, <1>10, <1>11
        DEF Next, Driver, Loop

\* When a worker is asleep every queued task has someone who is on the way to it,
\* however many submitters notify at the same time.
THEOREM NoIdleWorkerCorrect == Spec => []NoIdleWorker
<1>1. Init => NoIdleWorker
  BY DEF Init, NoIdleWorker, Asleep
<1> QED BY <1>1, NoIdleWorkerStep, Invariance, PTL DEF Spec

-----------------------------------------------------------------------------
(***************************************************************************)
(* The lost wakeup is the only deadlock.                                   *)
(***************************************************************************)

\* run() is waiting for pending_ to be zero.
Waiting == driver \in {"test", "tested", "asleep"}

\* A worker exits only after the shutdown, and the driver joins only workers that
\* have seen it; a run that has tasks has workers.
Shut ==
  /\ Waiting => ~shutdown
  /\ driver \in {"stop", "join"} => shutdown
  /\ \A w \in Workers : pc[w] = "exit" => shutdown
  /\ driver = "join" => \A w \in Workers : pc[w] # "asleep"
  /\ Waiting /\ pending # 0 => \E w \in Workers : pc[w] # "none"

\* Steps keep it.
LEMMA ShutStep == IInv /\ Shut /\ [Next]_vars => Shut'
<1> SUFFICES ASSUME IInv, Shut, [Next]_vars PROVE Shut'
  OBVIOUS
<1>0. Types /\ Phases /\ Counter
  BY DEF IInv
\* A worker moves, and may wake others up.
<1>a. ASSUME NEW w \in Workers, shutdown' = shutdown,
             driver' = driver \/ (driver = "asleep" /\ driver' = "test"),
             pc[w] # "none", pc'[w] # "none",
             pc'[w] = "exit" => shutdown,
             pc'[w] = "asleep" => ~shutdown,
             \A v \in Workers : v # w => pc'[v] = pc[v] \/ pc'[v] = "loop"
      PROVE  Shut'
  BY <1>a DEF Shut, Waiting
\* Workers are woken up, and nothing else.
<1>b. ASSUME Wakes(pc'), shutdown' = shutdown, pending' = pending, Waiting' => Waiting,
             driver' \in {"stop", "join"} => driver = driver'
      PROVE  Shut'
  <2>1. \A w \in Workers :
          /\ pc'[w] = "exit" => pc[w] = "exit"
          /\ pc'[w] = "asleep" => pc[w] = "asleep"
          /\ pc[w] # "none" => pc'[w] # "none"
    BY <1>b DEF Wakes
  <2> QED BY <1>b, <2>1 DEF Shut
<1>1. ASSUME NEW k \in Tasks, DriverSubmit(k) PROVE Shut'
  BY <1>1 DEF DriverSubmit, Shut, Waiting
<1>2. ASSUME NEW w \in Workers, NEW k \in Tasks, Spawn(w, k) PROVE Shut'
  <2>1. /\ pc[w] = "run" /\ pc'[w] = "notify"
        /\ \A v \in Workers : v # w => pc'[v] = pc[v]
    BY <1>0, <1>2 DEF Spawn, Goto, Types, Places
  <2>2. driver' = driver /\ shutdown' = shutdown
    BY <1>2 DEF Spawn
  <2> QED BY <1>a, <2>1, <2>2
<1>3. ASSUME NEW started \in SUBSET Workers, RunStart(started) PROVE Shut'
  <2>1. /\ driver' = "test" /\ shutdown' = FALSE /\ pending' = pending
        /\ \A w \in Workers : pc'[w] = IF w \in started THEN "loop" ELSE "none"
    BY <1>3 DEF RunStart, Restarted
  <2>2. pending # 0 => \E w \in Workers : pc'[w] # "none"
    BY <1>3, <2>1 DEF RunStart
  <2> QED BY <2>1, <2>2 DEF Shut, Waiting
<1>4. CASE DriverNotifyOne \/ SpuriousWakeup
  <2>1. Wakes(pc')
    BY <1>0, <1>4, WakeupSteps
  <2>2. shutdown' = shutdown /\ pending' = pending
    BY <1>4 DEF DriverNotifyOne, SpuriousWakeup
  <2>3. (Waiting' => Waiting) /\ (driver' \in {"stop", "join"} => driver = driver')
    BY <1>4 DEF DriverNotifyOne, SpuriousWakeup, Waiting
  <2> QED BY <1>b, <2>1, <2>2, <2>3
<1>5. CASE TestDone
  BY <1>0, <1>5 DEF TestDone, Shut, Waiting
<1>6. CASE SleepOnDone
  BY <1>6 DEF SleepOnDone, Shut, Waiting
<1>7. CASE Stop
  <2>1. /\ driver = "stop" /\ driver' = "join" /\ shutdown' = shutdown
        /\ pc' = Woken(Asleep)
    BY <1>7 DEF Stop, NotifyAll
  <2>2. \A w \in Workers : pc'[w] # "asleep" /\ (pc'[w] = "exit" => pc[w] = "exit")
    BY <2>1 DEF Woken, Asleep
  <2> QED BY <2>1, <2>2 DEF Shut, Waiting
<1>8. CASE Join
  BY <1>8 DEF Join, Shut, Waiting
<1>9. CASE Destroy
  <2>1. driver' = "gone" /\ shutdown' = TRUE
    BY <1>9 DEF Destroy
  <2> QED BY <2>1 DEF Shut, Waiting
<1>10. ASSUME NEW w \in Workers, Fetch(w) PROVE Shut'
  <2>1. /\ pc[w] = "loop" /\ driver' = driver /\ shutdown' = shutdown
        /\ pc'[w] = IF queue # <<>> THEN "run" ELSE IF shutdown THEN "exit" ELSE "asleep"
        /\ \A v \in Workers : v # w => pc'[v] = pc[v]
    BY <1>0, <1>10 DEF Fetch, Goto, Types, Places
  <2> QED BY <1>a, <2>1
<1>11. ASSUME NEW w \in Workers, SpawnNotify(w) PROVE Shut'
  <2>1. driver' = driver /\ shutdown' = shutdown
    BY <1>11 DEF SpawnNotify
  <2> QED BY <1>0, <1>11, <1>a, <2>1, SpawnNotifyWakes
<1>12. ASSUME NEW w \in Workers, Finish(w) \/ NotifyDone(w) PROVE Shut'
  <2>1. /\ pc[w] \in {"run", "last"} /\ pc'[w] \in {"last", "loop"}
        /\ \A v \in Workers : v # w => pc'[v] = pc[v]
    BY <1>0, <1>12 DEF Finish, NotifyDone, Goto, Types, Places
  <2>2. shutdown' = shutdown /\ (driver' = driver \/ (driver = "asleep" /\ driver' = "test"))
    BY <1>12 DEF Finish, NotifyDone
  <2> QED BY <1>a, <2>1, <2>2
<1>13. CASE UNCHANGED vars
  BY <1>13 DEF vars, Shut, Waiting
<1> QED BY <1>1, <1>2, <1>3, <1>4, <1>5, <1>6, <1>7, <1>8, <1>9, <1>10, <1>11, <1>12, <1>13
        DEF Next, Driver, Loop

\* Sleepers leave no task behind, and there is nobody to be executing one.
LEMMA StandstillIsHung == IInv /\ NoIdleWorker /\ Shut => OnlyHung
<1> SUFFICES ASSUME IInv, NoIdleWorker, Shut, Standstill PROVE Hung
  BY DEF OnlyHung
<1>0. Types /\ Phases /\ Counter
  BY DEF IInv
<1>1. driver = "asleep"
  BY DEF Standstill, Shut, Asleep
<1>2. \A w \in Workers : pc[w] \in {"none", "asleep"}
  BY <1>1 DEF Standstill, Shut, Waiting
<1>3. pending = Cardinality(Unfinished)
  BY <1>0, <1>1 DEF Counter
<1>4. CASE Asleep # {}
  <2>1. Attending = {}
    BY <1>2 DEF Attending
  <2>2. Len(queue) <= 0
    BY <1>4, <2>1, FS_EmptySet DEF NoIdleWorker
  <2>3. queue = <<>>
    BY <1>0, <2>2 DEF Types
  <2>4. \A k \in Tasks : ~Queued(k)
    BY <2>3 DEF Queued
  <2>5. \A k \in Tasks : ~Executing(k)
    BY <1>0, <1>2, TaskAssumption DEF Phases, Executing
  <2>6. Unfinished = {}
    BY <2>4, <2>5 DEF Unfinished
  <2> QED BY <1>1, <1>3, <2>3, <2>6, UnfinishedFacts DEF Hung
<1>5. CASE Asleep = {}
  <2>1. \A w \in Workers : pc[w] = "none"
    BY <1>2, <1>5 DEF Asleep
  <2>2. pending = 0
    BY <1>1, <2>1 DEF Shut, Waiting
  <2>3. Unfinished = {}
    BY <1>3, <2>2, UnfinishedFacts
  <2>4. \A k \in Tasks : ~Queued(k)
    BY <2>3 DEF Unfinished
  <2>5. queue = <<>>
    <3>1. ASSUME queue # <<>> PROVE FALSE
      <4>1. 1 \in DOMAIN queue /\ queue[1] \in Tasks
        BY <1>0, <3>1 DEF Types
      <4> QED BY <2>4, <4>1 DEF Queued
    <3> QED BY <3>1
  <2> QED BY <1>1, <2>2, <2>5 DEF Hung
<1> QED BY <1>4, <1>5

\* When nobody in run() can go on, all the tasks are finished and the driver has
\* missed the notification of the last one.  Every other wakeup arrives: none of
\* cv_.notify_one, none of cv_.notify_all, for any number of workers and runs.
THEOREM OnlyHungCorrect == Spec => []OnlyHung
<1>1. Init => Shut
  BY DEF Init, Shut, Waiting
<1>2. Init => NoIdleWorker
  BY DEF Init, NoIdleWorker, Asleep
<1> QED BY <1>1, <1>2, ShutStep, NoIdleWorkerStep, StandstillIsHung, Invariance, PTL DEF Spec

-----------------------------------------------------------------------------
(***************************************************************************)
(* The scheduler implements Scheduler.                                     *)
(***************************************************************************)

\* The abstract state.
Todo  == [k \in Tasks |-> One(Queued(k))]
Runs  == [k \in Tasks |-> One(Executing(k))]
Phase == IF InRun THEN "in" ELSE IF driver = "gone" THEN "gone" ELSE "out"

\* A step that moves no task and is inside or outside run() before and after.
LEMMA Stutters ==
  ASSUME queue' = queue, task' = task, Phase' = Phase, done' = done
  PROVE  UNCHANGED Abstract!vars
<1>1. Todo' = Todo /\ Runs' = Runs
  BY DEF Todo, Runs, One, Queued, Executing
<1> QED BY <1>1 DEF Abstract!vars, Todo, Runs, Phase

\* submit is Submit.
LEMMA AbstractSubmit ==
  ASSUME IInv, NEW k \in Tasks, DriverSubmit(k) \/ \E w \in Workers : Spawn(w, k)
  PROVE  Abstract!Submit(k)
<1>0. Types /\ Phases
  BY DEF IInv
<1>1. Todo' = [Todo EXCEPT ![k] = @ + 1]
  <2>1. Todo[k] = 0 /\ \A j \in Tasks : Todo'[j] = IF j = k THEN 1 ELSE Todo[j]
    BY SubmitMoves DEF Todo, One
  <2>2. Todo \in [Tasks -> {0, 1}] /\ Todo' \in [Tasks -> {0, 1}]
    BY DEF Todo, One
  <2> QED BY <2>1, <2>2
<1>2. Runs' = Runs
  BY SubmitMoves DEF Runs, One
<1>3. Phase' = Phase /\ done' = done
  BY DEF DriverSubmit, Spawn, Phase, InRun, work
<1>4. Phase = "out" \/ Runs # [j \in Tasks |-> 0]
  <2>1. CASE DriverSubmit(k)
    BY <2>1 DEF DriverSubmit, Phase, InRun
  <2>2. ASSUME NEW w \in Workers, Spawn(w, k) PROVE Runs # [j \in Tasks |-> 0]
    <3>1. task[w] \in Tasks
      BY <1>0, <2>2 DEF Spawn, Phases, Types, Ptr
    <3>2. Runs[task[w]] = 1
      BY <3>1 DEF Runs, One, Executing
    <3> QED BY <3>1, <3>2
  <2> QED BY <2>1, <2>2
<1> QED BY <1>1, <1>2, <1>3, <1>4 DEF Abstract!Submit, Abstract!None, Todo, Runs, Phase

\* A fetch is Start.
LEMMA AbstractStart ==
  ASSUME IInv, NEW w \in Workers, Fetch(w), queue # <<>>
  PROVE  \E k \in Tasks : Abstract!Start(k)
<1>1. PICK k \in Tasks :
        /\ Queued(k) /\ ~Executing(k)
        /\ \A j \in Tasks : Queued(j)' <=> Queued(j) /\ j # k
        /\ \A j \in Tasks : Executing(j)' <=> Executing(j) \/ j = k
  BY FetchMoves
<1>2. Todo[k] > 0 /\ Todo' = [Todo EXCEPT ![k] = @ - 1]
  <2>1. Todo[k] = 1 /\ \A j \in Tasks : Todo'[j] = IF j = k THEN 0 ELSE Todo[j]
    BY <1>1 DEF Todo, One
  <2>2. Todo \in [Tasks -> {0, 1}] /\ Todo' \in [Tasks -> {0, 1}]
    BY DEF Todo, One
  <2> QED BY <2>1, <2>2
<1>3. Runs' = [Runs EXCEPT ![k] = @ + 1]
  <2>1. Runs[k] = 0 /\ \A j \in Tasks : Runs'[j] = IF j = k THEN 1 ELSE Runs[j]
    BY <1>1 DEF Runs, One
  <2>2. Runs \in [Tasks -> {0, 1}] /\ Runs' \in [Tasks -> {0, 1}]
    BY DEF Runs, One
  <2> QED BY <2>1, <2>2
<1>4. InRun
  BY DEF IInv, Phases, Fetch
<1>5. Phase = "in" /\ Phase' = Phase /\ done' = done
  BY <1>4 DEF Fetch, Phase, InRun
<1> QED BY <1>2, <1>3, <1>5 DEF Abstract!Start, Todo, Runs, Phase

\* The return of a task is Finish.
LEMMA AbstractFinish ==
  ASSUME IInv, NEW w \in Workers, Finish(w)
  PROVE  \E k \in Tasks : Abstract!Finish(k)
<1> DEFINE k == task[w]
<1>1. k \in Tasks /\ Runs[k] > 0 /\ Runs' = [Runs EXCEPT ![k] = @ - 1]
  BY FinishMoves DEF Runs, One
<1>2. Todo' = Todo
  BY FinishMoves DEF Todo, One
<1>3. Phase' = Phase /\ done' = [done EXCEPT ![k] = @ + 1]
  BY DEF Finish, Phase, InRun
<1> HIDE DEF k
<1> QED BY <1>1, <1>2, <1>3 DEF Abstract!Finish, Todo, Runs, Phase

\* run() returns only when everything is finished.
LEMMA AbstractReturn == IInv /\ Join => Abstract!Return
<1> SUFFICES ASSUME IInv, Join PROVE Abstract!Return
  OBVIOUS
<1>1. Unfinished = {}
  BY UnfinishedFacts DEF IInv, Counter, Join
<1>2. Todo = [k \in Tasks |-> 0] /\ Runs = [k \in Tasks |-> 0]
  BY <1>1 DEF Unfinished, Todo, Runs, One
<1>3. Todo' = Todo /\ Runs' = Runs /\ done' = done
  BY DEF Join, work, Todo, Runs, One, Queued, Executing
<1>4. Phase = "in" /\ Phase' = "out"
  BY DEF Join, Phase, InRun
<1> QED BY <1>2, <1>3, <1>4 DEF Abstract!Return, Abstract!None, Todo, Runs, Phase

\* The destructor is Destroy.
LEMMA AbstractDestroy == IInv /\ Destroy => Abstract!Destroy
<1> SUFFICES ASSUME IInv, Destroy PROVE Abstract!Destroy
  OBVIOUS
<1>1. /\ Todo' = [k \in Tasks |-> 0]
      /\ Runs = [k \in Tasks |-> 0] /\ Runs' = [k \in Tasks |-> 0]
  BY DestroyMoves DEF Todo, Runs, One
<1>2. Phase = "out" /\ Phase' = "gone" /\ done' = done
  BY DEF Destroy, Phase, InRun, work
<1> QED BY <1>1, <1>2 DEF Abstract!Destroy, Abstract!None, Todo, Runs, Phase

\* Every step is one of the abstract scheduler, or none.
LEMMA AbstractStep == IInv /\ [Next]_vars => [Abstract!Next]_(Abstract!vars)
<1> SUFFICES ASSUME IInv, [Next]_vars PROVE [Abstract!Next]_(Abstract!vars)
  OBVIOUS
<1>1. ASSUME NEW k \in Tasks, DriverSubmit(k) \/ \E w \in Workers : Spawn(w, k)
      PROVE  [Abstract!Next]_(Abstract!vars)
  BY <1>1, AbstractSubmit DEF Abstract!Next
<1>2. ASSUME NEW started \in SUBSET Workers, RunStart(started)
      PROVE  [Abstract!Next]_(Abstract!vars)
  <2>1. Todo' = Todo /\ Runs' = Runs /\ done' = done
    BY <1>2 DEF RunStart, work, Todo, Runs, One, Queued, Executing
  <2>2. Phase = "out" /\ Phase' = "in"
    BY <1>2 DEF RunStart, Phase, InRun
  <2>3. Abstract!Run
    BY <2>1, <2>2 DEF Abstract!Run, Todo, Runs, Phase
  <2> QED BY <2>3 DEF Abstract!Next
<1>3. CASE Join
  BY <1>3, AbstractReturn DEF Abstract!Next
<1>4. CASE Destroy
  BY <1>4, AbstractDestroy DEF Abstract!Next
<1>5. CASE DriverNotifyOne \/ TestDone \/ SleepOnDone \/ Stop \/ SpuriousWakeup
  <2>1. Phase' = Phase
    BY <1>5 DEF DriverNotifyOne, TestDone, SleepOnDone, Stop, SpuriousWakeup, Phase, InRun
  <2> QED BY <1>5, <2>1, Stutters
          DEF DriverNotifyOne, TestDone, SleepOnDone, Stop, SpuriousWakeup, work
<1>6. ASSUME NEW w \in Workers, Fetch(w) PROVE [Abstract!Next]_(Abstract!vars)
  <2>1. CASE queue # <<>>
    BY <1>6, <2>1, AbstractStart DEF Abstract!Next
  <2>2. CASE queue = <<>>
    <3>1. queue' = queue /\ task' = task /\ done' = done /\ Phase' = Phase
      BY <1>6, <2>2 DEF Fetch, Phase, InRun
    <3> QED BY <3>1, Stutters
  <2> QED BY <2>1, <2>2
<1>7. ASSUME NEW w \in Workers, Finish(w) PROVE [Abstract!Next]_(Abstract!vars)
  BY <1>7, AbstractFinish DEF Abstract!Next
<1>8. ASSUME NEW w \in Workers, SpawnNotify(w) \/ NotifyDone(w)
      PROVE  [Abstract!Next]_(Abstract!vars)
  <2>1. Phase' = Phase
    BY <1>8 DEF SpawnNotify, NotifyDone, Phase, InRun
  <2> QED BY <1>8, <2>1, Stutters DEF SpawnNotify, NotifyDone, work
<1>9. CASE UNCHANGED vars
  <2>1. Phase' = Phase
    BY <1>9 DEF vars, Phase, InRun
  <2> QED BY <1>9, <2>1, Stutters DEF vars, work
<1> QED BY <1>1, <1>2, <1>3, <1>4, <1>5, <1>6, <1>7, <1>8, <1>9 DEF Next, Driver, Loop

\* And it begins as the abstract one does.
LEMMA AbstractInit == Init => Abstract!Init
<1> SUFFICES ASSUME Init PROVE Abstract!Init
  OBVIOUS
<1>1. \A k \in Tasks : ~Queued(k) /\ ~Executing(k)
  BY TaskAssumption DEF Init, Queued, Executing
<1>2. Todo = [k \in Tasks |-> 0] /\ Runs = [k \in Tasks |-> 0]
  BY <1>1 DEF Todo, Runs, One
<1>3. Phase = "out" /\ done = [k \in Tasks |-> 0]
  BY DEF Init, Phase, InRun
<1> QED BY <1>2, <1>3 DEF Abstract!Init, Abstract!None, Todo, Runs, Phase

\* Nothing submitted is lost or executed twice, and run() returns only when
\* everything has finished: its hazard is that it may not return.
THEOREM Refinement == Spec => Implements
<1> QED BY AbstractStep, AbstractInit, Invariance, PTL DEF Spec, Implements, Abstract!Spec
=============================================================================
