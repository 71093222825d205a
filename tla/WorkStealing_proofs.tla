------------------------- MODULE WorkStealing_proofs -------------------------
(***************************************************************************)
(* Proofs about WorkStealing, for any tasks and any number of workers: the *)
(* scheduler implements Scheduler, and its workers leave nothing behind,   *)
(* as long as no other thread submits.                                     *)
(***************************************************************************)
EXTENDS WorkStealing, CommonFacts, FiniteSetTheorems, TLAPS

-----------------------------------------------------------------------------
(***************************************************************************)
(* The inductive invariant.                                                *)
(***************************************************************************)

Ptr == Tasks \cup {NULL}

\* The types, without what needs an argument.
Types ==
  /\ driver \in {"out", "wait", "join", "gone"}
  /\ n \in 0..MaxWorkers
  /\ deque \in [Ids -> Seq(Tasks)] /\ inject \in Seq(Tasks)
  /\ pending \in Int /\ shutdown \in BOOLEAN
  /\ pc \in [Ids -> {"none", "pop", "run", "push", "pending?", "shutdown?", "steal", "exit"}]
  /\ task \in [Ids -> Ptr] /\ arg \in [Ids -> Ptr]
  /\ sweep \in [Ids -> [start : Ids, attempt : 0..MaxWorkers]]
  /\ done \in [Tasks -> Nat]
  /\ runs \in 0..MaxRuns

\* The workers 0..n-1 exist, during run() only, and then nothing is injected.
Phases ==
  /\ \A w \in Ids : pc[w] = "none" <=> w >= n
  /\ \A w \in Ids : w >= n => deque[w] = <<>>
  /\ driver \in {"out", "gone"} => n = 0
  /\ driver # "out" => inject = <<>>
  /\ driver = "wait" => ~shutdown

\* A sweep has a colleague to visit.
Sweeps ==
  \A w \in Ids : pc[w] = "steal" =>
    n >= 2 /\ sweep[w].start \in Starts(n, w) /\ sweep[w].attempt <= n - 2

\* What a worker holds while it executes and while it submits.
Hands ==
  \A w \in Ids : /\ task[w] = NULL <=> pc[w] \notin {"run", "push"}
                 /\ arg[w] = NULL <=> pc[w] # "push"

\* A task is in one place, and there once.
Held(k) == \E w \in Ids : arg[w] = k \/ task[w] = k
Unique ==
  /\ \A w \in Ids : Distinct(deque[w])
  /\ Distinct(inject)
  /\ \A k \in Tasks : \A v, w \in Ids : In(deque[v], k) /\ In(deque[w], k) => v = w
  /\ \A k \in Tasks : In(inject, k) => ~InDeques(k)
  /\ \A k \in Tasks : Held(k) => ~In(inject, k) /\ ~InDeques(k)
  /\ \A v, w \in Ids : arg[v] = arg[w] /\ arg[v] # NULL => v = w
  /\ \A v, w \in Ids : task[v] = task[w] /\ task[v] # NULL => v = w
  /\ \A v, w \in Ids : arg[v] # NULL => arg[v] # task[w]

\* The counter counts the unfinished tasks, until the destructor drops them; who
\* has left, or waits for those who leave, has seen that there were none.
Unfinished == {k \in Tasks : Waiting(k) \/ Executing(k)}
Counter ==
  /\ driver # "gone" => pending = Cardinality(Unfinished)
  /\ driver = "gone" => pending >= 0
  /\ driver = "join" => pending = 0
  /\ \A w \in Ids : pc[w] = "exit" => pending = 0

IInv == Types /\ Phases /\ Sweeps /\ Hands /\ Unique /\ Counter

-----------------------------------------------------------------------------
(***************************************************************************)
(* What the operations of a deque do to what is in it.                     *)
(***************************************************************************)

\* push_bottom.
LEMMA AppendIn ==
  ASSUME NEW q \in Seq(Tasks), NEW k \in Tasks
  PROVE  /\ Append(q, k) \in Seq(Tasks)
         /\ \A j \in Tasks : In(Append(q, k), j) <=> In(q, j) \/ j = k
         /\ Distinct(q) /\ ~In(q, k) => Distinct(Append(q, k))
BY AppendOccurs DEF In, Occurs

\* pop_bottom.
LEMMA FrontIn ==
  ASSUME NEW q \in Seq(Tasks), q # <<>>, Distinct(q)
  PROVE  LET k == q[Len(q)]
             r == SubSeq(q, 1, Len(q) - 1)
         IN  /\ k \in Tasks /\ In(q, k)
             /\ r \in Seq(Tasks) /\ Distinct(r)
             /\ \A j \in Tasks : In(r, j) <=> In(q, j) /\ j # k
BY FrontOccurs DEF In, Occurs

\* steal.
LEMMA TailIn ==
  ASSUME NEW q \in Seq(Tasks), q # <<>>, Distinct(q)
  PROVE  /\ Head(q) \in Tasks /\ In(q, Head(q))
         /\ Tail(q) \in Seq(Tasks) /\ Distinct(Tail(q))
         /\ \A j \in Tasks : In(Tail(q), j) <=> In(q, j) /\ j # Head(q)
BY TailOccurs DEF In, Occurs

\* A fresh deque.
LEMMA EmptyIn == <<>> \in Seq(Tasks) /\ Distinct(<<>>) /\ \A j : ~In(<<>>, j)
BY EmptyOccurs DEF In, Occurs

-----------------------------------------------------------------------------
(***************************************************************************)
(* The types, and what the places of the threads say.                      *)
(***************************************************************************)

\* A worker that looks for a victim has a colleague and a start among the workers.
LEMMA SweepStarts ==
  ASSUME IInv, NEW w \in Ids, CheckShutdown(w), ~shutdown, n # 1
  PROVE  /\ n \in Nat /\ n >= 2 /\ w \in 0..n-1
         /\ \E s \in Starts(n, w) :
              s \in Ids /\ sweep' = [sweep EXCEPT ![w] = [start |-> s, attempt |-> 0]]
<1>1. n \in 0..MaxWorkers /\ MaxWorkers \in Nat /\ w \in 0..MaxWorkers-1
  BY WorkerAssumption DEF IInv, Types, Ids
<1>2. n > w
  BY <1>1 DEF IInv, Phases, CheckShutdown
<1>3. n \in Nat /\ n >= 2 /\ w \in 0..n-1
  BY <1>1, <1>2
<1>4. \A s \in Starts(n, w) : s \in 0..n-1
  BY <1>3, StartIsWorker
<1>5. 0..n-1 \subseteq Ids
  BY <1>1 DEF Ids
<1> QED BY <1>3, <1>4, <1>5 DEF CheckShutdown

\* A thief looks at an existing deque that is not its own.
LEMMA TargetOther ==
  ASSUME IInv, NEW w \in Ids, pc[w] = "steal"
  PROVE  Target(w) \in Others(n, w) /\ Target(w) \in Ids /\ Target(w) # w
<1>1. n \in 0..MaxWorkers /\ MaxWorkers \in Nat /\ w \in 0..MaxWorkers-1
  BY WorkerAssumption DEF IInv, Types, Ids
<1>2. n >= 2 /\ n > w /\ sweep[w].start \in Starts(n, w) /\ sweep[w].attempt \in Nat
  BY <1>1 DEF IInv, Sweeps, Phases, Types
<1>3. n \in Nat /\ w \in 0..n-1 /\ sweep[w].start \in Nat
  BY <1>1, <1>2, StartIsWorker
<1>4. Target(w) \in Others(n, w)
  BY <1>2, <1>3, VictimOther DEF Target
<1> QED BY <1>1, <1>4 DEF Others, Ids

\* Steps keep the types.
LEMMA TypesStep == IInv /\ [Next]_vars => Types'
<1> SUFFICES ASSUME IInv, [Next]_vars PROVE Types'
  OBVIOUS
<1>0. Types /\ Unique
  BY DEF IInv
<1>1. ASSUME NEW k \in Tasks, NEW id \in Foreign \cup {NoWorker}, SubmitOutside(id, k)
      PROVE  Types'
  <2>1. /\ \A w \in Ids : Append(deque[w], k) \in Seq(Tasks)
        /\ Append(inject, k) \in Seq(Tasks)
    BY <1>0 DEF Types
  <2>2. deque' \in [Ids -> Seq(Tasks)] /\ inject' \in Seq(Tasks)
    <3>1. CASE id \in 0..n-1
      <4>1. id \in Ids
        BY <1>0, <3>1, WorkerAssumption DEF Types, Ids
      <4>2. deque' = [deque EXCEPT ![id] = Append(deque[id], k)] /\ inject' = inject
        BY <1>1, <3>1 DEF SubmitOutside
      <4> QED BY <1>0, <2>1, <4>1, <4>2 DEF Types
    <3>2. CASE id \notin 0..n-1
      BY <1>0, <1>1, <2>1, <3>2 DEF SubmitOutside, Types
    <3> QED BY <3>1, <3>2
  <2> QED BY <1>0, <1>1, <2>2 DEF SubmitOutside, Types, control
<1>2. ASSUME NEW k \in Tasks, NEW w \in Ids, Spawn(w, k) PROVE Types'
  BY <1>0, <1>2 DEF Spawn, CountedChild, Goto, Types, Ptr, control
<1>3. ASSUME NEW w \in Ids, Push(w) PROVE Types'
  <2>1. arg[w] \in Tasks
    BY <1>0, <1>3 DEF IInv, Hands, Push, Types, Ptr
  <2>2. Append(deque[w], arg[w]) \in Seq(Tasks)
    BY <1>0, <2>1 DEF Types
  <2> QED BY <1>0, <1>3, <2>2 DEF Push, Goto, Types, Ptr, control
<1>4. ASSUME NEW m \in 0..MaxWorkers, RunStart(m) PROVE Types'
  <2>1. deque' \in [Ids -> Seq(Tasks)] /\ inject' \in Seq(Tasks)
    BY <1>0, <1>4, EmptyIn DEF RunStart, InjectCleared, Types
  <2>2. pc' \in [Ids -> {"pop", "none"}] /\ runs' \in 0..MaxRuns
    BY <1>0, <1>4, RunsAssumption DEF RunStart, Types
  <2>3. pc' \in [Ids -> {"none", "pop", "run", "push", "pending?", "shutdown?", "steal", "exit"}]
    BY <2>2
  <2> QED BY <1>0, <1>4, <2>1, <2>2, <2>3 DEF RunStart, Types
<1>5. CASE AllDone
  BY <1>0, <1>5 DEF AllDone, Types
<1>6. CASE Join
  BY <1>0, <1>6, EmptyIn, WorkerAssumption DEF Join, Types
<1>7. CASE Destroy
  BY <1>0, <1>7, EmptyIn DEF Destroy, Types
<1>8. ASSUME NEW w \in Ids, Pop(w) PROVE Types'
  <2>1. deque[w] \in Seq(Tasks) /\ Distinct(deque[w]) /\ deque[w] # <<>>
    BY <1>0, <1>8 DEF Types, Unique, Pop
  <2>2. /\ deque[w][Len(deque[w])] \in Tasks
        /\ SubSeq(deque[w], 1, Len(deque[w]) - 1) \in Seq(Tasks)
    BY <2>1, FrontIn
  <2> QED BY <1>0, <1>8, <2>2 DEF Pop, Goto, Types, Ptr, control
<1>9. ASSUME NEW w \in Ids, PopNothing(w) PROVE Types'
  BY <1>0, <1>9 DEF PopNothing, Goto, Types, control
<1>10. ASSUME NEW w \in Ids, Finish(w) PROVE Types'
  <2>1. task[w] \in Tasks
    BY <1>0, <1>10 DEF IInv, Hands, Finish, Types, Ptr
  <2> QED BY <1>0, <1>10, <2>1 DEF Finish, Goto, Types, Ptr, control
<1>11. ASSUME NEW w \in Ids, CheckPending(w) PROVE Types'
  BY <1>0, <1>11 DEF CheckPending, Goto, Types, control
<1>12. ASSUME NEW w \in Ids, CheckShutdown(w) PROVE Types'
  <2>1. pc' \in [Ids -> {"none", "pop", "run", "push", "pending?", "shutdown?", "steal", "exit"}]
    BY <1>0, <1>12 DEF CheckShutdown, Goto, Types
  <2>2. sweep' \in [Ids -> [start : Ids, attempt : 0..MaxWorkers]]
    <3>1. CASE shutdown \/ n = 1
      BY <1>0, <1>12, <3>1 DEF CheckShutdown, Types
    <3>2. CASE ~(shutdown \/ n = 1)
      <4>1. PICK s \in Ids : sweep' = [sweep EXCEPT ![w] = [start |-> s, attempt |-> 0]]
        BY <1>12, <3>2, SweepStarts
      <4>2. [start |-> s, attempt |-> 0] \in [start : Ids, attempt : 0..MaxWorkers]
        BY WorkerAssumption
      <4> QED BY <1>0, <4>1, <4>2 DEF Types
    <3> QED BY <3>1, <3>2
  <2> QED BY <1>0, <1>12, <2>1, <2>2 DEF CheckShutdown, Types, control
<1>13. ASSUME NEW w \in Ids, Steal(w) PROVE Types'
  <2>0. Target(w) \in Ids
    BY <1>13, TargetOther DEF Steal
  <2> DEFINE q == deque[Target(w)]
  <2>1. q \in Seq(Tasks) /\ Distinct(q) /\ q # <<>>
    BY <1>0, <1>13, <2>0 DEF Types, Unique, Steal
  <2>2. Head(q) \in Tasks /\ Tail(q) \in Seq(Tasks)
    BY <2>1, TailIn
  <2>3. NoSweep \in [start : Ids, attempt : 0..MaxWorkers]
    BY WorkerAssumption DEF NoSweep, Ids
  <2> QED BY <1>0, <1>13, <2>2, <2>3 DEF Steal, Goto, Types, Ptr, control
<1>14. ASSUME NEW w \in Ids, StealNothing(w) PROVE Types'
  <2>1. pc' \in [Ids -> {"none", "pop", "run", "push", "pending?", "shutdown?", "steal", "exit"}]
    BY <1>0, <1>14 DEF StealNothing, Goto, Types
  <2>2. sweep' \in [Ids -> [start : Ids, attempt : 0..MaxWorkers]]
    <3>1. CASE SweepGoesOn(w)
      <4>1. /\ sweep[w] \in [start : Ids, attempt : 0..MaxWorkers]
            /\ sweep[w].attempt + 1 \in 0..MaxWorkers
        BY <1>0, <3>1, WorkerAssumption DEF SweepGoesOn, Types
      <4>2. [sweep[w] EXCEPT !.attempt = @ + 1] \in [start : Ids, attempt : 0..MaxWorkers]
        BY <4>1
      <4>3. sweep' = [sweep EXCEPT ![w] = [sweep[w] EXCEPT !.attempt = @ + 1]]
        BY <1>14, <3>1 DEF StealNothing
      <4> QED BY <1>0, <4>2, <4>3 DEF Types
    <3>2. CASE ~SweepGoesOn(w)
      <4>1. NoSweep \in [start : Ids, attempt : 0..MaxWorkers]
        BY WorkerAssumption DEF NoSweep, Ids
      <4> QED BY <1>0, <1>14, <3>2, <4>1 DEF StealNothing, Types
    <3> QED BY <3>1, <3>2
  <2> QED BY <1>0, <1>14, <2>1, <2>2 DEF StealNothing, Types, control
<1>15. CASE UNCHANGED vars
  BY <1>0, <1>15 DEF vars, Types, control
<1> QED BY <1>1, <1>2, <1>3, <1>4, <1>5, <1>6, <1>7, <1>8, <1>9, <1>10, <1>11, <1>12,
           <1>13, <1>14, <1>15 DEF Next, Loop

\* Who submits from outside is the driver, between two runs.
LEMMA DriverSubmits ==
  ASSUME Foreign = {}, IInv, NEW k \in Tasks, NEW id \in Foreign \cup {NoWorker},
         SubmitOutside(id, k)
  PROVE  driver = "out" /\ deque' = deque /\ inject' = Append(inject, k)
<1>1. id \notin 0..n-1
  BY ForeignAssumption DEF IInv, Types
<1> QED BY <1>1 DEF SubmitOutside

\* Steps keep what is said of the workers' existence.
LEMMA PhasesStep == Foreign = {} /\ IInv /\ [Next]_vars => Phases'
<1> SUFFICES ASSUME Foreign = {}, IInv, [Next]_vars PROVE Phases'
  OBVIOUS
<1>0. Types /\ Phases /\ Hands /\ Sweeps /\ Counter
  BY DEF IInv
<1>a. n \in Nat /\ Ids = 0..MaxWorkers-1 /\ MaxWorkers \in Nat
  BY <1>0, WorkerAssumption DEF Types, Ids
<1>1. ASSUME NEW k \in Tasks, NEW id \in Foreign \cup {NoWorker}, SubmitOutside(id, k)
      PROVE  Phases'
  BY <1>0, <1>1, DriverSubmits DEF SubmitOutside, Phases, control
<1>2. ASSUME NEW k \in Tasks, NEW w \in Ids, Spawn(w, k) PROVE Phases'
  BY <1>0, <1>2 DEF Spawn, Goto, Types, Phases, control
<1>3. ASSUME NEW w \in Ids, Push(w) PROVE Phases'
  BY <1>0, <1>3 DEF Push, Goto, Types, Phases, control
<1>4. ASSUME NEW m \in 0..MaxWorkers, RunStart(m) PROVE Phases'
  BY <1>0, <1>a, <1>4 DEF RunStart, InjectCleared, Phases
<1>5. CASE AllDone
  BY <1>0, <1>5 DEF AllDone, Phases
<1>6. CASE Join
  BY <1>0, <1>a, <1>6 DEF Join, Phases
<1>7. CASE Destroy
  BY <1>0, <1>7 DEF Destroy, Phases
<1>8. ASSUME NEW w \in Ids, Pop(w) PROVE Phases'
  BY <1>0, <1>8 DEF Pop, Goto, Types, Phases, control
<1>9. ASSUME NEW w \in Ids, PopNothing(w) PROVE Phases'
  BY <1>0, <1>9 DEF PopNothing, Goto, Types, Phases, control
<1>10. ASSUME NEW w \in Ids, Finish(w) PROVE Phases'
  <2>1. pc'[w] # "none" /\ \A v \in Ids : v # w => pc'[v] = pc[v]
    BY <1>0, <1>10 DEF Finish, Goto, Types
  <2> QED BY <1>0, <1>10, <2>1 DEF Finish, Phases, control
<1>11. ASSUME NEW w \in Ids, CheckPending(w) PROVE Phases'
  <2>1. pc'[w] # "none" /\ \A v \in Ids : v # w => pc'[v] = pc[v]
    BY <1>0, <1>11 DEF CheckPending, Goto, Types
  <2> QED BY <1>0, <1>11, <2>1 DEF CheckPending, Phases, control
<1>12. ASSUME NEW w \in Ids, CheckShutdown(w) PROVE Phases'
  <2>1. pc'[w] # "none" /\ \A v \in Ids : v # w => pc'[v] = pc[v]
    BY <1>0, <1>12 DEF CheckShutdown, Goto, Types
  <2> QED BY <1>0, <1>12, <2>1 DEF CheckShutdown, Phases, control
<1>13. ASSUME NEW w \in Ids, Steal(w) PROVE Phases'
  <2>1. pc'[w] # "none" /\ \A v \in Ids : v # w => pc'[v] = pc[v]
    BY <1>0, <1>13 DEF Steal, Goto, Types
  <2>2. Target(w) \in Ids
    BY <1>13, TargetOther DEF Steal
  <2>3. \A v \in Ids : deque[v] = <<>> => deque'[v] = <<>>
    BY <1>0, <1>13, <2>2 DEF Steal, Types
  <2> QED BY <1>0, <1>13, <2>1, <2>3 DEF Steal, Phases, control
<1>14. ASSUME NEW w \in Ids, StealNothing(w) PROVE Phases'
  <2>1. pc'[w] # "none" /\ \A v \in Ids : v # w => pc'[v] = pc[v]
    BY <1>0, <1>14 DEF StealNothing, Goto, Types
  <2> QED BY <1>0, <1>14, <2>1 DEF StealNothing, Phases, control
<1>15. CASE UNCHANGED vars
  BY <1>0, <1>15 DEF vars, Phases, control
<1> QED BY <1>1, <1>2, <1>3, <1>4, <1>5, <1>6, <1>7, <1>8, <1>9, <1>10, <1>11, <1>12,
           <1>13, <1>14, <1>15 DEF Next, Loop

\* Steps keep sweeps within the number of workers.
LEMMA SweepsStep == Foreign = {} /\ IInv /\ [Next]_vars => Sweeps'
<1> SUFFICES ASSUME Foreign = {}, IInv, [Next]_vars PROVE Sweeps'
  OBVIOUS
<1>0. Types /\ Sweeps
  BY DEF IInv
<1>a. ASSUME NEW w \in Ids, n' = n, UNCHANGED sweep, pc'[w] # "steal",
             \A v \in Ids : v # w => pc'[v] = pc[v]
      PROVE  Sweeps'
  BY <1>0, <1>a DEF Sweeps
<1>1. ASSUME NEW k \in Tasks, NEW id \in Foreign \cup {NoWorker}, SubmitOutside(id, k)
      PROVE  Sweeps'
  BY <1>0, <1>1 DEF SubmitOutside, Sweeps, control
<1>2. ASSUME NEW k \in Tasks, NEW w \in Ids, Spawn(w, k) PROVE Sweeps'
  BY <1>0, <1>2, <1>a DEF Spawn, Goto, Types, control
<1>3. ASSUME NEW w \in Ids, Push(w) PROVE Sweeps'
  BY <1>0, <1>3, <1>a DEF Push, Goto, Types, control
<1>4. ASSUME NEW m \in 0..MaxWorkers, RunStart(m) PROVE Sweeps'
  BY <1>4 DEF RunStart, Sweeps
<1>5. CASE AllDone
  BY <1>0, <1>5 DEF AllDone, Sweeps
<1>6. CASE Join
  BY <1>6 DEF Join, Sweeps
<1>7. CASE Destroy
  BY <1>0, <1>7 DEF Destroy, Sweeps
<1>8. ASSUME NEW w \in Ids, Pop(w) PROVE Sweeps'
  BY <1>0, <1>8, <1>a DEF Pop, Goto, Types, control
<1>9. ASSUME NEW w \in Ids, PopNothing(w) PROVE Sweeps'
  BY <1>0, <1>9, <1>a DEF PopNothing, Goto, Types, control
<1>10. ASSUME NEW w \in Ids, Finish(w) PROVE Sweeps'
  BY <1>0, <1>10, <1>a DEF Finish, Goto, Types, control
<1>11. ASSUME NEW w \in Ids, CheckPending(w) PROVE Sweeps'
  BY <1>0, <1>11, <1>a DEF CheckPending, Goto, Types, control
<1>12. ASSUME NEW w \in Ids, CheckShutdown(w) PROVE Sweeps'
  <2>1. CASE shutdown \/ n = 1
    BY <1>0, <1>12, <2>1, <1>a DEF CheckShutdown, Goto, Types, control
  <2>2. CASE ~(shutdown \/ n = 1)
    <3>1. PICK s \in Starts(n, w) :
            sweep' = [sweep EXCEPT ![w] = [start |-> s, attempt |-> 0]]
      BY <1>12, <2>2, SweepStarts
    <3>2. /\ sweep'[w].start = s /\ sweep'[w].attempt = 0
          /\ \A v \in Ids : v # w => sweep'[v] = sweep[v] /\ pc'[v] = pc[v]
      BY <1>0, <1>12, <2>2, <3>1 DEF CheckShutdown, Goto, Types
    <3>3. n \in Nat /\ n >= 2 /\ n' = n
      BY <1>12, <2>2, SweepStarts DEF CheckShutdown, control
    <3> QED BY <1>0, <3>1, <3>2, <3>3 DEF Sweeps
  <2> QED BY <2>1, <2>2
<1>13. ASSUME NEW w \in Ids, Steal(w) PROVE Sweeps'
  <2>1. /\ pc'[w] # "steal" /\ n' = n
        /\ \A v \in Ids : v # w => sweep'[v] = sweep[v] /\ pc'[v] = pc[v]
    BY <1>0, <1>13 DEF Steal, Goto, Types, control
  <2> QED BY <1>0, <2>1 DEF Sweeps
<1>14. ASSUME NEW w \in Ids, StealNothing(w) PROVE Sweeps'
  <2>0. n' = n /\ n \in Nat
    BY <1>0, <1>14 DEF StealNothing, control, Types
  <2>1. CASE SweepGoesOn(w)
    <3>1. sweep' = [sweep EXCEPT ![w] = [sweep[w] EXCEPT !.attempt = @ + 1]] /\ pc' = pc
      BY <1>14, <2>1 DEF StealNothing
    <3>2. sweep[w] \in [start : Ids, attempt : 0..MaxWorkers] /\ sweep[w].attempt \in Nat
      BY <1>0 DEF Types
    <3>3. /\ sweep'[w].start = sweep[w].start /\ sweep'[w].attempt = sweep[w].attempt + 1
          /\ \A v \in Ids : v # w => sweep'[v] = sweep[v]
      BY <1>0, <3>1, <3>2 DEF Types
    <3>4. sweep[w].attempt + 1 <= n - 2
      BY <2>0, <2>1, <3>2 DEF SweepGoesOn
    <3> QED BY <1>0, <2>0, <3>1, <3>3, <3>4 DEF Sweeps
  <2>2. CASE ~SweepGoesOn(w)
    <3>1. /\ pc'[w] # "steal"
          /\ \A v \in Ids : v # w => sweep'[v] = sweep[v] /\ pc'[v] = pc[v]
      BY <1>0, <1>14, <2>2 DEF StealNothing, Goto, Types
    <3> QED BY <1>0, <2>0, <3>1 DEF Sweeps
  <2> QED BY <2>1, <2>2
<1>15. CASE UNCHANGED vars
  BY <1>0, <1>15 DEF vars, Sweeps, control
<1> QED BY <1>1, <1>2, <1>3, <1>4, <1>5, <1>6, <1>7, <1>8, <1>9, <1>10, <1>11, <1>12,
           <1>13, <1>14, <1>15 DEF Next, Loop

\* Steps keep what is said of the workers' hands.
LEMMA HandsStep == Foreign = {} /\ IInv /\ [Next]_vars => Hands'
<1> SUFFICES ASSUME Foreign = {}, IInv, [Next]_vars PROVE Hands'
  OBVIOUS
<1>0. Types /\ Phases /\ Hands /\ Unique
  BY DEF IInv
<1>a. ASSUME NEW w \in Ids, task' = task, arg' = arg,
             pc[w] \notin {"run", "push"}, pc'[w] \notin {"run", "push"},
             \A v \in Ids : v # w => pc'[v] = pc[v]
      PROVE  Hands'
  BY <1>0, <1>a DEF Hands
<1>1. ASSUME NEW k \in Tasks, NEW id \in Foreign \cup {NoWorker}, SubmitOutside(id, k)
      PROVE  Hands'
  BY <1>0, <1>1 DEF SubmitOutside, Hands, control
<1>2. ASSUME NEW k \in Tasks, NEW w \in Ids, Spawn(w, k) PROVE Hands'
  <2>1. /\ arg'[w] = k /\ pc'[w] = "push" /\ task' = task
        /\ \A v \in Ids : v # w => arg'[v] = arg[v] /\ pc'[v] = pc[v]
    BY <1>0, <1>2 DEF Spawn, Goto, Types
  <2> QED BY <1>0, <1>2, <2>1, TaskAssumption DEF Spawn, Hands
<1>3. ASSUME NEW w \in Ids, Push(w) PROVE Hands'
  <2>1. /\ arg'[w] = NULL /\ pc'[w] = "run" /\ task' = task
        /\ \A v \in Ids : v # w => arg'[v] = arg[v] /\ pc'[v] = pc[v]
    BY <1>0, <1>3 DEF Push, Goto, Types
  <2> QED BY <1>0, <1>3, <2>1 DEF Push, Hands
<1>4. ASSUME NEW m \in 0..MaxWorkers, RunStart(m) PROVE Hands'
  <2>1. \A w \in Ids : pc[w] = "none"
    BY <1>0, <1>4 DEF RunStart, Phases, Ids
  <2> QED BY <1>0, <1>4, <2>1 DEF RunStart, Hands
<1>5. CASE AllDone
  BY <1>0, <1>5 DEF AllDone, Hands
<1>6. CASE Join
  <2>1. \A w \in Ids : pc[w] \in {"none", "exit"}
    BY <1>0, <1>6 DEF Join, Phases, Ids, Types
  <2> QED BY <1>0, <1>6, <2>1 DEF Join, Hands
<1>7. CASE Destroy
  BY <1>0, <1>7 DEF Destroy, Hands
<1>8. ASSUME NEW w \in Ids, Pop(w) PROVE Hands'
  <2>1. deque[w] \in Seq(Tasks) /\ Distinct(deque[w]) /\ deque[w] # <<>>
    BY <1>0, <1>8 DEF Types, Unique, Pop
  <2>2. deque[w][Len(deque[w])] \in Tasks
    BY <2>1, FrontIn
  <2>3. /\ task'[w] \in Tasks /\ pc'[w] = "run" /\ arg' = arg
        /\ \A v \in Ids : v # w => task'[v] = task[v] /\ pc'[v] = pc[v]
    BY <1>0, <1>8, <2>2 DEF Pop, Goto, Types
  <2> QED BY <1>0, <1>8, <2>3, TaskAssumption DEF Pop, Hands
<1>9. ASSUME NEW w \in Ids, PopNothing(w) PROVE Hands'
  BY <1>0, <1>9, <1>a DEF PopNothing, Goto, Types
<1>10. ASSUME NEW w \in Ids, Finish(w) PROVE Hands'
  <2>1. /\ task'[w] = NULL /\ pc'[w] \in {"exit", "pop"} /\ arg' = arg
        /\ \A v \in Ids : v # w => task'[v] = task[v] /\ pc'[v] = pc[v]
    BY <1>0, <1>10 DEF Finish, Goto, Types
  <2> QED BY <1>0, <1>10, <2>1 DEF Finish, Hands
<1>11. ASSUME NEW w \in Ids, CheckPending(w) PROVE Hands'
  BY <1>0, <1>11, <1>a DEF CheckPending, Goto, Types
<1>12. ASSUME NEW w \in Ids, CheckShutdown(w) PROVE Hands'
  BY <1>0, <1>12, <1>a DEF CheckShutdown, Goto, Types
<1>13. ASSUME NEW w \in Ids, Steal(w) PROVE Hands'
  <2>1. Target(w) \in Ids
    BY <1>13, TargetOther DEF Steal
  <2>2. Head(deque[Target(w)]) \in Tasks
    BY <1>0, <1>13, <2>1, TailIn DEF Types, Unique, Steal
  <2>3. /\ task'[w] \in Tasks /\ pc'[w] = "run" /\ arg' = arg
        /\ \A v \in Ids : v # w => task'[v] = task[v] /\ pc'[v] = pc[v]
    BY <1>0, <1>13, <2>2 DEF Steal, Goto, Types
  <2> QED BY <1>0, <1>13, <2>3, TaskAssumption DEF Steal, Hands
<1>14. ASSUME NEW w \in Ids, StealNothing(w) PROVE Hands'
  BY <1>0, <1>14, <1>a DEF StealNothing, Goto, Types
<1>15. CASE UNCHANGED vars
  BY <1>0, <1>15 DEF vars, Hands
<1> QED BY <1>1, <1>2, <1>3, <1>4, <1>5, <1>6, <1>7, <1>8, <1>9, <1>10, <1>11, <1>12,
           <1>13, <1>14, <1>15 DEF Next, Loop

-----------------------------------------------------------------------------
(***************************************************************************)
(* A task is in one place.                                                 *)
(***************************************************************************)

\* What pop_bottom and steal have in common: a task leaves a deque for a worker.
Takes(w, v, r, k) ==
  /\ In(deque[v], k) /\ Distinct(r)
  /\ \A j \in Tasks : In(r, j) <=> In(deque[v], j) /\ j # k
  /\ deque' = [deque EXCEPT ![v] = r]
  /\ task[w] = NULL /\ task' = [task EXCEPT ![w] = k]
  /\ UNCHANGED <<inject, arg, pending, done, driver>>

LEMMA PopOrStealTakes ==
  ASSUME IInv, NEW w \in Ids, Pop(w) \/ Steal(w)
  PROVE  \E v \in Ids, r \in Seq(Tasks), k \in Tasks : Takes(w, v, r, k)
<1>0. Types /\ Unique /\ task[w] = NULL
  BY DEF IInv, Hands, Pop, Steal
<1>1. CASE Pop(w)
  <2> DEFINE q == deque[w]
  <2>1. q \in Seq(Tasks) /\ Distinct(q) /\ q # <<>>
    BY <1>0, <1>1 DEF Types, Unique, Pop
  <2>2. Takes(w, w, SubSeq(q, 1, Len(q) - 1), q[Len(q)])
    BY <1>0, <1>1, <2>1, FrontIn DEF Takes, Pop, control
  <2>3. SubSeq(q, 1, Len(q) - 1) \in Seq(Tasks) /\ q[Len(q)] \in Tasks
    BY <2>1, FrontIn
  <2> QED BY <2>2, <2>3
<1>2. CASE Steal(w)
  <2>0. Target(w) \in Ids
    BY <1>2, TargetOther DEF Steal
  <2> DEFINE q == deque[Target(w)]
  <2>1. q \in Seq(Tasks) /\ Distinct(q) /\ q # <<>>
    BY <1>0, <1>2, <2>0 DEF Types, Unique, Steal
  <2>2. Takes(w, Target(w), Tail(q), Head(q))
    BY <1>0, <1>2, <2>1, TailIn DEF Takes, Steal, control
  <2>3. Tail(q) \in Seq(Tasks) /\ Head(q) \in Tasks
    BY <2>1, TailIn
  <2> QED BY <2>0, <2>2, <2>3
<1> QED BY <1>1, <1>2

\* A task never gets to a second place.
LEMMA UniqueStep == Foreign = {} /\ IInv /\ [Next]_vars => Unique'
<1> SUFFICES ASSUME Foreign = {}, IInv, [Next]_vars PROVE Unique'
  OBVIOUS
<1>0. Types /\ Phases /\ Hands /\ Unique
  BY DEF IInv
<1>a. ASSUME UNCHANGED <<deque, inject, task, arg>> PROVE Unique'
  BY <1>0, <1>a DEF Unique, Held, InDeques
<1>b. \A w \in Ids : deque[w] \in Seq(Tasks)
  BY <1>0 DEF Types
<1>1. ASSUME NEW k \in Tasks, NEW id \in Foreign \cup {NoWorker}, SubmitOutside(id, k)
      PROVE  Unique'
  <2>1. /\ \A w \in Ids : ~In(deque[w], k) /\ arg[w] # k /\ task[w] # k
        /\ ~In(inject, k)
    BY <1>1 DEF SubmitOutside, Fresh, Waiting, InDeques, Executing
  <2>2. deque' = deque /\ task' = task /\ arg' = arg /\ inject' = Append(inject, k)
    BY <1>1, DriverSubmits DEF SubmitOutside
  <2>3. Distinct(inject') /\ \A j \in Tasks : In(inject', j) <=> In(inject, j) \/ j = k
    BY <1>0, <2>1, <2>2, AppendIn DEF Types, Unique
  <2> QED BY <1>0, <2>1, <2>2, <2>3 DEF Unique, Held, InDeques
<1>2. ASSUME NEW k \in Tasks, NEW w \in Ids, Spawn(w, k) PROVE Unique'
  <2>1. /\ \A v \in Ids : ~In(deque[v], k) /\ arg[v] # k /\ task[v] # k
        /\ ~In(inject, k)
    BY <1>2 DEF Spawn, Fresh, Waiting, InDeques, Executing
  <2>2. /\ deque' = deque /\ task' = task /\ inject' = inject
        /\ arg'[w] = k /\ \A v \in Ids : v # w => arg'[v] = arg[v]
    BY <1>0, <1>2 DEF Spawn, Types
  <2> QED BY <1>0, <2>1, <2>2 DEF Unique, Held, InDeques
<1>3. ASSUME NEW w \in Ids, Push(w) PROVE Unique'
  <2>1. arg[w] \in Tasks
    BY <1>0, <1>3 DEF Hands, Push, Types, Ptr
  <2>2. /\ \A v \in Ids : ~In(deque[v], arg[w]) /\ task[v] # arg[w]
        /\ \A v \in Ids : v # w => arg[v] # arg[w]
        /\ ~In(inject, arg[w])
    BY <1>0, <2>1, TaskAssumption DEF Unique, Held, InDeques
  <2>3. /\ task' = task /\ inject' = inject
        /\ arg'[w] = NULL /\ \A v \in Ids : v # w => arg'[v] = arg[v]
        /\ deque'[w] = Append(deque[w], arg[w])
        /\ \A v \in Ids : v # w => deque'[v] = deque[v]
    BY <1>0, <1>3 DEF Push, Types
  <2>4. /\ Distinct(deque'[w])
        /\ \A j \in Tasks : In(deque'[w], j) <=> In(deque[w], j) \/ j = arg[w]
    BY <1>0, <1>b, <2>1, <2>2, <2>3, AppendIn DEF Unique
  <2>5. \A j \in Tasks : Held(j)' => Held(j) /\ j # arg[w]
    BY <2>1, <2>2, <2>3, TaskAssumption DEF Held
  <2>6. \A j \in Tasks : InDeques(j)' => InDeques(j) \/ j = arg[w]
    BY <2>3, <2>4 DEF InDeques
  <2>7. /\ \A v \in Ids : Distinct(deque'[v])
        /\ \A j \in Tasks : \A u, v \in Ids : In(deque'[u], j) /\ In(deque'[v], j) => u = v
    <3>1. \A v \in Ids : Distinct(deque'[v])
      BY <1>0, <2>3, <2>4 DEF Unique
    <3>2. \A u \in Ids, j \in Tasks : In(deque'[u], j) =>
            \/ In(deque[u], j)
            \/ u = w /\ j = arg[w]
      BY <2>3, <2>4
    <3>3. ASSUME NEW j \in Tasks, NEW u \in Ids, NEW v \in Ids,
                 In(deque'[u], j), In(deque'[v], j)
          PROVE  u = v
      BY <1>0, <2>2, <3>2, <3>3 DEF Unique
    <3> QED BY <3>1, <3>3
  <2>8. /\ \A j \in Tasks : In(inject', j) => ~InDeques(j)'
        /\ \A j \in Tasks : Held(j)' => ~In(inject', j) /\ ~InDeques(j)'
    <3>1. inject' = inject /\ ~In(inject, arg[w])
      BY <2>2, <2>3
    <3>2. \A j \in Tasks : In(inject', j) => ~InDeques(j)'
      BY <1>0, <2>6, <3>1 DEF Unique
    <3>3. \A j \in Tasks : Held(j)' => ~In(inject', j) /\ ~InDeques(j)'
      BY <1>0, <2>5, <2>6, <3>1 DEF Unique
    <3> QED BY <3>2, <3>3
  <2> QED BY <1>0, <2>3, <2>7, <2>8 DEF Unique
<1>4. ASSUME NEW m \in 0..MaxWorkers, RunStart(m) PROVE Unique'
  <2>1. /\ \A w \in Ids : deque'[w] = IF w = 0 THEN inject ELSE <<>>
        /\ inject' = <<>> /\ task' = task /\ arg' = arg
    BY <1>4 DEF RunStart, InjectCleared
  <2>2. \A j \in Tasks : InDeques(j)' => In(inject, j)
    BY <2>1, EmptyIn DEF InDeques
  <2>3. \A w \in Ids : Distinct(deque'[w])
    BY <1>0, <2>1, EmptyIn DEF Unique
  <2> QED BY <1>0, <2>1, <2>2, <2>3, EmptyIn DEF Unique, Held
<1>5. CASE AllDone
  BY <1>a, <1>5 DEF AllDone
<1>6. CASE Join
  <2>1. deque' = [w \in Ids |-> <<>>] /\ inject' = inject /\ task' = task /\ arg' = arg
    BY <1>6 DEF Join
  <2> QED BY <1>0, <2>1, EmptyIn DEF Unique, Held, InDeques
<1>7. CASE Destroy
  <2>1. deque' = deque /\ inject' = <<>> /\ task' = task /\ arg' = arg
    BY <1>7 DEF Destroy
  <2> QED BY <1>0, <2>1, EmptyIn DEF Unique, Held, InDeques
<1>8. ASSUME NEW w \in Ids, Pop(w) \/ Steal(w) PROVE Unique'
  <2>1. PICK v \in Ids, r \in Seq(Tasks), k \in Tasks : Takes(w, v, r, k)
    BY <1>8, PopOrStealTakes
  <2>2. /\ In(deque[v], k) /\ Distinct(r) /\ inject' = inject /\ arg' = arg
        /\ \A j \in Tasks : In(r, j) <=> In(deque[v], j) /\ j # k
        /\ deque'[v] = r /\ \A u \in Ids : u # v => deque'[u] = deque[u]
        /\ task'[w] = k /\ \A u \in Ids : u # w => task'[u] = task[u]
    BY <1>0, <2>1 DEF Takes, Types
  <2>3. /\ ~In(inject, k) /\ \A u \in Ids : arg[u] # k /\ task[u] # k
        /\ \A u \in Ids : u # v => ~In(deque[u], k)
    BY <1>0, <2>2 DEF Unique, Held, InDeques
  <2>4. /\ \A j \in Tasks : InDeques(j)' => InDeques(j) /\ j # k
        /\ \A j \in Tasks : Held(j)' => Held(j) \/ j = k
    BY <2>2, <2>3 DEF InDeques, Held
  <2>5. /\ \A u \in Ids : Distinct(deque'[u])
        /\ \A j \in Tasks : \A t, u \in Ids : In(deque'[t], j) /\ In(deque'[u], j) => t = u
    BY <1>0, <2>2 DEF Unique
  <2>6. /\ \A j \in Tasks : In(inject', j) => ~InDeques(j)'
        /\ \A j \in Tasks : Held(j)' => ~In(inject', j) /\ ~InDeques(j)'
    BY <1>0, <2>2, <2>3, <2>4 DEF Unique
  <2>7. /\ \A t, u \in Ids : task'[t] = task'[u] /\ task'[t] # NULL => t = u
        /\ \A t, u \in Ids : arg'[t] # NULL => arg'[t] # task'[u]
    BY <1>0, <2>2, <2>3 DEF Unique
  <2> QED BY <1>0, <2>2, <2>5, <2>6, <2>7 DEF Unique
<1>9. ASSUME NEW w \in Ids, PopNothing(w) PROVE Unique'
  BY <1>a, <1>9 DEF PopNothing
<1>10. ASSUME NEW w \in Ids, Finish(w) PROVE Unique'
  <2>1. /\ task'[w] = NULL /\ \A v \in Ids : v # w => task'[v] = task[v]
        /\ deque' = deque /\ inject' = inject /\ arg' = arg
    BY <1>0, <1>10 DEF Finish, Types
  <2> QED BY <1>0, <2>1, TaskAssumption DEF Unique, Held, InDeques
<1>11. ASSUME NEW w \in Ids, CheckPending(w) PROVE Unique'
  BY <1>a, <1>11 DEF CheckPending
<1>12. ASSUME NEW w \in Ids, CheckShutdown(w) PROVE Unique'
  BY <1>a, <1>12 DEF CheckShutdown
<1>13. ASSUME NEW w \in Ids, StealNothing(w) PROVE Unique'
  BY <1>a, <1>13 DEF StealNothing
<1>14. CASE UNCHANGED vars
  BY <1>a, <1>14 DEF vars
<1> QED BY <1>1, <1>2, <1>3, <1>4, <1>5, <1>6, <1>7, <1>8, <1>9, <1>10, <1>11, <1>12,
           <1>13, <1>14 DEF Next, Loop

-----------------------------------------------------------------------------
(***************************************************************************)
(* Where a task is, before and after a step.                               *)
(***************************************************************************)

\* What submit does to tasks, called by the driver or by a task.
LEMMA SubmitMoves ==
  ASSUME Foreign = {}, IInv, NEW k \in Tasks,
         \/ \E id \in Foreign \cup {NoWorker} : SubmitOutside(id, k)
         \/ \E w \in Ids : Spawn(w, k)
  PROVE  /\ ~Waiting(k) /\ ~Executing(k)
         /\ \A j \in Tasks : Waiting(j)' <=> Waiting(j) \/ j = k
         /\ \A j \in Tasks : Executing(j)' <=> Executing(j)
<1>0. Types /\ Hands
  BY DEF IInv
<1>1. ASSUME NEW id \in Foreign \cup {NoWorker}, SubmitOutside(id, k)
      PROVE  \A j \in Tasks : Waiting(j)' <=> Waiting(j) \/ j = k
  <2>1. deque' = deque /\ arg' = arg /\ inject' = Append(inject, k)
    BY <1>1, DriverSubmits DEF SubmitOutside
  <2>2. \A j \in Tasks : In(inject', j) <=> In(inject, j) \/ j = k
    BY <1>0, <2>1, AppendIn DEF Types
  <2> QED BY <2>1, <2>2 DEF Waiting, InDeques
<1>2. ASSUME NEW w \in Ids, Spawn(w, k)
      PROVE  \A j \in Tasks : Waiting(j)' <=> Waiting(j) \/ j = k
  <2>1. /\ deque' = deque /\ inject' = inject /\ arg[w] = NULL /\ arg'[w] = k
        /\ \A v \in Ids : v # w => arg'[v] = arg[v]
    BY <1>0, <1>2 DEF Spawn, Types, Hands
  <2> QED BY <2>1, TaskAssumption DEF Waiting, InDeques
<1>3. /\ task' = task /\ Fresh(k)
      /\ \A j \in Tasks : Waiting(j)' <=> Waiting(j) \/ j = k
  BY <1>1, <1>2 DEF SubmitOutside, Spawn
<1> QED BY <1>3 DEF Fresh, Executing

\* push_bottom leaves the task waiting.
LEMMA PushMoves ==
  ASSUME IInv, NEW w \in Ids, Push(w)
  PROVE  /\ \A j \in Tasks : Waiting(j)' <=> Waiting(j)
         /\ \A j \in Tasks : Executing(j)' <=> Executing(j)
<1>0. Types /\ Hands
  BY DEF IInv
<1>1. arg[w] \in Tasks /\ deque[w] \in Seq(Tasks)
  BY <1>0 DEF Hands, Push, Types, Ptr
<1>2. /\ inject' = inject /\ arg'[w] = NULL
      /\ \A v \in Ids : v # w => arg'[v] = arg[v] /\ deque'[v] = deque[v]
      /\ deque'[w] = Append(deque[w], arg[w])
  BY <1>0 DEF Push, Types
<1>3. \A j \in Tasks : In(deque'[w], j) <=> In(deque[w], j) \/ j = arg[w]
  BY <1>1, <1>2, AppendIn
<1>4. ASSUME NEW j \in Tasks PROVE Waiting(j)' <=> Waiting(j)
  BY <1>1, <1>2, <1>3, TaskAssumption DEF Waiting, InDeques
<1> QED BY <1>4 DEF Push, Executing

\* pop_bottom and steal start a task.
LEMMA TakeMoves ==
  ASSUME IInv, NEW w \in Ids, Pop(w) \/ Steal(w)
  PROVE  \E k \in Tasks :
           /\ Waiting(k) /\ ~Executing(k)
           /\ \A j \in Tasks : Waiting(j)' <=> Waiting(j) /\ j # k
           /\ \A j \in Tasks : Executing(j)' <=> Executing(j) \/ j = k
<1>0. Types /\ Unique
  BY DEF IInv
<1>1. PICK v \in Ids, r \in Seq(Tasks), k \in Tasks : Takes(w, v, r, k)
  BY PopOrStealTakes
<1>2. /\ In(deque[v], k) /\ inject' = inject /\ arg' = arg
      /\ \A j \in Tasks : In(r, j) <=> In(deque[v], j) /\ j # k
      /\ deque'[v] = r /\ \A u \in Ids : u # v => deque'[u] = deque[u]
      /\ task[w] = NULL /\ task'[w] = k /\ \A u \in Ids : u # w => task'[u] = task[u]
  BY <1>0, <1>1 DEF Takes, Types
<1>3. /\ ~In(inject, k) /\ \A u \in Ids : arg[u] # k /\ task[u] # k
      /\ \A u \in Ids : u # v => ~In(deque[u], k)
  BY <1>0, <1>2 DEF Unique, Held, InDeques
<1>4. Waiting(k) /\ ~Executing(k)
  BY <1>2, <1>3 DEF Waiting, InDeques, Executing
<1>5. ASSUME NEW j \in Tasks PROVE Waiting(j)' <=> Waiting(j) /\ j # k
  BY <1>2, <1>3 DEF Waiting, InDeques
<1>6. ASSUME NEW j \in Tasks PROVE Executing(j)' <=> Executing(j) \/ j = k
  BY <1>2, TaskAssumption DEF Executing
<1> QED BY <1>4, <1>5, <1>6

\* When a task returns it is neither waiting nor executing.
LEMMA FinishMoves ==
  ASSUME IInv, NEW w \in Ids, Finish(w)
  PROVE  /\ task[w] \in Tasks /\ Executing(task[w]) /\ ~Waiting(task[w])
         /\ \A j \in Tasks : Waiting(j)' <=> Waiting(j)
         /\ \A j \in Tasks : Executing(j)' <=> Executing(j) /\ j # task[w]
<1>0. Types /\ Hands /\ Unique
  BY DEF IInv
<1>1. task[w] \in Tasks /\ Executing(task[w])
  BY <1>0 DEF Finish, Hands, Types, Ptr, Executing
<1>2. ~Waiting(task[w]) /\ \A u \in Ids : u # w => task[u] # task[w]
  BY <1>0, <1>1, TaskAssumption DEF Unique, Held, Waiting, InDeques
<1>3. /\ task'[w] = NULL /\ \A u \in Ids : u # w => task'[u] = task[u]
      /\ deque' = deque /\ inject' = inject /\ arg' = arg
  BY <1>0 DEF Finish, Types
<1>4. ASSUME NEW j \in Tasks PROVE Executing(j)' <=> Executing(j) /\ j # task[w]
  BY <1>2, <1>3, TaskAssumption DEF Executing
<1> QED BY <1>1, <1>2, <1>3, <1>4 DEF Waiting, InDeques

\* run() moves what was injected to the deque of worker 0.
LEMMA RunMoves ==
  ASSUME IInv, NEW m \in 0..MaxWorkers, RunStart(m)
  PROVE  /\ \A j \in Tasks : Waiting(j)' <=> Waiting(j)
         /\ \A j \in Tasks : Executing(j)' <=> Executing(j)
<1>0. Types /\ Phases /\ n = 0 /\ 0 \in Ids
  BY WorkerAssumption DEF IInv, Phases, RunStart, Ids
<1>1. \A w \in Ids : deque[w] = <<>> /\ deque'[w] = IF w = 0 THEN inject ELSE <<>>
  BY <1>0 DEF Phases, RunStart, Ids
<1>2. inject' = <<>> /\ arg' = arg /\ task' = task
  BY DEF RunStart, InjectCleared
<1>3. ASSUME NEW j \in Tasks PROVE Waiting(j)' <=> Waiting(j)
  BY <1>0, <1>1, <1>2, EmptyIn DEF Waiting, InDeques
<1> QED BY <1>2, <1>3 DEF Executing

\* When run() returns there was nothing left to free.
LEMMA JoinMoves ==
  ASSUME IInv, Join
  PROVE  /\ \A j \in Tasks : ~Waiting(j) /\ ~Waiting(j)'
         /\ \A j \in Tasks : ~Executing(j) /\ ~Executing(j)'
<1>1. Cardinality(Unfinished) = 0
  BY DEF IInv, Counter, Join
<1>2. IsFiniteSet(Unfinished)
  <2>1. Unfinished \in SUBSET Tasks
    BY DEF Unfinished
  <2> QED BY <2>1, TaskAssumption, FS_Subset
<1>3. \A j \in Tasks : ~Waiting(j) /\ ~Executing(j)
  BY <1>1, <1>2, FS_EmptySet DEF Unfinished
<1>4. /\ \A w \in Ids : deque'[w] = <<>>
      /\ inject' = inject /\ arg' = arg /\ task' = task
  BY DEF Join
<1> QED BY <1>3, <1>4, EmptyIn DEF Waiting, InDeques, Executing

\* The destructor leaves no task, and between runs none is executing.
LEMMA DestroyMoves ==
  ASSUME IInv, Destroy
  PROVE  \A j \in Tasks : ~Waiting(j)' /\ ~Executing(j) /\ ~Executing(j)'
<1>0. Types /\ Phases /\ Hands /\ n = 0
  BY DEF IInv, Phases, Destroy
<1>1. \A w \in Ids : pc[w] = "none" /\ deque[w] = <<>> /\ arg[w] = NULL /\ task[w] = NULL
  BY <1>0 DEF Phases, Hands, Ids
<1>2. deque' = deque /\ inject' = <<>> /\ arg' = arg /\ task' = task
  BY DEF Destroy
<1> QED BY <1>1, <1>2, EmptyIn, TaskAssumption DEF Waiting, InDeques, Executing

\* Workers exist in run() only.
LEMMA WorkersInRun ==
  ASSUME IInv, NEW w \in Ids, pc[w] # "none"
  PROVE  driver \in {"wait", "join"}
BY DEF IInv, Types, Phases, Ids

\* There are finitely many unfinished tasks, and some while a worker executes one.
LEMMA UnfinishedFacts ==
  /\ IsFiniteSet(Unfinished) /\ Cardinality(Unfinished) \in Nat
  /\ Cardinality(Unfinished) = 0 <=> Unfinished = {}
<1>1. Unfinished \in SUBSET Tasks
  BY DEF Unfinished
<1>2. IsFiniteSet(Unfinished)
  BY <1>1, TaskAssumption, FS_Subset
<1> QED BY <1>2, FS_CardinalityType, FS_EmptySet

LEMMA ExecutingCounts ==
  ASSUME IInv, NEW w \in Ids, pc[w] = "run"
  PROVE  /\ driver = "wait" /\ pending = Cardinality(Unfinished) /\ pending \in Nat \ {0}
         /\ \A v \in Ids : pc[v] # "exit"
<1>0. Types /\ Hands /\ Counter /\ driver \in {"wait", "join"}
  BY WorkersInRun DEF IInv
<1>1. task[w] \in Tasks /\ Executing(task[w])
  BY <1>0 DEF Hands, Types, Ptr, Executing
<1>2. Unfinished # {}
  BY <1>1 DEF Unfinished
<1>3. pending = Cardinality(Unfinished) /\ pending \in Nat \ {0}
  BY <1>0, <1>2, UnfinishedFacts DEF Counter
<1> QED BY <1>0, <1>3 DEF Counter

\* The counter keeps up with the tasks.
LEMMA CounterStep == Foreign = {} /\ IInv /\ [Next]_vars => Counter'
<1> SUFFICES ASSUME Foreign = {}, IInv, [Next]_vars PROVE Counter'
  OBVIOUS
<1>0. Types /\ Phases /\ Counter
  BY DEF IInv
<1>a. ASSUME UNCHANGED <<deque, inject, task, arg>> PROVE Unfinished' = Unfinished
  BY <1>a DEF Unfinished, Waiting, InDeques, Executing
<1>b. ASSUME \A j \in Tasks : (Waiting(j)' <=> Waiting(j)) /\ (Executing(j)' <=> Executing(j))
      PROVE  Unfinished' = Unfinished
  BY <1>b DEF Unfinished
<1>c. ASSUME NEW k \in Tasks,
             \/ \E id \in Foreign \cup {NoWorker} : SubmitOutside(id, k)
             \/ \E w \in Ids : Spawn(w, k)
      PROVE  Cardinality(Unfinished') = Cardinality(Unfinished) + 1
  <2>1. Unfinished' = Unfinished \cup {k} /\ k \notin Unfinished
    BY <1>c, SubmitMoves DEF Unfinished
  <2> QED BY <2>1, UnfinishedFacts, FS_AddElement
<1>1. ASSUME NEW k \in Tasks, NEW id \in Foreign \cup {NoWorker}, SubmitOutside(id, k)
      PROVE  Counter'
  <2>1. Cardinality(Unfinished') = Cardinality(Unfinished) + 1
    BY <1>1, <1>c
  <2>2. driver = "out" /\ driver' = driver /\ pending' = pending + 1 /\ pc' = pc
    BY <1>1, DriverSubmits DEF SubmitOutside, control
  <2>3. \A w \in Ids : pc[w] = "none"
    BY <2>2, WorkersInRun
  <2> QED BY <1>0, <2>1, <2>2, <2>3 DEF Counter
<1>2. ASSUME NEW k \in Tasks, NEW w \in Ids, Spawn(w, k) PROVE Counter'
  <2>1. Cardinality(Unfinished') = Cardinality(Unfinished) + 1
    BY <1>2, <1>c
  <2>2. /\ driver = "wait" /\ pending = Cardinality(Unfinished)
        /\ \A v \in Ids : pc[v] # "exit"
    BY <1>2, ExecutingCounts DEF Spawn
  <2>3. /\ driver' = driver /\ pending' = pending + 1
        /\ \A v \in Ids : pc'[v] # "exit"
    BY <1>0, <1>2, <2>2 DEF Spawn, CountedChild, Goto, Types, control
  <2> QED BY <2>1, <2>2, <2>3 DEF Counter
<1>3. ASSUME NEW w \in Ids, Push(w) PROVE Counter'
  <2>1. Unfinished' = Unfinished
    BY <1>3, <1>b, PushMoves
  <2>2. \A v \in Ids : pc'[v] = "exit" => pc[v] = "exit"
    BY <1>0, <1>3 DEF Push, Goto, Types
  <2> QED BY <1>0, <1>3, <2>1, <2>2 DEF Push, Counter, control
<1>4. ASSUME NEW m \in 0..MaxWorkers, RunStart(m) PROVE Counter'
  <2>1. Unfinished' = Unfinished
    BY <1>4, <1>b, RunMoves
  <2>2. /\ driver = "out" /\ driver' = "wait" /\ pending' = pending
        /\ \A v \in Ids : pc'[v] # "exit"
    BY <1>4 DEF RunStart
  <2> QED BY <1>0, <2>1, <2>2 DEF Counter
<1>5. CASE AllDone
  <2>1. Unfinished' = Unfinished
    BY <1>a, <1>5 DEF AllDone
  <2> QED BY <1>0, <1>5, <2>1 DEF AllDone, Counter
<1>6. CASE Join
  <2>1. Unfinished = {} /\ Unfinished' = {}
    BY <1>6, JoinMoves DEF Unfinished
  <2> QED BY <1>0, <1>6, <2>1 DEF Join, Counter
<1>7. CASE Destroy
  <2>1. driver = "out" /\ driver' = "gone" /\ pending' = pending /\ pc' = pc
    BY <1>7 DEF Destroy
  <2>2. \A w \in Ids : pc[w] = "none"
    BY <2>1, WorkersInRun
  <2>3. pending >= 0
    BY <1>0, <2>1, UnfinishedFacts DEF Counter
  <2> QED BY <2>1, <2>2, <2>3 DEF Counter
<1>8. ASSUME NEW w \in Ids, Pop(w) \/ Steal(w) PROVE Counter'
  <2>1. PICK k \in Tasks :
          /\ Waiting(k)
          /\ \A j \in Tasks : Waiting(j)' <=> Waiting(j) /\ j # k
          /\ \A j \in Tasks : Executing(j)' <=> Executing(j) \/ j = k
    BY <1>8, TakeMoves
  <2>2. Unfinished' = Unfinished
    BY <2>1 DEF Unfinished
  <2>3. /\ pending' = pending /\ driver' = driver
        /\ \A v \in Ids : pc'[v] = "exit" => pc[v] = "exit"
    BY <1>0, <1>8 DEF Pop, Steal, Goto, Types, control
  <2> QED BY <1>0, <2>2, <2>3 DEF Counter
<1>9. ASSUME NEW w \in Ids, PopNothing(w) PROVE Counter'
  <2>1. Unfinished' = Unfinished
    BY <1>a, <1>9 DEF PopNothing
  <2>2. \A v \in Ids : v # w => pc'[v] = pc[v]
    BY <1>0, <1>9 DEF PopNothing, Goto, Types
  <2>3. pc'[w] # "exit"
    BY <1>0, <1>9 DEF PopNothing, Goto, Types
  <2> QED BY <1>0, <1>9, <2>1, <2>2, <2>3 DEF PopNothing, Counter, control
<1>10. ASSUME NEW w \in Ids, Finish(w) PROVE Counter'
  <2>1. Unfinished' = Unfinished \ {task[w]} /\ task[w] \in Unfinished
    BY <1>10, FinishMoves DEF Unfinished
  <2>2. Cardinality(Unfinished') = Cardinality(Unfinished) - 1
    BY <2>1, UnfinishedFacts, FS_RemoveElement
  <2>3. /\ driver = "wait" /\ pending = Cardinality(Unfinished)
        /\ \A v \in Ids : pc[v] # "exit"
    BY <1>10, ExecutingCounts DEF Finish
  <2>4. /\ driver' = driver /\ pending' = pending - 1
        /\ pc'[w] = "exit" => pending = 1
        /\ \A v \in Ids : v # w => pc'[v] = pc[v]
    BY <1>0, <1>10 DEF Finish, Goto, Types, control
  <2> QED BY <1>0, <2>2, <2>3, <2>4 DEF Counter, Types
<1>11. ASSUME NEW w \in Ids, CheckPending(w) PROVE Counter'
  <2>1. Unfinished' = Unfinished
    BY <1>a, <1>11 DEF CheckPending
  <2>2. /\ pc'[w] = "exit" => pending = 0
        /\ \A v \in Ids : v # w => pc'[v] = pc[v]
    BY <1>0, <1>11 DEF CheckPending, Goto, Types
  <2> QED BY <1>0, <1>11, <2>1, <2>2 DEF CheckPending, Counter, control
<1>12. ASSUME NEW w \in Ids, CheckShutdown(w) PROVE Counter'
  <2>1. Unfinished' = Unfinished
    BY <1>a, <1>12 DEF CheckShutdown
  <2>2. /\ pc'[w] = "exit" => shutdown
        /\ \A v \in Ids : v # w => pc'[v] = pc[v]
    BY <1>0, <1>12 DEF CheckShutdown, Goto, Types
  <2>3. driver \in {"wait", "join"}
    BY <1>12, WorkersInRun DEF CheckShutdown
  <2>4. shutdown => pending = 0
    BY <1>0, <2>3 DEF Phases, Counter
  <2> QED BY <1>0, <1>12, <2>1, <2>2, <2>4 DEF CheckShutdown, Counter, control
<1>13. ASSUME NEW w \in Ids, StealNothing(w) PROVE Counter'
  <2>1. Unfinished' = Unfinished
    BY <1>a, <1>13 DEF StealNothing
  <2>2. \A v \in Ids : v # w => pc'[v] = pc[v]
    BY <1>0, <1>13 DEF StealNothing, Goto, Types
  <2>3. pc'[w] \in {"steal", "pop"}
    BY <1>0, <1>13 DEF StealNothing, Goto, Types
  <2> QED BY <1>0, <1>13, <2>1, <2>2, <2>3 DEF StealNothing, Counter, control
<1>14. CASE UNCHANGED vars
  <2>1. Unfinished' = Unfinished
    BY <1>a, <1>14 DEF vars
  <2> QED BY <1>0, <1>14, <2>1 DEF vars, Counter, control
<1> QED BY <1>1, <1>2, <1>3, <1>4, <1>5, <1>6, <1>7, <1>8, <1>9, <1>10, <1>11, <1>12,
           <1>13, <1>14 DEF Next, Loop

-----------------------------------------------------------------------------
(***************************************************************************)
(* The invariant holds, and what follows from it.                          *)
(***************************************************************************)

\* At first.
LEMMA IInvInit == Init => IInv
<1> SUFFICES ASSUME Init PROVE IInv
  OBVIOUS
<1>0. Ids = 0..MaxWorkers-1 /\ MaxWorkers \in Nat \ {0} /\ MaxRuns \in Nat
  BY WorkerAssumption, RunsAssumption DEF Ids
<1>1. Types
  <2>1. pc \in [Ids -> {"none"}]
    BY DEF Init
  <2>2. pc \in [Ids -> {"none", "pop", "run", "push", "pending?", "shutdown?", "steal", "exit"}]
    BY <2>1
  <2>3. NoSweep \in [start : Ids, attempt : 0..MaxWorkers]
    BY <1>0 DEF NoSweep
  <2>4. sweep \in [Ids -> [start : Ids, attempt : 0..MaxWorkers]]
    BY <2>3 DEF Init
  <2> QED BY <1>0, <2>2, <2>4, EmptyIn DEF Init, Types, Ptr
<1>2. Phases
  BY <1>0 DEF Init, Phases
<1>3. Sweeps /\ Hands
  BY DEF Init, Sweeps, Hands
<1>4. Unique
  BY EmptyIn, TaskAssumption DEF Init, Unique, Held, InDeques
<1>5. Counter
  <2>1. Unfinished = {}
    BY EmptyIn, TaskAssumption DEF Init, Unfinished, Waiting, InDeques, Executing
  <2>2. Cardinality(Unfinished) = 0
    BY <2>1, FS_EmptySet
  <2> QED BY <2>2 DEF Init, Counter
<1> QED BY <1>1, <1>2, <1>3, <1>4, <1>5 DEF IInv

\* The invariant holds when no other thread submits, whatever the number of workers.
THEOREM Invariance ==
  ASSUME Foreign = {}
  PROVE  Spec => []IInv
<1>1. IInv /\ [Next]_vars => IInv'
  BY TypesStep, PhasesStep, SweepsStep, HandsStep, UniqueStep, CounterStep DEF IInv
<1> QED BY <1>1, IInvInit, PTL DEF Spec

\* The variables have their types, and no worker ever steals from itself.
THEOREM TypeCorrect ==
  ASSUME Foreign = {}
  PROVE  Spec => []TypeOK
<1>1. IInv => TypeOK
  <2> SUFFICES ASSUME IInv PROVE TypeOK
    OBVIOUS
  <2>1. Types
    BY DEF IInv
  <2>2. pending \in Nat
    BY <2>1, UnfinishedFacts DEF IInv, Counter, Types
  <2>3. \A w \in Ids : pc[w] = "steal" => Target(w) \in Others(n, w)
    BY TargetOther
  <2> QED BY <2>1, <2>2, <2>3 DEF Types, TypeOK, Ptr
<1> QED BY <1>1, Invariance, PTL

\* A worker that leaves, by whichever of its exits, leaves no work behind.
THEOREM LeavesNothingCorrect ==
  ASSUME Foreign = {}
  PROVE  Spec => []LeavesNothing
<1>1. IInv => LeavesNothing
  <2> SUFFICES ASSUME IInv, NEW w \in Ids, pc[w] = "exit"
               PROVE  /\ \A v \in Ids : deque[v] = <<>> /\ task[v] = NULL /\ arg[v] = NULL
                      /\ inject = <<>>
    BY DEF LeavesNothing
  <2>1. Types /\ driver \in {"wait", "join"} /\ pending = 0
    BY WorkersInRun DEF IInv, Counter
  <2>2. \A k \in Tasks : ~Waiting(k) /\ ~Executing(k)
    BY <2>1, UnfinishedFacts DEF IInv, Counter, Unfinished
  <2>3. inject = <<>>
    BY <2>1 DEF IInv, Phases
  <2>4. ASSUME NEW v \in Ids PROVE task[v] = NULL /\ arg[v] = NULL
    BY <2>1, <2>2 DEF Types, Ptr, Waiting, Executing
  <2>5. ASSUME NEW v \in Ids, deque[v] # <<>> PROVE FALSE
    <3>1. deque[v] \in Seq(Tasks) /\ Distinct(deque[v])
      BY <2>1 DEF IInv, Types, Unique
    <3>2. Head(deque[v]) \in Tasks /\ In(deque[v], Head(deque[v]))
      BY <2>5, <3>1, TailIn
    <3> QED BY <2>2, <3>2 DEF Waiting, InDeques
  <2> QED BY <2>3, <2>4, <2>5
<1> QED BY <1>1, Invariance, PTL

-----------------------------------------------------------------------------
(***************************************************************************)
(* The scheduler implements Scheduler.                                     *)
(***************************************************************************)

\* The abstract state.
Todo   == [k \in Tasks |-> One(Waiting(k))]
Runs   == [k \in Tasks |-> One(Executing(k))]
Driver == IF InRun THEN "in" ELSE driver

\* A step that moves no task and is inside or outside run() before and after.
LEMMA Stutters ==
  ASSUME \A j \in Tasks : Waiting(j)' <=> Waiting(j),
         \A j \in Tasks : Executing(j)' <=> Executing(j),
         Driver' = Driver, done' = done
  PROVE  UNCHANGED Abstract!vars
<1>1. Todo' = Todo /\ Runs' = Runs
  BY DEF Todo, Runs, One
<1> QED BY <1>1 DEF Abstract!vars, Todo, Runs, Driver

\* submit is Submit.
LEMMA AbstractSubmit ==
  ASSUME Foreign = {}, IInv, NEW k \in Tasks,
         \/ \E id \in Foreign \cup {NoWorker} : SubmitOutside(id, k)
         \/ \E w \in Ids : Spawn(w, k)
  PROVE  Abstract!Submit(k)
<1>0. Types /\ Hands
  BY DEF IInv
<1>1. Todo' = [Todo EXCEPT ![k] = @ + 1]
  <2>1. Todo[k] = 0 /\ \A j \in Tasks : Todo'[j] = IF j = k THEN 1 ELSE Todo[j]
    BY SubmitMoves DEF Todo, One
  <2>2. Todo \in [Tasks -> {0, 1}] /\ Todo' \in [Tasks -> {0, 1}]
    BY DEF Todo, One
  <2> QED BY <2>1, <2>2
<1>2. Runs' = Runs
  BY SubmitMoves DEF Runs, One
<1>3. Driver' = Driver /\ done' = done
  BY DEF SubmitOutside, Spawn, control, Driver, InRun
<1>4. Driver = "out" \/ Runs # [j \in Tasks |-> 0]
  <2>1. ASSUME NEW id \in Foreign \cup {NoWorker}, SubmitOutside(id, k) PROVE Driver = "out"
    BY <2>1, DriverSubmits DEF Driver, InRun
  <2>2. ASSUME NEW w \in Ids, Spawn(w, k) PROVE Runs # [j \in Tasks |-> 0]
    <3>1. task[w] \in Tasks
      BY <1>0, <2>2 DEF Spawn, Hands, Types, Ptr
    <3>2. Runs[task[w]] = 1
      BY <3>1 DEF Runs, One, Executing
    <3> QED BY <3>1, <3>2
  <2> QED BY <2>1, <2>2
<1> QED BY <1>1, <1>2, <1>3, <1>4 DEF Abstract!Submit, Abstract!None, Todo, Runs, Driver

\* pop_bottom and steal are Start.
LEMMA AbstractStart ==
  ASSUME IInv, NEW w \in Ids, Pop(w) \/ Steal(w)
  PROVE  \E k \in Tasks : Abstract!Start(k)
<1>1. PICK k \in Tasks :
        /\ Waiting(k) /\ ~Executing(k)
        /\ \A j \in Tasks : Waiting(j)' <=> Waiting(j) /\ j # k
        /\ \A j \in Tasks : Executing(j)' <=> Executing(j) \/ j = k
  BY TakeMoves
<1>2. Todo[k] > 0 /\ Todo' = [Todo EXCEPT ![k] = @ - 1]
  <2>1. Todo[k] = 1 /\ \A j \in Tasks : Todo'[j] = IF j = k THEN 0 ELSE Todo[j]
    BY <1>1 DEF Todo, One
  <2>2. Todo \in [Tasks -> {0, 1}] /\ Todo' \in [Tasks -> {0, 1}]
    BY DEF Todo, One
  <2> QED BY <2>1, <2>2
<1>3. Runs' = [Runs EXCEPT ![k] = @ + 1]
  <2>1. Runs[k] = 0 /\ \A j \in Tasks : Runs'[j] = IF j = k THEN 1 ELSE Runs[j]
    BY <1>1 DEF Runs, One
  <2>2. Runs \in [Tasks -> {0, 1}] /\ Runs' \in [Tasks -> {0, 1}]
    BY DEF Runs, One
  <2> QED BY <2>1, <2>2
<1>4. driver \in {"wait", "join"}
  BY WorkersInRun DEF Pop, Steal
<1>5. Driver = "in" /\ Driver' = Driver /\ done' = done
  BY <1>4 DEF Pop, Steal, control, Driver, InRun
<1> QED BY <1>2, <1>3, <1>5 DEF Abstract!Start, Todo, Runs, Driver

\* The return of a task is Finish.
LEMMA AbstractFinish ==
  ASSUME IInv, NEW w \in Ids, Finish(w)
  PROVE  \E k \in Tasks : Abstract!Finish(k)
<1> DEFINE k == task[w]
<1>1. k \in Tasks /\ Runs[k] > 0 /\ Runs' = [Runs EXCEPT ![k] = @ - 1]
  BY FinishMoves DEF Runs, One
<1>2. Todo' = Todo
  BY FinishMoves DEF Todo, One
<1>3. Driver' = Driver /\ done' = [done EXCEPT ![k] = @ + 1]
  BY DEF Finish, control, Driver, InRun
<1> HIDE DEF k
<1> QED BY <1>1, <1>2, <1>3 DEF Abstract!Finish, Todo, Runs, Driver

\* run() returns only when everything is finished.
LEMMA AbstractReturn == IInv /\ Join => Abstract!Return
<1> SUFFICES ASSUME IInv, Join PROVE Abstract!Return
  OBVIOUS
<1>1. /\ Todo = [k \in Tasks |-> 0] /\ Todo' = Todo
      /\ Runs = [k \in Tasks |-> 0] /\ Runs' = Runs
  BY JoinMoves DEF Todo, Runs, One
<1>2. Driver = "in" /\ Driver' = "out" /\ done' = done
  BY DEF Join, Driver, InRun
<1> QED BY <1>1, <1>2 DEF Abstract!Return, Abstract!None, Todo, Runs, Driver

\* The destructor is Destroy.
LEMMA AbstractDestroy == IInv /\ Destroy => Abstract!Destroy
<1> SUFFICES ASSUME IInv, Destroy PROVE Abstract!Destroy
  OBVIOUS
<1>1. /\ Todo' = [k \in Tasks |-> 0]
      /\ Runs = [k \in Tasks |-> 0] /\ Runs' = [k \in Tasks |-> 0]
  BY DestroyMoves DEF Todo, Runs, One
<1>2. Driver = "out" /\ Driver' = "gone" /\ done' = done
  BY DEF Destroy, Driver, InRun
<1> QED BY <1>1, <1>2 DEF Abstract!Destroy, Abstract!None, Todo, Runs, Driver

\* The start of run() is Run.
LEMMA AbstractRun ==
  ASSUME IInv, NEW m \in 0..MaxWorkers, RunStart(m)
  PROVE  Abstract!Run
<1>1. Todo' = Todo /\ Runs' = Runs
  BY RunMoves DEF Todo, Runs, One
<1>2. Driver = "out" /\ Driver' = "in" /\ done' = done
  BY DEF RunStart, Driver, InRun
<1> QED BY <1>1, <1>2 DEF Abstract!Run, Todo, Runs, Driver

\* Every step is one of the abstract scheduler, or none.
LEMMA AbstractStep ==
  Foreign = {} /\ IInv /\ [Next]_vars => [Abstract!Next]_(Abstract!vars)
<1> SUFFICES ASSUME Foreign = {}, IInv, [Next]_vars PROVE [Abstract!Next]_(Abstract!vars)
  OBVIOUS
<1>a. ASSUME UNCHANGED <<deque, inject, task, arg, done>>, Driver' = Driver
      PROVE  [Abstract!Next]_(Abstract!vars)
  <2>1. \A j \in Tasks : (Waiting(j)' <=> Waiting(j)) /\ (Executing(j)' <=> Executing(j))
    BY <1>a DEF Waiting, InDeques, Executing
  <2> QED BY <1>a, <2>1, Stutters
<1>1. ASSUME NEW k \in Tasks,
             \/ \E id \in Foreign \cup {NoWorker} : SubmitOutside(id, k)
             \/ \E w \in Ids : Spawn(w, k)
      PROVE  [Abstract!Next]_(Abstract!vars)
  BY <1>1, AbstractSubmit DEF Abstract!Next
<1>2. ASSUME NEW w \in Ids, Push(w) PROVE [Abstract!Next]_(Abstract!vars)
  <2>1. Driver' = Driver /\ done' = done
    BY <1>2 DEF Push, control, Driver, InRun
  <2> QED BY <1>2, <2>1, PushMoves, Stutters
<1>3. ASSUME NEW m \in 0..MaxWorkers, RunStart(m) PROVE [Abstract!Next]_(Abstract!vars)
  BY <1>3, AbstractRun DEF Abstract!Next
<1>4. CASE AllDone
  BY <1>a, <1>4 DEF AllDone, Driver, InRun
<1>5. CASE Join
  BY <1>5, AbstractReturn DEF Abstract!Next
<1>6. CASE Destroy
  BY <1>6, AbstractDestroy DEF Abstract!Next
<1>7. ASSUME NEW w \in Ids, Pop(w) \/ Steal(w) PROVE [Abstract!Next]_(Abstract!vars)
  BY <1>7, AbstractStart DEF Abstract!Next
<1>8. ASSUME NEW w \in Ids, Finish(w) PROVE [Abstract!Next]_(Abstract!vars)
  BY <1>8, AbstractFinish DEF Abstract!Next
<1>9. ASSUME NEW w \in Ids, PopNothing(w) PROVE [Abstract!Next]_(Abstract!vars)
  BY <1>a, <1>9 DEF PopNothing, control, Driver, InRun
<1>10. ASSUME NEW w \in Ids, CheckPending(w) PROVE [Abstract!Next]_(Abstract!vars)
  BY <1>a, <1>10 DEF CheckPending, control, Driver, InRun
<1>11. ASSUME NEW w \in Ids, CheckShutdown(w) PROVE [Abstract!Next]_(Abstract!vars)
  BY <1>a, <1>11 DEF CheckShutdown, control, Driver, InRun
<1>12. ASSUME NEW w \in Ids, StealNothing(w) PROVE [Abstract!Next]_(Abstract!vars)
  BY <1>a, <1>12 DEF StealNothing, control, Driver, InRun
<1>13. CASE UNCHANGED vars
  BY <1>a, <1>13 DEF vars, control, Driver, InRun
<1> QED BY <1>1, <1>2, <1>3, <1>4, <1>5, <1>6, <1>7, <1>8, <1>9, <1>10, <1>11, <1>12,
           <1>13 DEF Next, Loop

\* And it begins as the abstract one does.
LEMMA AbstractInit == Init => Abstract!Init
<1> SUFFICES ASSUME Init PROVE Abstract!Init
  OBVIOUS
<1>1. \A k \in Tasks : ~Waiting(k) /\ ~Executing(k)
  BY EmptyIn, TaskAssumption DEF Init, Waiting, InDeques, Executing
<1>2. Todo = [k \in Tasks |-> 0] /\ Runs = [k \in Tasks |-> 0]
  BY <1>1 DEF Todo, Runs, One
<1>3. Driver = "out" /\ done = [k \in Tasks |-> 0]
  BY DEF Init, Driver, InRun
<1> QED BY <1>2, <1>3 DEF Abstract!Init, Abstract!None, Todo, Runs, Driver

\* Nothing submitted is lost or executed twice, whoever steals from whom, and run()
\* returns, freeing its deques, only when everything has finished.
THEOREM Refinement ==
  ASSUME Foreign = {}
  PROVE  Spec => Implements
<1> QED BY AbstractStep, AbstractInit, Invariance, PTL DEF Spec, Implements, Abstract!Spec
=============================================================================
