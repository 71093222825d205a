---------------------------- MODULE LockFreeQueue ----------------------------
(***************************************************************************)
(* LockFreeQueueScheduler (include/lockfree_queue_scheduler.hpp): a ring   *)
(* of slots, each with a sequence number that says whose turn it is; head_ *)
(* hands out positions to producers, tail_ to consumers.                   *)
(*                                                                         *)
(* Every access to a shared variable is a step of its own.  Sequence       *)
(* numbers are released and acquired, and everything else is read-modify-  *)
(* write except the load of tail_; one that returns an old value is the    *)
(* same as a load made earlier, which the interleaving already allows.     *)
(***************************************************************************)
EXTENDS Integers, Sequences, FiniteSets

CONSTANTS
  Tasks,        \* tasks that may be submitted, each once
  Endless,      \* those of them that may never return
  Owner,        \* the thread that owns the scheduler and calls run()
  Workers,      \* threads that calls of run() may start
  NULL,         \* no task
  RingSize,     \* kRingSize
  MaxPending,   \* bound on unfinished submissions, kept by the clients
  MaxRuns       \* bound on the calls of run()

ASSUME ThreadAssumption == Owner \notin Workers /\ IsFiniteSet(Workers)
ASSUME TaskAssumption == NULL \notin Tasks /\ IsFiniteSet(Tasks) /\ Endless \subseteq Tasks
ASSUME RingAssumption == RingSize \in Nat \ {0, 1}
ASSUME BoundAssumption == MaxPending \in Nat /\ MaxRuns \in Nat

Threads == Workers \cup {Owner}
Slots   == 0..RingSize-1
Slot(p) == p % RingSize

VARIABLES
  pending,    \* pending_
  shutdown,   \* shutdown_
  head,       \* head_
  tail,       \* tail_
  sequence,   \* the sequence number of every slot of ring_
  payload,    \* the task in every slot of ring_
  pc,         \* where each thread is
  pos,        \* the position it is working on
  arg,        \* the task it is submitting
  task,       \* the task it executes
  order,      \* history: the tasks in the order of their positions
  done,       \* history: finished executions of each task
  runs        \* calls of run() so far

counters == <<pending, shutdown, runs>>
ring == <<head, tail, sequence, payload, order>>
vars == <<counters, ring, pc, pos, arg, task, done>>

Init ==
  /\ pending = 0 /\ shutdown = FALSE /\ runs = 0
  /\ head = 0 /\ tail = 0 /\ order = <<>>
  /\ sequence = [i \in Slots |-> i]
  /\ payload = [i \in Slots |-> NULL]
  /\ pc = [t \in Threads |-> IF t = Owner THEN "out" ELSE "none"]
  /\ pos = [t \in Threads |-> 0]
  /\ arg = [t \in Threads |-> NULL]
  /\ task = [t \in Threads |-> NULL]
  /\ done = [k \in Tasks |-> 0]

Goto(t, place) == pc' = [pc EXCEPT ![t] = place]

Queued(k)    == \E i \in Slots : payload[i] = k
Waiting(k)   == Queued(k) \/ \E t \in Threads : arg[t] = k
Executing(k) == \E t \in Threads : task[t] = k
Fresh(k)     == ~Waiting(k) /\ ~Executing(k) /\ done[k] = 0

-----------------------------------------------------------------------------
\* submit and enqueue, by the owner between runs or by a running task

Submit(t, k) ==
  /\ pc[t] = IF t = Owner THEN "out" ELSE "run"
  /\ Fresh(k) /\ pending < MaxPending
  /\ pending' = pending + 1
  /\ arg' = [arg EXCEPT ![t] = k]
  /\ Goto(t, "reserve")
  /\ UNCHANGED <<shutdown, runs, ring, pos, task, done>>

Reserve(t) ==
  /\ pc[t] = "reserve"
  /\ pos' = [pos EXCEPT ![t] = head]
  /\ head' = head + 1
  /\ order' = Append(order, arg[t])
  /\ Goto(t, "fill")
  /\ UNCHANGED <<counters, tail, sequence, payload, arg, task, done>>

\* Variant: the producer does not wait for its slot.
ReturnedAlways(p) == TRUE

\* The slot's last user has given it back; producers spin until then.
Returned(p) == sequence[Slot(p)] = p

Fill(t) ==
  /\ pc[t] = "fill"
  /\ Returned(pos[t])
  /\ payload' = [payload EXCEPT ![Slot(pos[t])] = arg[t]]
  /\ arg' = [arg EXCEPT ![t] = NULL]
  /\ Goto(t, "publish")
  /\ UNCHANGED <<counters, head, tail, sequence, order, pos, task, done>>

Publish(t) ==
  /\ pc[t] = "publish"
  /\ sequence' = [sequence EXCEPT ![Slot(pos[t])] = pos[t] + 1]
  /\ Goto(t, IF t = Owner THEN "out" ELSE "run")
  /\ UNCHANGED <<counters, head, tail, payload, order, pos, arg, task, done>>

-----------------------------------------------------------------------------
\* dequeue, and the worker's loop around it

LoadTail(w) ==
  /\ pc[w] = "load"
  /\ pos' = [pos EXCEPT ![w] = tail]
  /\ Goto(w, "seq")
  /\ UNCHANGED <<counters, ring, arg, task, done>>

\* Variant: an unfilled slot looks filled.
DiffOffByOne(p) == sequence[Slot(p)] - p

Diff(p) == sequence[Slot(p)] - (p + 1)

LoadSeq(w) ==
  /\ pc[w] = "seq"
  /\ Goto(w, IF Diff(pos[w]) = 0 THEN "claim" ELSE IF Diff(pos[w]) < 0 THEN "empty" ELSE "load")
  /\ UNCHANGED <<counters, ring, pos, arg, task, done>>

\* Variant: a store to tail_ in place of the compare-and-swap.
UnclaimedAlways(p) == TRUE

Unclaimed(p) == tail = p

Claim(w) ==
  /\ pc[w] = "claim" /\ Unclaimed(pos[w])
  /\ tail' = pos[w] + 1
  /\ Goto(w, "take")
  /\ UNCHANGED <<counters, head, sequence, payload, order, pos, arg, task, done>>

\* compare_exchange_weak fails when tail_ has moved, or for no reason.
ClaimFails(w) ==
  /\ pc[w] = "claim"
  /\ pos' = [pos EXCEPT ![w] = tail]
  /\ Goto(w, "seq")
  /\ UNCHANGED <<counters, ring, arg, task, done>>

Take(w) ==
  /\ pc[w] = "take"
  /\ task' = [task EXCEPT ![w] = payload[Slot(pos[w])]]
  /\ payload' = [payload EXCEPT ![Slot(pos[w])] = NULL]
  /\ Goto(w, "return")
  /\ UNCHANGED <<counters, head, tail, sequence, order, pos, arg, done>>

\* Variant: the slot is given back for the next position, not the next round.
NextPosition(p) == p + 1

NextRound(p) == p + RingSize

\* A null pointer counts as nothing found.
GiveBack(w) ==
  /\ pc[w] = "return"
  /\ sequence' = [sequence EXCEPT ![Slot(pos[w])] = NextRound(pos[w])]
  /\ Goto(w, IF task[w] = NULL THEN "empty" ELSE "run")
  /\ UNCHANGED <<counters, head, tail, payload, order, pos, arg, task, done>>

\* The task returns; pending_.fetch_sub.
Finish(w) ==
  /\ pc[w] = "run" /\ w # Owner
  /\ task' = [task EXCEPT ![w] = NULL]
  /\ pending' = pending - 1
  /\ done' = [done EXCEPT ![task[w]] = @ + 1]
  /\ Goto(w, "load")
  /\ UNCHANGED <<shutdown, runs, ring, pos, arg>>

\* Variants: shutdown_ is not looked at; a worker leaves when it finds nothing.
StoppedNever == FALSE
StoppedAlways == TRUE

Stopped == shutdown

\* dequeue returned nullptr.
FoundNothing(w) ==
  /\ pc[w] = "empty"
  /\ Goto(w, IF Stopped THEN "exit" ELSE "load")
  /\ UNCHANGED <<counters, ring, pos, arg, task, done>>

-----------------------------------------------------------------------------
\* run and the destructor

\* Who calls run() with tasks pending gives it workers; it would not return.
RunStart(started) ==
  /\ pc[Owner] = "out" /\ runs < MaxRuns
  /\ started # {} \/ pending = 0
  /\ runs' = runs + 1
  /\ shutdown' = FALSE
  /\ pc' = [t \in Threads |-> IF t = Owner THEN "wait"
                              ELSE IF t \in started THEN "load" ELSE "none"]
  /\ UNCHANGED <<pending, ring, pos, arg, task, done>>

AllDone ==
  /\ pc[Owner] = "wait" /\ pending = 0
  /\ shutdown' = TRUE
  /\ Goto(Owner, "join")
  /\ UNCHANGED <<pending, runs, ring, pos, arg, task, done>>

Join ==
  /\ pc[Owner] = "join"
  /\ \A w \in Workers : pc[w] \in {"none", "exit"}
  /\ pc' = [t \in Threads |-> IF t = Owner THEN "out" ELSE "none"]
  /\ UNCHANGED <<counters, ring, pos, arg, task, done>>

\* The destructor dequeues what was never run; no other thread is left.
Destroy ==
  /\ pc[Owner] = "out"
  /\ payload' = [i \in Slots |-> NULL]
  /\ tail' = head
  /\ Goto(Owner, "gone")
  /\ UNCHANGED <<counters, head, sequence, order, pos, arg, task, done>>

-----------------------------------------------------------------------------
Enqueue(t) == Reserve(t) \/ Fill(t) \/ Publish(t)

Dequeue(w) ==
  \/ LoadTail(w)
  \/ LoadSeq(w)
  \/ Claim(w)
  \/ ClaimFails(w)
  \/ Take(w)
  \/ GiveBack(w)
  \/ FoundNothing(w)

Next ==
  \/ \E t \in Threads : (\E k \in Tasks : Submit(t, k)) \/ Enqueue(t)
  \/ \E w \in Workers : Dequeue(w) \/ Finish(w)
  \/ \E started \in SUBSET Workers : RunStart(started)
  \/ AllDone
  \/ Join
  \/ Destroy

Spec == Init /\ [][Next]_vars

\* Every thread goes on, a compare-and-swap that could succeed again and again
\* does, and so do tasks return that are not endless, however much they submit.
\* Nobody has to submit or to call run().
Fairness ==
  /\ WF_vars(AllDone) /\ WF_vars(Join)
  /\ \A t \in Threads : WF_vars(Enqueue(t))
  /\ \A w \in Workers : /\ WF_vars(Dequeue(w)) /\ SF_vars(Claim(w))
                        /\ SF_vars(task[w] \notin Endless /\ Finish(w))

FairSpec == Spec /\ Fairness

-----------------------------------------------------------------------------
(***************************************************************************)
(* Properties.                                                             *)
(***************************************************************************)

InRun == pc[Owner] \in {"wait", "join"}

\* The variables have their types; consumers never get past the producers.
TypeOK ==
  /\ pending \in Nat
  /\ shutdown \in BOOLEAN
  /\ head \in Nat /\ tail \in 0..head
  /\ sequence \in [Slots -> Nat]
  /\ payload \in [Slots -> Tasks \cup {NULL}]
  /\ pc \in [Threads -> {"out", "wait", "join", "gone", "none", "load", "seq", "claim",
                         "empty", "take", "return", "run", "exit",
                         "reserve", "fill", "publish"}]
  /\ pos \in [Threads -> Nat]
  /\ arg \in [Threads -> Tasks \cup {NULL}]
  /\ task \in [Threads -> Tasks \cup {NULL}]
  /\ order \in Seq(Tasks) /\ Len(order) = head
  /\ done \in [Tasks -> Nat]
  /\ runs \in 0..MaxRuns

\* Seen from outside this is a Scheduler: no submission is overwritten in its
\* slot, lost, or executed twice, and run() returns only when all have finished.
One(b) == IF b THEN 1 ELSE 0
Abstract == INSTANCE Scheduler WITH
  todo    <- [k \in Tasks |-> One(Waiting(k))],
  running <- [k \in Tasks |-> One(Executing(k))],
  driver  <- IF InRun THEN "in" ELSE IF pc[Owner] = "gone" THEN "gone" ELSE "out"
Implements == Abstract!Spec

\* The queue is first in, first out: who claims a position gets the task that
\* reserved it, however long that producer took to fill the slot.
FirstInFirstOut ==
  \A w \in Workers : pc[w] = "return" => task[w] = order[pos[w] + 1]

\* Nobody is left to consume: before run(), or when each worker of the run spins on a
\* full ring itself or is in a task that may not return.
Clogged == \A w \in Workers : pc[w] \in {"none", "fill"} \/ task[w] \in Endless

\* A producer finds the ring full, and gets its slot after all; spinning for ever
\* takes a scheduler without a consumer.
SubmitReturns == \A t \in Threads : []<>(pc[t] # "fill") \/ <>[]Clogged

\* The clients never have more unfinished submissions than the ring has slots, so
\* that it never clogs up.
WithinRing == [](pending <= RingSize)

\* Then run() returns, whoever was slow to fill a slot or to give it back, ...
RunReturns == WithinRing => (InRun ~> ~InRun \/ \E k \in Endless : Executing(k))

\* ... and a task in the ring is started as long as some worker of the run is not
\* in a task that never returns (or that waits for this one).
Crew == {w \in Workers : pc[w] # "none"}
Served ==
  WithinRing => \A k \in Tasks : Queued(k) /\ Cardinality(Crew) > Cardinality(Endless)
                                   ~> ~Queued(k)
=============================================================================
