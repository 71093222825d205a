------------------------------ MODULE Scheduler ------------------------------
(***************************************************************************)
(* What every IScheduler promises (scheduler.hpp, and the use its clients  *)
(* make of it): tasks are submitted by the driver between two calls of     *)
(* run(), and by running tasks; each submission is executed exactly once;  *)
(* run() returns only when nothing submitted is unfinished; and what is    *)
(* submitted and never run is freed with the scheduler.                    *)
(*                                                                         *)
(* A task may be submitted again, so the three variables count.            *)
(***************************************************************************)
EXTENDS Naturals

CONSTANT Tasks

VARIABLES
  todo,      \* submissions of each task that no worker has started
  running,   \* executions of each task in progress
  done,      \* finished executions of each task
  driver     \* "out" of run(), "in" it, or "gone"

vars == <<todo, running, done, driver>>

None == [k \in Tasks |-> 0]

Init == todo = None /\ running = None /\ done = None /\ driver = "out"

Submit(k) ==
  /\ driver = "out" \/ running # None
  /\ todo' = [todo EXCEPT ![k] = @ + 1]
  /\ UNCHANGED <<running, done, driver>>

Run ==
  /\ driver = "out"
  /\ driver' = "in"
  /\ UNCHANGED <<todo, running, done>>

Start(k) ==
  /\ driver = "in" /\ todo[k] > 0
  /\ todo' = [todo EXCEPT ![k] = @ - 1]
  /\ running' = [running EXCEPT ![k] = @ + 1]
  /\ UNCHANGED <<done, driver>>

Finish(k) ==
  /\ running[k] > 0
  /\ running' = [running EXCEPT ![k] = @ - 1]
  /\ done' = [done EXCEPT ![k] = @ + 1]
  /\ UNCHANGED <<todo, driver>>

Return ==
  /\ driver = "in" /\ todo = None /\ running = None
  /\ driver' = "out"
  /\ UNCHANGED <<todo, running, done>>

Destroy ==
  /\ driver = "out" /\ running = None
  /\ driver' = "gone" /\ todo' = None
  /\ UNCHANGED <<running, done>>

Next ==
  \/ \E k \in Tasks : Submit(k) \/ Start(k) \/ Finish(k)
  \/ Run
  \/ Return
  \/ Destroy

Spec == Init /\ [][Next]_vars
=============================================================================
