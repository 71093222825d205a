------------------------ MODULE LockFreeQueue_proofs ------------------------
(***************************************************************************)
(* Proofs about LockFreeQueue, for any tasks, any number of workers and    *)
(* any size of the ring: the queue is first in, first out, and the         *)
(* scheduler implements Scheduler.                                         *)
(***************************************************************************)
EXTENDS LockFreeQueue, CommonFacts, FiniteSetTheorems, TLAPS

-----------------------------------------------------------------------------
(***************************************************************************)
(* The inductive invariant.                                                *)
(***************************************************************************)

Ptr == Tasks \cup {NULL}

\* The types, without what needs an argument.
Types ==
  /\ pending \in Int /\ shutdown \in BOOLEAN /\ runs \in 0..MaxRuns
  /\ head \in Nat /\ tail \in Nat
  /\ sequence \in [Slots -> Nat]
  /\ payload \in [Slots -> Ptr]
  /\ pc \in [Threads -> {"out", "wait", "join", "gone", "none", "load", "seq", "claim",
                         "empty", "take", "return", "run", "exit",
                         "reserve", "fill", "publish"}]
  /\ pos \in [Threads -> Nat]
  /\ arg \in [Threads -> Ptr]
  /\ task \in [Threads -> Ptr]
  /\ order \in Seq(Tasks) /\ Len(order) = head
  /\ done \in [Tasks -> Nat]

Producing(t) == pc[t] \in {"fill", "publish"}
Consuming(t) == pc[t] \in {"take", "return"}

\* The driver and the workers are in their own code, and no worker outlives run().
Phases ==
  /\ pc[Owner] \in {"out", "wait", "join", "gone", "reserve", "fill", "publish"}
  /\ \A w \in Workers : pc[w] \notin {"out", "wait", "join", "gone"}
  /\ pc[Owner] \notin {"wait", "join"} => \A w \in Workers : pc[w] = "none"

\* What a thread holds while it submits, and while it executes.
Hands ==
  /\ \A t \in Threads : arg[t] = NULL <=> pc[t] \notin {"reserve", "fill"}
  /\ task[Owner] = NULL
  /\ \A w \in Workers :
       task[w] = NULL <=> pc[w] \notin {"return", "run", "reserve", "fill", "publish"}

\* A position is reserved, and claimed, by one thread.
Positions ==
  /\ \A t \in Threads : Producing(t) => pos[t] < head
  /\ \A t, u \in Threads : Producing(t) /\ Producing(u) /\ pos[t] = pos[u] => t = u
  /\ \A t \in Threads : pc[t] \in {"seq", "claim"} => pos[t] <= tail
  /\ \A t \in Threads : Consuming(t) => pos[t] < tail
  /\ \A t, u \in Threads : Consuming(t) /\ Consuming(u) /\ pos[t] = pos[u] => t = u

\* What the sequence number of a slot tells the thread whose turn it is.
Turns ==
  /\ \A t \in Threads : pc[t] = "publish" => sequence[Slot(pos[t])] = pos[t]
  /\ \A t \in Threads : pc[t] = "claim" /\ pos[t] = tail =>
       sequence[Slot(pos[t])] = pos[t] + 1
  /\ \A t \in Threads : Consuming(t) => sequence[Slot(pos[t])] = pos[t] + 1

\* A slot is never ahead of the next one to fill it, who is ahead of the consumers.
Lags ==
  /\ \A p \in Nat : p >= head => sequence[Slot(p)] <= p
  /\ \A t \in Threads : pc[t] = "fill" => sequence[Slot(pos[t])] <= pos[t]
  /\ \A t \in Threads : Producing(t) => tail <= pos[t]

\* The task of a position stays the same on its way through the ring.
Ready(p) == p >= tail /\ sequence[Slot(p)] = p + 1
Contents ==
  /\ tail <= head
  /\ \A p \in Nat : Ready(p) => p < head /\ payload[Slot(p)] = order[p + 1]
  /\ \A t \in Threads : pc[t] = "fill" => arg[t] = order[pos[t] + 1]
  /\ \A t \in Threads : pc[t] \in {"publish", "take"} =>
       payload[Slot(pos[t])] = order[pos[t] + 1]
  /\ \A t \in Threads : pc[t] = "return" => task[t] = order[pos[t] + 1]

\* A slot that no position occupies is empty.
Emptied ==
  \A i \in Slots : payload[i] # NULL =>
    \/ \E t \in Threads : pc[t] \in {"publish", "take"} /\ Slot(pos[t]) = i
    \/ \E p \in Nat : Ready(p) /\ Slot(p) = i

\* A task is in one place.
Unique ==
  /\ \A i, j \in Slots : payload[i] = payload[j] /\ payload[i] # NULL => i = j
  /\ \A t, u \in Threads : arg[t] = arg[u] /\ arg[t] # NULL => t = u
  /\ \A t, u \in Threads : task[t] = task[u] /\ task[t] # NULL => t = u
  /\ \A i \in Slots, t \in Threads :
       payload[i] # NULL => payload[i] # arg[t] /\ payload[i] # task[t]
  /\ \A t, u \in Threads : arg[t] # NULL => arg[t] # task[u]

\* The counter counts the unfinished tasks, until the destructor drops them.
Unfinished == {k \in Tasks : Waiting(k) \/ Executing(k)}
Counter ==
  /\ pc[Owner] # "gone" => pending = Cardinality(Unfinished)
  /\ pc[Owner] = "gone" => pending >= 0
  /\ pc[Owner] = "join" => pending = 0

Ring == Types /\ Phases /\ Positions /\ Turns
IInv == Ring /\ Lags /\ Hands /\ Contents /\ Emptied /\ Unique /\ Counter

-----------------------------------------------------------------------------
(***************************************************************************)
(* Slots.                                                                  *)
(***************************************************************************)

\* A position has a slot.
LEMMA SlotType == \A p \in Nat : Slot(p) \in Slots
BY RingAssumption, ModRange DEF Slot, Slots

\* Two positions with the same slot are a round apart at least.
LEMMA SlotFar == \A p, q \in Nat : Slot(p) = Slot(q) /\ p < q => p + RingSize <= q
<1> SUFFICES ASSUME NEW p \in Nat, NEW q \in Nat, p < q, ~(p + RingSize <= q)
             PROVE  p % RingSize # q % RingSize
  BY DEF Slot
<1>1. RingSize \in Nat \ {0} /\ q - p < RingSize /\ p \in Int /\ q \in Int
  BY RingAssumption
<1> QED BY <1>1, ModDistinct

\* Two positions in a row have different slots.
LEMMA SlotNext == \A p, q \in Nat : Slot(p) = Slot(q) => p # q + 1
BY SlotFar, RingAssumption

\* A position of the next round has the same slot.
LEMMA SlotRound == \A p \in Nat : Slot(p + RingSize) = Slot(p)
<1> SUFFICES ASSUME NEW p \in Nat PROVE (p + RingSize) % RingSize = p % RingSize
  BY DEF Slot
<1>1. RingSize \in Nat \ {0} /\ p \in Int
  BY RingAssumption
<1> QED BY <1>1, ModRound, Zenon

-----------------------------------------------------------------------------
(***************************************************************************)
(* Every step preserves the parts of the invariant.                        *)
(***************************************************************************)

\* The owner is a thread, and not a worker.
LEMMA ThreadFacts == Owner \in Threads /\ Workers \subseteq Threads /\ Owner \notin Workers
BY ThreadAssumption DEF Threads

\* Types are preserved.
LEMMA TypesStep == IInv /\ [Next]_vars => Types'
<1> SUFFICES ASSUME IInv, [Next]_vars PROVE Types'
  OBVIOUS
<1> USE ThreadFacts
<1>0. Types
  BY DEF IInv, Ring
<1>1. ASSUME NEW t \in Threads, NEW k \in Tasks, Submit(t, k) PROVE Types'
  BY <1>0, <1>1 DEF Submit, Types, Ptr, Goto, ring
<1>2. ASSUME NEW t \in Threads, Reserve(t) PROVE Types'
  <2>1. arg[t] \in Tasks
    BY <1>0, <1>2 DEF Reserve, IInv, Hands, Types, Ptr
  <2>2. order' \in Seq(Tasks) /\ Len(order') = head'
    BY <1>0, <1>2, <2>1 DEF Reserve, Types
  <2> QED BY <1>0, <1>2, <2>2 DEF Reserve, Types, Goto, counters
<1>3. ASSUME NEW t \in Threads, Fill(t) PROVE Types'
  BY <1>0, <1>3 DEF Fill, Types, Ptr, Goto, counters
<1>4. ASSUME NEW t \in Threads, Publish(t) PROVE Types'
  <2>0. pos[t] + 1 \in Nat
    BY <1>0 DEF Types
  <2>1. sequence' \in [Slots -> Nat]
    BY <1>0, <1>4, <2>0 DEF Publish, Types
  <2> QED BY <1>0, <1>4, <2>1 DEF Publish, Types, Goto, counters
<1>5. ASSUME NEW w \in Workers, LoadTail(w) PROVE Types'
  BY <1>0, <1>5 DEF LoadTail, Types, Goto, counters, ring
<1>6. ASSUME NEW w \in Workers, LoadSeq(w) PROVE Types'
  BY <1>0, <1>6 DEF LoadSeq, Types, Goto, counters, ring
<1>7. ASSUME NEW w \in Workers, Claim(w) PROVE Types'
  BY <1>0, <1>7 DEF Claim, Types, Goto, counters
<1>8. ASSUME NEW w \in Workers, ClaimFails(w) PROVE Types'
  BY <1>0, <1>8 DEF ClaimFails, Types, Goto, counters, ring
<1>9. ASSUME NEW w \in Workers, Take(w) PROVE Types'
  <2>1. payload[Slot(pos[w])] \in Ptr
    BY <1>0, SlotType DEF Types
  <2> QED BY <1>0, <1>9, <2>1 DEF Take, Types, Ptr, Goto, counters
<1>10. ASSUME NEW w \in Workers, GiveBack(w) PROVE Types'
  <2>1. NextRound(pos[w]) \in Nat
    BY <1>0, RingAssumption DEF Types, NextRound
  <2> QED BY <1>0, <1>10, <2>1 DEF GiveBack, Types, Goto, counters
<1>11. ASSUME NEW w \in Workers, FoundNothing(w) PROVE Types'
  BY <1>0, <1>11 DEF FoundNothing, Types, Goto, counters, ring
<1>12. ASSUME NEW w \in Workers, Finish(w) PROVE Types'
  <2>0. done[task[w]] + 1 \in Nat
    <3>1. task[w] \in Tasks
      BY <1>0, <1>12 DEF Finish, IInv, Hands, Types, Ptr
    <3> QED BY <1>0, <3>1 DEF Types
  <2>1. done' \in [Tasks -> Nat]
    BY <1>0, <1>12, <2>0 DEF Finish, Types
  <2>2. task' \in [Threads -> Ptr]
    BY <1>0, <1>12 DEF Finish, Types, Ptr
  <2> QED BY <1>0, <1>12, <2>1, <2>2 DEF Finish, Types, Goto, ring
<1>13. ASSUME NEW started \in SUBSET Workers, RunStart(started) PROVE Types'
  <2>1. runs' \in 0..MaxRuns
    BY <1>0, <1>13, BoundAssumption DEF RunStart, Types
  <2>2. pc' \in [Threads -> {"wait", "load", "none"}]
    BY <1>13 DEF RunStart
  <2> QED BY <1>0, <1>13, <2>1, <2>2 DEF RunStart, Types, ring
<1>14. CASE AllDone
  BY <1>0, <1>14 DEF AllDone, Types, Goto, ring
<1>15. CASE Join
  BY <1>0, <1>15 DEF Join, Types, counters, ring
<1>16. CASE Destroy
  BY <1>0, <1>16 DEF Destroy, Types, Ptr, Goto, counters
<1>17. CASE UNCHANGED vars
  BY <1>0, <1>17 DEF Types, vars, counters, ring
<1> QED BY <1>1, <1>2, <1>3, <1>4, <1>5, <1>6, <1>7, <1>8, <1>9, <1>10, <1>11, <1>12,
           <1>13, <1>14, <1>15, <1>16, <1>17 DEF Next, Enqueue, Dequeue

\* Workers live within run(), and in their own code.
LEMMA PhasesStep == IInv /\ [Next]_vars => Phases'
<1> SUFFICES ASSUME IInv, [Next]_vars PROVE Phases'
  OBVIOUS
<1> USE ThreadFacts
<1>0. Types /\ Phases
  BY DEF IInv, Ring
<1>1. ASSUME NEW t \in Threads, NEW k \in Tasks, Submit(t, k) PROVE Phases'
  BY <1>0, <1>1 DEF Submit, Goto, counters, ring, Types, Phases
<1>2. ASSUME NEW t \in Threads, Reserve(t) PROVE Phases'
  BY <1>0, <1>2 DEF Reserve, Goto, counters, ring, Types, Phases
<1>3. ASSUME NEW t \in Threads, Fill(t) PROVE Phases'
  BY <1>0, <1>3 DEF Fill, Goto, counters, ring, Types, Phases
<1>4. ASSUME NEW t \in Threads, Publish(t) PROVE Phases'
  BY <1>0, <1>4 DEF Publish, Goto, counters, ring, Types, Phases
<1>5. ASSUME NEW w \in Workers, LoadTail(w) PROVE Phases'
  BY <1>0, <1>5 DEF LoadTail, Goto, counters, ring, Types, Phases
<1>6. ASSUME NEW w \in Workers, LoadSeq(w) PROVE Phases'
  BY <1>0, <1>6 DEF LoadSeq, Goto, counters, ring, Types, Phases
<1>7. ASSUME NEW w \in Workers, Claim(w) PROVE Phases'
  BY <1>0, <1>7 DEF Claim, Goto, counters, ring, Types, Phases
<1>8. ASSUME NEW w \in Workers, ClaimFails(w) PROVE Phases'
  BY <1>0, <1>8 DEF ClaimFails, Goto, counters, ring, Types, Phases
<1>9. ASSUME NEW w \in Workers, Take(w) PROVE Phases'
  BY <1>0, <1>9 DEF Take, Goto, counters, ring, Types, Phases
<1>10. ASSUME NEW w \in Workers, GiveBack(w) PROVE Phases'
  BY <1>0, <1>10 DEF GiveBack, Goto, counters, ring, Types, Phases
<1>11. ASSUME NEW w \in Workers, FoundNothing(w) PROVE Phases'
  BY <1>0, <1>11 DEF FoundNothing, Goto, counters, ring, Types, Phases
<1>12. ASSUME NEW w \in Workers, Finish(w) PROVE Phases'
  BY <1>0, <1>12 DEF Finish, Goto, counters, ring, Types, Phases
<1>13. ASSUME NEW started \in SUBSET Workers, RunStart(started) PROVE Phases'
  BY <1>0, <1>13 DEF RunStart, Goto, counters, ring, Types, Phases
<1>14. CASE AllDone
  BY <1>0, <1>14 DEF AllDone, Goto, counters, ring, Types, Phases
<1>15. CASE Join
  BY <1>0, <1>15 DEF Join, Goto, counters, ring, Types, Phases
<1>16. CASE Destroy
  BY <1>0, <1>16 DEF Destroy, Goto, counters, ring, Types, Phases
<1>17. CASE UNCHANGED vars
  BY <1>0, <1>17 DEF vars, counters, ring, Types, Phases
<1> QED BY <1>1, <1>2, <1>3, <1>4, <1>5, <1>6, <1>7, <1>8, <1>9, <1>10, <1>11, <1>12,
           <1>13, <1>14, <1>15, <1>16, <1>17 DEF Next, Enqueue, Dequeue

\* A thread holds a task from when it gets it to when it passes it on.
LEMMA HandsStep == IInv /\ [Next]_vars => Hands'
<1> SUFFICES ASSUME IInv, [Next]_vars PROVE Hands'
  OBVIOUS
<1> USE ThreadFacts, TaskAssumption
<1>0. Types /\ Phases /\ Hands
  BY DEF IInv, Ring
<1>1. ASSUME NEW t \in Threads, NEW k \in Tasks, Submit(t, k) PROVE Hands'
  BY <1>0, <1>1 DEF Submit, Goto, counters, ring, Types, Phases, Hands, Ptr
<1>2. ASSUME NEW t \in Threads, Reserve(t) PROVE Hands'
  BY <1>0, <1>2 DEF Reserve, Goto, counters, ring, Types, Phases, Hands, Ptr
<1>3. ASSUME NEW t \in Threads, Fill(t) PROVE Hands'
  BY <1>0, <1>3 DEF Fill, Goto, counters, ring, Types, Phases, Hands, Ptr
<1>4. ASSUME NEW t \in Threads, Publish(t) PROVE Hands'
  BY <1>0, <1>4 DEF Publish, Goto, counters, ring, Types, Phases, Hands, Ptr
<1>5. ASSUME NEW w \in Workers, LoadTail(w) PROVE Hands'
  BY <1>0, <1>5 DEF LoadTail, Goto, counters, ring, Types, Phases, Hands, Ptr
<1>6. ASSUME NEW w \in Workers, LoadSeq(w) PROVE Hands'
  BY <1>0, <1>6 DEF LoadSeq, Goto, counters, ring, Types, Phases, Hands, Ptr
<1>7. ASSUME NEW w \in Workers, Claim(w) PROVE Hands'
  BY <1>0, <1>7 DEF Claim, Goto, counters, ring, Types, Phases, Hands, Ptr
<1>8. ASSUME NEW w \in Workers, ClaimFails(w) PROVE Hands'
  BY <1>0, <1>8 DEF ClaimFails, Goto, counters, ring, Types, Phases, Hands, Ptr
<1>9. ASSUME NEW w \in Workers, Take(w) PROVE Hands'
  <2>1. payload[Slot(pos[w])] = order[pos[w] + 1] /\ order[pos[w] + 1] \in Tasks
    <3>1. pos[w] \in Nat /\ pos[w] < Len(order)
      BY <1>0, <1>9 DEF Take, IInv, Ring, Positions, Contents, Consuming, Types
    <3>2. pos[w] + 1 \in 1..Len(order)
      BY <1>0, <3>1 DEF Types
    <3>3. order[pos[w] + 1] \in Tasks
      BY <1>0, <3>2 DEF Types
    <3> QED BY <1>9, <3>3 DEF Take, IInv, Contents
  <2> QED BY <1>0, <1>9, <2>1 DEF Take, Goto, Types, Hands
<1>10. ASSUME NEW w \in Workers, GiveBack(w) PROVE Hands'
  BY <1>0, <1>10 DEF GiveBack, Goto, counters, ring, Types, Phases, Hands, Ptr
<1>11. ASSUME NEW w \in Workers, FoundNothing(w) PROVE Hands'
  BY <1>0, <1>11 DEF FoundNothing, Goto, counters, ring, Types, Phases, Hands, Ptr
<1>12. ASSUME NEW w \in Workers, Finish(w) PROVE Hands'
  BY <1>0, <1>12 DEF Finish, Goto, counters, ring, Types, Phases, Hands, Ptr
<1>13. ASSUME NEW started \in SUBSET Workers, RunStart(started) PROVE Hands'
  <2>1. /\ \A t \in Threads : arg[t] = NULL /\ task[t] = NULL
        /\ arg' = arg /\ task' = task
    BY <1>0, <1>13 DEF RunStart, Phases, Hands, Threads
  <2>2. \A t \in Threads : pc'[t] \in {"wait", "load", "none"}
    BY <1>13 DEF RunStart
  <2> QED BY <2>1, <2>2 DEF Hands
<1>14. CASE AllDone
  BY <1>0, <1>14 DEF AllDone, Goto, counters, ring, Types, Phases, Hands, Ptr
<1>15. CASE Join
  <2>1. /\ \A t \in Threads : arg[t] = NULL /\ task[t] = NULL
        /\ arg' = arg /\ task' = task
    BY <1>0, <1>15 DEF Join, Hands, Threads
  <2>2. \A t \in Threads : pc'[t] \in {"out", "none"}
    BY <1>15 DEF Join
  <2> QED BY <2>1, <2>2 DEF Hands
<1>16. CASE Destroy
  BY <1>0, <1>16 DEF Destroy, Goto, counters, ring, Types, Phases, Hands, Ptr
<1>17. CASE UNCHANGED vars
  BY <1>0, <1>17 DEF vars, counters, ring, Types, Phases, Hands, Ptr
<1> QED BY <1>1, <1>2, <1>3, <1>4, <1>5, <1>6, <1>7, <1>8, <1>9, <1>10, <1>11, <1>12,
           <1>13, <1>14, <1>15, <1>16, <1>17 DEF Next, Enqueue, Dequeue

\* No position is handed out twice, to producers or to consumers.
LEMMA PositionsStep == IInv /\ [Next]_vars => Positions'
<1> SUFFICES ASSUME IInv, [Next]_vars PROVE Positions'
  OBVIOUS
<1> USE ThreadFacts
<1>0. Types /\ Phases /\ Positions
  BY DEF IInv, Ring
<1>1. ASSUME NEW t \in Threads, NEW k \in Tasks, Submit(t, k) PROVE Positions'
  BY <1>0, <1>1 DEF Submit, Goto, counters, ring, Types, Phases, Positions, Producing, Consuming
<1>2. ASSUME NEW t \in Threads, Reserve(t) PROVE Positions'
  BY <1>0, <1>2 DEF Reserve, Goto, counters, ring, Types, Phases, Positions, Producing,
                    Consuming
<1>3. ASSUME NEW t \in Threads, Fill(t) PROVE Positions'
  BY <1>0, <1>3 DEF Fill, Goto, counters, ring, Types, Phases, Positions, Producing, Consuming
<1>4. ASSUME NEW t \in Threads, Publish(t) PROVE Positions'
  BY <1>0, <1>4 DEF Publish, Goto, counters, ring, Types, Phases, Positions, Producing,
                    Consuming
<1>5. ASSUME NEW w \in Workers, LoadTail(w) PROVE Positions'
  BY <1>0, <1>5 DEF LoadTail, Goto, counters, ring, Types, Phases, Positions, Producing,
                    Consuming
<1>6. ASSUME NEW w \in Workers, LoadSeq(w) PROVE Positions'
  BY <1>0, <1>6 DEF LoadSeq, Goto, counters, ring, Types, Phases, Positions, Producing,
                    Consuming
<1>7. ASSUME NEW w \in Workers, Claim(w) PROVE Positions'
  <2>1. /\ pc' = [pc EXCEPT ![w] = "take"] /\ pos' = pos /\ head' = head
        /\ pos[w] = tail /\ tail' = tail + 1 /\ tail \in Nat /\ pc[w] = "claim"
    BY <1>0, <1>7 DEF Claim, Goto, Unclaimed, Types
  <2>2. \A t \in Threads : t # w => pc'[t] = pc[t]
    BY <1>0, <2>1 DEF Types
  <2>3. pc'[w] = "take"
    BY <1>0, <2>1 DEF Types
  <2>4. \A t \in Threads : pos[t] \in Nat
    BY <1>0 DEF Types
  <2> QED BY <1>0, <2>1, <2>2, <2>3, <2>4 DEF Positions, Producing, Consuming
<1>8. ASSUME NEW w \in Workers, ClaimFails(w) PROVE Positions'
  BY <1>0, <1>8 DEF ClaimFails, Goto, counters, ring, Types, Phases, Positions, Producing,
                    Consuming
<1>9. ASSUME NEW w \in Workers, Take(w) PROVE Positions'
  BY <1>0, <1>9 DEF Take, Goto, counters, ring, Types, Phases, Positions, Producing, Consuming
<1>10. ASSUME NEW w \in Workers, GiveBack(w) PROVE Positions'
  BY <1>0, <1>10 DEF GiveBack, Goto, counters, ring, Types, Phases, Positions, Producing,
                     Consuming
<1>11. ASSUME NEW w \in Workers, FoundNothing(w) PROVE Positions'
  BY <1>0, <1>11 DEF FoundNothing, Goto, counters, ring, Types, Phases, Positions, Producing,
                     Consuming
<1>12. ASSUME NEW w \in Workers, Finish(w) PROVE Positions'
  BY <1>0, <1>12 DEF Finish, Goto, counters, ring, Types, Phases, Positions, Producing,
                     Consuming
<1>13. ASSUME NEW started \in SUBSET Workers, RunStart(started) PROVE Positions'
  <2>1. \A t \in Threads : pc'[t] \in {"out", "wait", "load", "none"} /\ pos'[t] = pos[t]
    BY <1>13 DEF RunStart
  <2> QED BY <2>1 DEF Positions, Producing, Consuming
<1>14. CASE AllDone
  BY <1>0, <1>14 DEF AllDone, Goto, counters, ring, Types, Phases, Positions, Producing,
                     Consuming
<1>15. CASE Join
  <2>1. \A t \in Threads : pc'[t] \in {"out", "wait", "load", "none"} /\ pos'[t] = pos[t]
    BY <1>15 DEF Join
  <2> QED BY <2>1 DEF Positions, Producing, Consuming
<1>16. CASE Destroy
  <2>1. \A t \in Threads : pc'[t] \in {"gone", "none"}
    BY <1>0, <1>16 DEF Destroy, Goto, Types, Phases, Threads
  <2>2. pos' = pos /\ head' = head
    BY <1>16 DEF Destroy
  <2> QED BY <2>1, <2>2 DEF Positions, Producing, Consuming
<1>17. CASE UNCHANGED vars
  BY <1>0, <1>17 DEF vars, counters, ring, Types, Phases, Positions, Producing, Consuming
<1> QED BY <1>1, <1>2, <1>3, <1>4, <1>5, <1>6, <1>7, <1>8, <1>9, <1>10, <1>11, <1>12,
           <1>13, <1>14, <1>15, <1>16, <1>17 DEF Next, Enqueue, Dequeue

\* While a thread has its turn, the sequence number of its slot stays.
LEMMA TurnsStep == IInv /\ [Next]_vars => Turns'
<1> SUFFICES ASSUME IInv, [Next]_vars PROVE Turns'
  OBVIOUS
<1> USE ThreadFacts, SlotType, SlotNext, SlotRound
<1>0. Types /\ Phases /\ Positions /\ Turns
  BY DEF IInv, Ring
<1>1. ASSUME NEW t \in Threads, NEW k \in Tasks, Submit(t, k) PROVE Turns'
  BY <1>0, <1>1 DEF Submit, Goto, counters, ring, Types, Phases, Positions, Turns, Producing,
                    Consuming, Unclaimed, Returned, Diff, NextRound
<1>2. ASSUME NEW t \in Threads, Reserve(t) PROVE Turns'
  BY <1>0, <1>2 DEF Reserve, Goto, counters, ring, Types, Phases, Positions, Turns, Producing,
                    Consuming, Unclaimed, Returned, Diff, NextRound
<1>3. ASSUME NEW t \in Threads, Fill(t) PROVE Turns'
  BY <1>0, <1>3 DEF Fill, Goto, counters, ring, Types, Phases, Positions, Turns, Producing,
                    Consuming, Unclaimed, Returned, Diff, NextRound
<1>4. ASSUME NEW t \in Threads, Publish(t) PROVE Turns'
  <2>1. /\ pos' = pos /\ tail' = tail /\ pc[t] = "publish"
        /\ sequence[Slot(pos[t])] = pos[t]
    BY <1>0, <1>4 DEF Publish, Turns
  <2>2. \A u \in Threads : u # t => pc'[u] = pc[u]
    BY <1>0, <1>4 DEF Publish, Goto, Types
  <2>3. pc'[t] \in {"out", "run"}
    BY <1>0, <1>4 DEF Publish, Goto, Types
  <2>4. \A i \in Slots : i # Slot(pos[t]) => sequence'[i] = sequence[i]
    BY <1>0, <1>4 DEF Publish, Types
  <2>5. \A u \in Threads : pos[u] \in Nat
    BY <1>0 DEF Types
  <2>6. ASSUME NEW u \in Threads, u # t,
               \/ pc[u] = "publish"
               \/ Consuming(u)
               \/ pc[u] = "claim" /\ pos[u] = tail
        PROVE  sequence'[Slot(pos[u])] = sequence[Slot(pos[u])]
    <3>1. Slot(pos[u]) # Slot(pos[t])
      BY <1>0, <2>1, <2>5, <2>6 DEF Turns, Positions, Producing
    <3> QED BY <2>4, <2>5, <3>1
  <2>7. ASSUME NEW u \in Threads, pc'[u] = "publish"
        PROVE  sequence'[Slot(pos[u])] = pos[u]
    <3>1. u # t /\ pc[u] = pc'[u]
      BY <2>2, <2>3, <2>7
    <3>2. sequence'[Slot(pos[u])] = sequence[Slot(pos[u])]
      BY <2>6, <2>7, <3>1 DEF Consuming
    <3> QED BY <1>0, <2>7, <3>1, <3>2 DEF Turns
  <2>8. ASSUME NEW u \in Threads, pc'[u] = "claim", pos[u] = tail
        PROVE  sequence'[Slot(pos[u])] = pos[u] + 1
    BY <1>0, <2>2, <2>3, <2>6, <2>8 DEF Turns
  <2>9. ASSUME NEW u \in Threads, pc'[u] \in {"take", "return"}
        PROVE  sequence'[Slot(pos[u])] = pos[u] + 1
    <3>1. u # t /\ pc[u] = pc'[u]
      BY <2>2, <2>3, <2>9
    <3>2. sequence'[Slot(pos[u])] = sequence[Slot(pos[u])]
      BY <2>6, <2>9, <3>1 DEF Consuming
    <3> QED BY <1>0, <2>9, <3>1, <3>2 DEF Turns, Consuming
  <2> QED BY <2>1, <2>7, <2>8, <2>9 DEF Turns, Consuming
<1>5. ASSUME NEW w \in Workers, LoadTail(w) PROVE Turns'
  BY <1>0, <1>5 DEF LoadTail, Goto, counters, ring, Types, Phases, Positions, Turns, Producing,
                    Consuming, Unclaimed, Returned, Diff, NextRound
<1>6. ASSUME NEW w \in Workers, LoadSeq(w) PROVE Turns'
  <2>1. pos' = pos /\ sequence' = sequence /\ tail' = tail
    BY <1>6 DEF LoadSeq, ring
  <2>2. \A t \in Threads : t # w => pc'[t] = pc[t]
    BY <1>0, <1>6 DEF LoadSeq, Goto, Types
  <2>3. /\ pc'[w] \in {"claim", "empty", "load"}
        /\ pc'[w] = "claim" => Diff(pos[w]) = 0
    BY <1>0, <1>6 DEF LoadSeq, Goto, Types
  <2>4. Diff(pos[w]) = 0 => sequence[Slot(pos[w])] = pos[w] + 1
    BY <1>0 DEF Diff, Types
  <2> QED BY <1>0, <2>1, <2>2, <2>3, <2>4 DEF Turns, Consuming
<1>7. ASSUME NEW w \in Workers, Claim(w) PROVE Turns'
  <2>1. /\ pos' = pos /\ sequence' = sequence
        /\ pos[w] = tail /\ tail' = tail + 1 /\ tail \in Nat /\ pc[w] = "claim"
    BY <1>0, <1>7 DEF Claim, Unclaimed, Types
  <2>2. \A t \in Threads : t # w => pc'[t] = pc[t]
    BY <1>0, <1>7 DEF Claim, Goto, Types
  <2>3. pc'[w] = "take"
    BY <1>0, <1>7 DEF Claim, Goto, Types
  <2>4. \A t \in Threads : pos[t] \in Nat
    BY <1>0 DEF Types
  <2>5. sequence[Slot(pos[w])] = pos[w] + 1
    BY <1>0, <2>1 DEF Turns
  <2>6. \A t \in Threads : pc[t] = "claim" => pos[t] # tail + 1
    BY <1>0, <2>1, <2>4 DEF Positions
  <2> QED BY <1>0, <2>1, <2>2, <2>3, <2>4, <2>5, <2>6 DEF Turns, Consuming
<1>8. ASSUME NEW w \in Workers, ClaimFails(w) PROVE Turns'
  BY <1>0, <1>8 DEF ClaimFails, Goto, counters, ring, Types, Phases, Positions, Turns,
                    Producing, Consuming, Unclaimed, Returned, Diff, NextRound
<1>9. ASSUME NEW w \in Workers, Take(w) PROVE Turns'
  BY <1>0, <1>9 DEF Take, Goto, counters, ring, Types, Phases, Positions, Turns, Producing,
                    Consuming, Unclaimed, Returned, Diff, NextRound
<1>10. ASSUME NEW w \in Workers, GiveBack(w) PROVE Turns'
  <2>1. /\ pos' = pos /\ tail' = tail /\ Consuming(w)
        /\ sequence[Slot(pos[w])] = pos[w] + 1 /\ pos[w] < tail
    BY <1>0, <1>10 DEF GiveBack, Turns, Positions, Consuming
  <2>2. \A u \in Threads : u # w => pc'[u] = pc[u]
    BY <1>0, <1>10 DEF GiveBack, Goto, Types
  <2>3. pc'[w] \in {"empty", "run"}
    BY <1>0, <1>10 DEF GiveBack, Goto, Types
  <2>4. \A i \in Slots : i # Slot(pos[w]) => sequence'[i] = sequence[i]
    BY <1>0, <1>10 DEF GiveBack, Types
  <2>5. \A u \in Threads : pos[u] \in Nat
    BY <1>0 DEF Types
  <2>6. ASSUME NEW u \in Threads, u # w,
               \/ pc[u] = "publish"
               \/ Consuming(u)
               \/ pc[u] = "claim" /\ pos[u] = tail
        PROVE  sequence'[Slot(pos[u])] = sequence[Slot(pos[u])]
    <3>1. Slot(pos[u]) # Slot(pos[w])
      BY <1>0, <2>1, <2>5, <2>6 DEF Turns, Positions
    <3> QED BY <2>4, <2>5, <3>1
  <2>7. ASSUME NEW u \in Threads, pc'[u] = "publish"
        PROVE  sequence'[Slot(pos[u])] = pos[u]
    <3>1. u # w /\ pc[u] = pc'[u]
      BY <2>2, <2>3, <2>7
    <3>2. sequence'[Slot(pos[u])] = sequence[Slot(pos[u])]
      BY <2>6, <2>7, <3>1 DEF Consuming
    <3> QED BY <1>0, <2>7, <3>1, <3>2 DEF Turns
  <2>8. ASSUME NEW u \in Threads, pc'[u] = "claim", pos[u] = tail
        PROVE  sequence'[Slot(pos[u])] = pos[u] + 1
    BY <1>0, <2>2, <2>3, <2>6, <2>8 DEF Turns
  <2>9. ASSUME NEW u \in Threads, pc'[u] \in {"take", "return"}
        PROVE  sequence'[Slot(pos[u])] = pos[u] + 1
    <3>1. u # w /\ pc[u] = pc'[u]
      BY <2>2, <2>3, <2>9
    <3>2. sequence'[Slot(pos[u])] = sequence[Slot(pos[u])]
      BY <2>6, <2>9, <3>1 DEF Consuming
    <3> QED BY <1>0, <2>9, <3>1, <3>2 DEF Turns, Consuming
  <2> QED BY <2>1, <2>7, <2>8, <2>9 DEF Turns, Consuming
<1>11. ASSUME NEW w \in Workers, FoundNothing(w) PROVE Turns'
  BY <1>0, <1>11 DEF FoundNothing, Goto, counters, ring, Types, Phases, Positions, Turns,
                     Producing, Consuming, Unclaimed, Returned, Diff, NextRound
<1>12. ASSUME NEW w \in Workers, Finish(w) PROVE Turns'
  BY <1>0, <1>12 DEF Finish, Goto, counters, ring, Types, Phases, Positions, Turns, Producing,
                     Consuming, Unclaimed, Returned, Diff, NextRound
<1>13. ASSUME NEW started \in SUBSET Workers, RunStart(started) PROVE Turns'
  <2>1. \A t \in Threads : pc'[t] \in {"out", "wait", "load", "none"} /\ pos'[t] = pos[t]
    BY <1>13 DEF RunStart
  <2> QED BY <2>1 DEF Turns, Producing, Consuming
<1>14. CASE AllDone
  BY <1>0, <1>14 DEF AllDone, Goto, counters, ring, Types, Phases, Positions, Turns, Producing,
                     Consuming, Unclaimed, Returned, Diff, NextRound
<1>15. CASE Join
  <2>1. \A t \in Threads : pc'[t] \in {"out", "wait", "load", "none"} /\ pos'[t] = pos[t]
    BY <1>15 DEF Join
  <2> QED BY <2>1 DEF Turns, Producing, Consuming
<1>16. CASE Destroy
  <2>1. \A t \in Threads : pc'[t] \in {"gone", "none"}
    BY <1>0, <1>16 DEF Destroy, Goto, Types, Phases, Threads
  <2>2. pos' = pos /\ head' = head
    BY <1>16 DEF Destroy
  <2> QED BY <2>1, <2>2 DEF Turns, Producing, Consuming
<1>17. CASE UNCHANGED vars
  BY <1>0, <1>17 DEF vars, counters, ring, Types, Phases, Positions, Turns, Producing,
                     Consuming, Unclaimed, Returned, Diff, NextRound
<1> QED BY <1>1, <1>2, <1>3, <1>4, <1>5, <1>6, <1>7, <1>8, <1>9, <1>10, <1>11, <1>12,
           <1>13, <1>14, <1>15, <1>16, <1>17 DEF Next, Enqueue, Dequeue

\* A task stays at its position.
LEMMA ContentsStep == IInv /\ [Next]_vars => Contents'
<1> SUFFICES ASSUME IInv, [Next]_vars PROVE Contents'
  OBVIOUS
<1> USE ThreadFacts, SlotType, SlotNext, SlotRound
<1>0. Types /\ Phases /\ Hands /\ Positions /\ Turns /\ Contents
  BY DEF IInv, Ring
<1>a. \A t \in Threads : pos[t] \in Nat
  BY <1>0 DEF Types
<1>1. ASSUME NEW t \in Threads, NEW k \in Tasks, Submit(t, k) PROVE Contents'
  BY <1>0, <1>1 DEF Submit, Goto, counters, ring, Types, Contents, Ready
<1>2. ASSUME NEW t \in Threads, Reserve(t) PROVE Contents'
  <2>1. /\ pos' = [pos EXCEPT ![t] = head] /\ head' = head + 1 /\ tail' = tail
        /\ order' = Append(order, arg[t]) /\ pc' = [pc EXCEPT ![t] = "fill"]
        /\ sequence' = sequence /\ payload' = payload /\ arg' = arg /\ task' = task
        /\ pc[t] = "reserve"
    BY <1>2 DEF Reserve, Goto
  <2>2. /\ order'[head + 1] = arg[t]
        /\ \A p \in Nat : p < head => order'[p + 1] = order[p + 1]
    <3>1. arg[t] \in Tasks
      BY <1>0, <2>1 DEF Hands, Types, Ptr
    <3>2. order \in Seq(Tasks) /\ Len(order) = head
      BY <1>0 DEF Types
    <3> QED BY <2>1, <3>1, <3>2
  <2>3. /\ pc'[t] = "fill" /\ pos'[t] = head
        /\ \A u \in Threads : u # t => pc'[u] = pc[u] /\ pos'[u] = pos[u]
    BY <1>0, <2>1 DEF Types
  <2>4. head \in Nat /\ tail \in Nat
    BY <1>0 DEF Types
  <2>5. ASSUME NEW u \in Threads, Producing(u) \/ Consuming(u)
        PROVE  u # t /\ order'[pos[u] + 1] = order[pos[u] + 1]
    <3>1. pos[u] < head
      BY <1>0, <1>a, <2>4, <2>5 DEF Positions, Contents
    <3>2. u # t
      BY <2>1, <2>5 DEF Producing, Consuming
    <3> QED BY <1>a, <2>2, <3>1, <3>2
  <2>6. ASSUME NEW u \in Threads, pc'[u] = "fill"
        PROVE  arg'[u] = order'[pos'[u] + 1]
    <3>1. CASE u = t
      BY <2>1, <2>2, <2>3, <3>1
    <3>2. CASE u # t
      <4>1. pc[u] = "fill" /\ pos'[u] = pos[u]
        BY <2>3, <2>6, <3>2
      <4>2. arg[u] = order[pos[u] + 1]
        BY <1>0, <4>1 DEF Contents
      <4>3. order'[pos[u] + 1] = order[pos[u] + 1]
        BY <2>5, <4>1 DEF Producing
      <4> QED BY <2>1, <4>1, <4>2, <4>3
    <3> QED BY <3>1, <3>2
  <2>7. ASSUME NEW u \in Threads, pc'[u] \in {"publish", "take"}
        PROVE  payload'[Slot(pos'[u])] = order'[pos'[u] + 1]
    <3>1. u # t /\ pc[u] = pc'[u] /\ pos'[u] = pos[u]
      BY <2>3, <2>7
    <3>2. payload[Slot(pos[u])] = order[pos[u] + 1]
      BY <1>0, <2>7, <3>1 DEF Contents
    <3>3. order'[pos[u] + 1] = order[pos[u] + 1]
      BY <2>5, <2>7, <3>1 DEF Producing, Consuming
    <3> QED BY <2>1, <3>1, <3>2, <3>3
  <2>8. ASSUME NEW u \in Threads, pc'[u] = "return"
        PROVE  task'[u] = order'[pos'[u] + 1]
    <3>1. u # t /\ pc[u] = pc'[u] /\ pos'[u] = pos[u]
      BY <2>3, <2>8
    <3> QED BY <1>0, <2>1, <2>5, <2>8, <3>1 DEF Contents, Consuming
  <2>9. ASSUME NEW p \in Nat, Ready(p)'
        PROVE  p < head' /\ payload'[Slot(p)] = order'[p + 1]
    <3>1. Ready(p)
      BY <2>1, <2>9 DEF Ready
    <3>2. p < head /\ payload[Slot(p)] = order[p + 1]
      BY <1>0, <3>1 DEF Contents
    <3>3. order'[p + 1] = order[p + 1]
      BY <2>2, <3>2
    <3>4. p < head'
      BY <2>1, <2>4, <3>2
    <3> QED BY <2>1, <3>2, <3>3, <3>4
  <2>10. tail' <= head'
    BY <1>0, <2>1, <2>4 DEF Contents
  <2> QED BY <2>6, <2>7, <2>8, <2>9, <2>10 DEF Contents
<1>3. ASSUME NEW t \in Threads, Fill(t) PROVE Contents'
  <2>1. /\ pos' = pos /\ head' = head /\ tail' = tail /\ order' = order
        /\ sequence' = sequence /\ task' = task /\ pc[t] = "fill"
        /\ sequence[Slot(pos[t])] = pos[t]
    BY <1>3 DEF Fill, Returned
  <2>2. /\ pc'[t] = "publish"
        /\ \A u \in Threads : u # t => pc'[u] = pc[u] /\ arg'[u] = arg[u]
    BY <1>0, <1>3 DEF Fill, Goto, Types
  <2>3. /\ payload'[Slot(pos[t])] = arg[t]
        /\ \A i \in Slots : i # Slot(pos[t]) => payload'[i] = payload[i]
    BY <1>0, <1>a, <1>3 DEF Fill, Types
  <2>4. \A p \in Nat : Ready(p) => Slot(p) # Slot(pos[t])
    BY <1>a, <2>1 DEF Ready
  <2>5. \A u \in Threads : u # t /\ pc[u] \in {"publish", "take"} => Slot(pos[u]) # Slot(pos[t])
    BY <1>0, <1>a, <2>1 DEF Turns, Positions, Producing, Consuming
  <2>6. \A p \in Nat : Ready(p)' => p < head' /\ payload'[Slot(p)] = order'[p + 1]
    BY <1>0, <2>1, <2>3, <2>4 DEF Contents, Ready
  <2>7. \A u \in Threads : pc'[u] \in {"publish", "take"} =>
          payload'[Slot(pos'[u])] = order'[pos'[u] + 1]
    BY <1>0, <1>a, <2>1, <2>2, <2>3, <2>5 DEF Contents
  <2> QED BY <1>0, <2>1, <2>2, <2>6, <2>7 DEF Contents
<1>4. ASSUME NEW t \in Threads, Publish(t) PROVE Contents'
  <2>1. /\ pos' = pos /\ head' = head /\ tail' = tail /\ order' = order
        /\ payload' = payload /\ arg' = arg /\ task' = task /\ pc[t] = "publish"
        /\ pos[t] < head /\ payload[Slot(pos[t])] = order[pos[t] + 1]
    BY <1>0, <1>4 DEF Publish, Positions, Producing, Contents
  <2>2. /\ pc'[t] \in {"out", "run"}
        /\ \A u \in Threads : u # t => pc'[u] = pc[u]
    BY <1>0, <1>4 DEF Publish, Goto, Types
  <2>3. /\ sequence'[Slot(pos[t])] = pos[t] + 1
        /\ \A i \in Slots : i # Slot(pos[t]) => sequence'[i] = sequence[i]
    BY <1>0, <1>a, <1>4 DEF Publish, Types
  <2>4. \A p \in Nat : Ready(p)' => p = pos[t] \/ Ready(p)
    BY <1>a, <2>1, <2>3 DEF Ready
  <2>5. \A p \in Nat : Ready(p)' => p < head' /\ payload'[Slot(p)] = order'[p + 1]
    BY <1>0, <2>1, <2>4 DEF Contents
  <2> QED BY <1>0, <2>1, <2>2, <2>5 DEF Contents
<1>5. ASSUME NEW w \in Workers, LoadTail(w) PROVE Contents'
  BY <1>0, <1>5 DEF LoadTail, Goto, counters, ring, Types, Contents, Ready
<1>6. ASSUME NEW w \in Workers, LoadSeq(w) PROVE Contents'
  BY <1>0, <1>6 DEF LoadSeq, Goto, counters, ring, Types, Contents, Ready
<1>7. ASSUME NEW w \in Workers, Claim(w) PROVE Contents'
  <2>1. /\ pos' = pos /\ head' = head /\ tail' = tail + 1 /\ order' = order
        /\ sequence' = sequence /\ payload' = payload /\ arg' = arg /\ task' = task
        /\ pc[w] = "claim" /\ pos[w] = tail
    BY <1>7 DEF Claim, Unclaimed
  <2>2. /\ pc'[w] = "take"
        /\ \A u \in Threads : u # w => pc'[u] = pc[u]
    BY <1>0, <1>7 DEF Claim, Goto, Types
  <2>3. Ready(tail) /\ tail \in Nat
    BY <1>0, <2>1 DEF Turns, Ready, Types
  <2>4. tail < head /\ payload[Slot(tail)] = order[tail + 1]
    BY <1>0, <2>3 DEF Contents
  <2>5. \A p \in Nat : Ready(p)' => Ready(p)
    BY <2>1, <2>3 DEF Ready
  <2>6. tail' <= head'
    BY <1>0, <2>1, <2>4 DEF Types
  <2>7. \A p \in Nat : Ready(p)' => p < head' /\ payload'[Slot(p)] = order'[p + 1]
    BY <1>0, <2>1, <2>5 DEF Contents
  <2> QED BY <1>0, <2>1, <2>2, <2>4, <2>6, <2>7 DEF Contents
<1>8. ASSUME NEW w \in Workers, ClaimFails(w) PROVE Contents'
  BY <1>0, <1>8 DEF ClaimFails, Goto, counters, ring, Types, Contents, Ready
<1>9. ASSUME NEW w \in Workers, Take(w) PROVE Contents'
  <2>1. /\ pos' = pos /\ head' = head /\ tail' = tail /\ order' = order
        /\ sequence' = sequence /\ arg' = arg /\ pc[w] = "take" /\ Consuming(w)
        /\ sequence[Slot(pos[w])] = pos[w] + 1 /\ pos[w] < tail
        /\ payload[Slot(pos[w])] = order[pos[w] + 1]
    BY <1>0, <1>9 DEF Take, Turns, Positions, Contents, Consuming
  <2>2. /\ pc'[w] = "return" /\ task'[w] = payload[Slot(pos[w])]
        /\ \A u \in Threads : u # w => pc'[u] = pc[u] /\ task'[u] = task[u]
    BY <1>0, <1>9 DEF Take, Goto, Types
  <2>3. \A i \in Slots : i # Slot(pos[w]) => payload'[i] = payload[i]
    BY <1>0, <1>9 DEF Take, Types
  <2>4. \A p \in Nat : Ready(p) => Slot(p) # Slot(pos[w])
    BY <1>0, <1>a, <2>1 DEF Ready, Types
  <2>5. \A u \in Threads : u # w /\ pc[u] \in {"publish", "take"} => Slot(pos[u]) # Slot(pos[w])
    BY <1>0, <1>a, <2>1 DEF Turns, Positions, Consuming
  <2>6. \A p \in Nat : Ready(p)' => p < head' /\ payload'[Slot(p)] = order'[p + 1]
    BY <1>0, <2>1, <2>3, <2>4 DEF Contents, Ready
  <2>7. \A u \in Threads : pc'[u] \in {"publish", "take"} =>
          payload'[Slot(pos'[u])] = order'[pos'[u] + 1]
    BY <1>0, <1>a, <2>1, <2>2, <2>3, <2>5 DEF Contents
  <2> QED BY <1>0, <2>1, <2>2, <2>6, <2>7 DEF Contents
<1>10. ASSUME NEW w \in Workers, GiveBack(w) PROVE Contents'
  <2>1. /\ pos' = pos /\ head' = head /\ tail' = tail /\ order' = order
        /\ payload' = payload /\ arg' = arg /\ task' = task
    BY <1>10 DEF GiveBack
  <2>2. /\ pc'[w] \in {"empty", "run"}
        /\ \A u \in Threads : u # w => pc'[u] = pc[u]
    BY <1>0, <1>10 DEF GiveBack, Goto, Types
  <2>3. /\ sequence'[Slot(pos[w])] = pos[w] + RingSize
        /\ \A i \in Slots : i # Slot(pos[w]) => sequence'[i] = sequence[i]
    BY <1>0, <1>a, <1>10 DEF GiveBack, NextRound, Types
  <2>4. \A p \in Nat : Ready(p)' => Ready(p)
    <3> SUFFICES ASSUME NEW p \in Nat, Ready(p)' PROVE Ready(p)
      OBVIOUS
    <3>1. Slot(p) # Slot(pos[w])
      <4> SUFFICES ASSUME Slot(p) = Slot(pos[w]) PROVE FALSE
        OBVIOUS
      <4>1. p + 1 = pos[w] + RingSize
        BY <2>3 DEF Ready
      <4>2. Slot(p + 1) = Slot(p)
        BY <1>a, <4>1
      <4> QED BY <4>2
    <3> QED BY <2>1, <2>3, <3>1 DEF Ready
  <2>5. \A p \in Nat : Ready(p)' => p < head' /\ payload'[Slot(p)] = order'[p + 1]
    BY <1>0, <2>1, <2>4 DEF Contents
  <2> QED BY <1>0, <2>1, <2>2, <2>5 DEF Contents
<1>11. ASSUME NEW w \in Workers, FoundNothing(w) PROVE Contents'
  BY <1>0, <1>11 DEF FoundNothing, Goto, counters, ring, Types, Contents, Ready
<1>12. ASSUME NEW w \in Workers, Finish(w) PROVE Contents'
  BY <1>0, <1>12 DEF Finish, Goto, counters, ring, Types, Contents, Ready
<1>13. ASSUME NEW started \in SUBSET Workers, RunStart(started) PROVE Contents'
  <2>1. \A t \in Threads : pc'[t] \in {"wait", "load", "none"}
    BY <1>0, <1>13 DEF RunStart, Goto, Types, Phases, Threads
  <2>2. ring' = ring
    BY <1>13 DEF RunStart
  <2> QED BY <1>0, <2>1, <2>2 DEF Contents, Ready, ring
<1>14. CASE AllDone
  BY <1>0, <1>14 DEF AllDone, Goto, counters, ring, Types, Contents, Ready
<1>15. CASE Join
  <2>1. \A t \in Threads : pc'[t] \in {"out", "none"}
    BY <1>0, <1>15 DEF Join, Goto, Types, Phases, Threads
  <2>2. ring' = ring
    BY <1>15 DEF Join
  <2> QED BY <1>0, <2>1, <2>2 DEF Contents, Ready, ring
<1>16. CASE Destroy
  <2>1. \A t \in Threads : pc'[t] \in {"gone", "none"}
    BY <1>0, <1>16 DEF Destroy, Goto, Types, Phases, Threads
  <2>2. tail' = head /\ head' = head /\ sequence' = sequence /\ tail <= head
    BY <1>0, <1>16 DEF Destroy, Contents
  <2>3. \A p \in Nat : ~Ready(p)'
    BY <1>0, <2>2 DEF Ready, Contents, Types
  <2>4. tail' <= head'
    BY <1>0, <2>2 DEF Types
  <2> QED BY <2>1, <2>3, <2>4 DEF Contents
<1>17. CASE UNCHANGED vars
  BY <1>0, <1>17 DEF Contents, Ready, vars, ring
<1> QED BY <1>1, <1>2, <1>3, <1>4, <1>5, <1>6, <1>7, <1>8, <1>9, <1>10, <1>11, <1>12,
           <1>13, <1>14, <1>15, <1>16, <1>17 DEF Next, Enqueue, Dequeue

\* Whoever reserves a position finds its slot no further than that.
LEMMA LagsStep == IInv /\ [Next]_vars => Lags'
<1> SUFFICES ASSUME IInv, [Next]_vars PROVE Lags'
  OBVIOUS
<1> USE ThreadFacts, SlotType
<1>0. Types /\ Phases /\ Positions /\ Turns /\ Lags /\ tail <= head
  BY DEF IInv, Ring, Contents
<1>a. \A t \in Threads : pos[t] \in Nat
  BY <1>0 DEF Types
<1>1. ASSUME NEW t \in Threads, NEW k \in Tasks, Submit(t, k) PROVE Lags'
  BY <1>0, <1>1 DEF Submit, Goto, counters, ring, Types, Lags, Producing
<1>2. ASSUME NEW t \in Threads, Reserve(t) PROVE Lags'
  <2>1. /\ pos' = [pos EXCEPT ![t] = head] /\ head' = head + 1 /\ tail' = tail
        /\ sequence' = sequence /\ head \in Nat
    BY <1>0, <1>2 DEF Reserve, Types
  <2>2. /\ pc'[t] = "fill" /\ pos'[t] = head
        /\ \A u \in Threads : u # t => pc'[u] = pc[u] /\ pos'[u] = pos[u]
    BY <1>0, <1>2 DEF Reserve, Goto, Types
  <2>3. sequence[Slot(head)] <= head
    BY <1>0, <2>1 DEF Lags
  <2> QED BY <1>0, <2>1, <2>2, <2>3 DEF Lags, Producing
<1>3. ASSUME NEW t \in Threads, Fill(t) PROVE Lags'
  BY <1>0, <1>3 DEF Fill, Goto, counters, ring, Types, Lags, Producing
<1>4. ASSUME NEW t \in Threads, Publish(t) PROVE Lags'
  <2>1. /\ pos' = pos /\ head' = head /\ tail' = tail /\ pc[t] = "publish" /\ Producing(t)
        /\ sequence[Slot(pos[t])] = pos[t] /\ pos[t] < head
    BY <1>0, <1>4 DEF Publish, Turns, Positions, Producing
  <2>2. /\ pc'[t] \in {"out", "run"}
        /\ \A u \in Threads : u # t => pc'[u] = pc[u]
    BY <1>0, <1>4 DEF Publish, Goto, Types
  <2>3. /\ sequence'[Slot(pos[t])] = pos[t] + 1
        /\ \A i \in Slots : i # Slot(pos[t]) => sequence'[i] = sequence[i]
    BY <1>0, <1>a, <1>4 DEF Publish, Types
  <2>4. ASSUME NEW p \in Nat, sequence[Slot(p)] <= p, p # pos[t]
        PROVE  sequence'[Slot(p)] <= p
    BY <1>a, <2>1, <2>3, <2>4
  <2>5. ASSUME NEW p \in Nat, p >= head' PROVE sequence'[Slot(p)] <= p
    BY <1>0, <1>a, <2>1, <2>4, <2>5 DEF Lags, Types
  <2>6. ASSUME NEW u \in Threads, pc'[u] = "fill"
        PROVE  sequence'[Slot(pos[u])] <= pos[u]
    <3>1. pc[u] = "fill" /\ pos[u] # pos[t]
      BY <1>0, <2>1, <2>2, <2>6 DEF Positions, Producing
    <3> QED BY <1>0, <1>a, <2>4, <3>1 DEF Lags
  <2> QED BY <1>0, <2>1, <2>2, <2>5, <2>6 DEF Lags, Producing
<1>5. ASSUME NEW w \in Workers, LoadTail(w) PROVE Lags'
  BY <1>0, <1>5 DEF LoadTail, Goto, counters, ring, Types, Lags, Producing
<1>6. ASSUME NEW w \in Workers, LoadSeq(w) PROVE Lags'
  BY <1>0, <1>6 DEF LoadSeq, Goto, counters, ring, Types, Lags, Producing
<1>7. ASSUME NEW w \in Workers, Claim(w) PROVE Lags'
  <2>1. /\ pos' = pos /\ head' = head /\ tail' = tail + 1 /\ sequence' = sequence
        /\ sequence[Slot(tail)] = tail + 1
    BY <1>0, <1>7 DEF Claim, Unclaimed, Turns
  <2>2. /\ pc'[w] = "take"
        /\ \A u \in Threads : u # w => pc'[u] = pc[u]
    BY <1>0, <1>7 DEF Claim, Goto, Types
  <2>3. ASSUME NEW u \in Threads, Producing(u) PROVE pos[u] # tail
    <3>1. sequence[Slot(pos[u])] <= pos[u]
      <4>1. CASE pc[u] = "fill"
        BY <1>0, <4>1 DEF Lags
      <4>2. CASE pc[u] = "publish"
        BY <1>0, <1>a, <4>2 DEF Turns
      <4> QED BY <2>3, <4>1, <4>2 DEF Producing
    <3>2. tail \in Nat
      BY <1>0 DEF Types
    <3> QED BY <2>1, <3>1, <3>2
  <2>4. ASSUME NEW u \in Threads, pc'[u] \in {"fill", "publish"} PROVE tail' <= pos[u]
    <3>1. Producing(u)
      BY <2>2, <2>4 DEF Producing
    <3>2. tail <= pos[u] /\ pos[u] # tail /\ tail \in Nat
      BY <1>0, <2>3, <3>1 DEF Lags, Types
    <3> QED BY <1>a, <2>1, <3>2
  <2> QED BY <1>0, <2>1, <2>2, <2>4 DEF Lags, Producing
<1>8. ASSUME NEW w \in Workers, ClaimFails(w) PROVE Lags'
  BY <1>0, <1>8 DEF ClaimFails, Goto, counters, ring, Types, Lags, Producing
<1>9. ASSUME NEW w \in Workers, Take(w) PROVE Lags'
  BY <1>0, <1>9 DEF Take, Goto, counters, ring, Types, Lags, Producing
<1>10. ASSUME NEW w \in Workers, GiveBack(w) PROVE Lags'
  <2>1. /\ pos' = pos /\ head' = head /\ tail' = tail
        /\ sequence[Slot(pos[w])] = pos[w] + 1 /\ pos[w] < tail
    BY <1>0, <1>10 DEF GiveBack, Turns, Positions, Consuming
  <2>2. /\ pc'[w] \in {"empty", "run"}
        /\ \A u \in Threads : u # w => pc'[u] = pc[u]
    BY <1>0, <1>10 DEF GiveBack, Goto, Types
  <2>3. /\ sequence'[Slot(pos[w])] = pos[w] + RingSize
        /\ \A i \in Slots : i # Slot(pos[w]) => sequence'[i] = sequence[i]
    BY <1>0, <1>a, <1>10 DEF GiveBack, NextRound, Types
  <2>4. ASSUME NEW p \in Nat, sequence[Slot(p)] <= p PROVE sequence'[Slot(p)] <= p
    <3>1. CASE Slot(p) = Slot(pos[w])
      <4>1. pos[w] < p
        BY <1>a, <2>1, <2>4, <3>1
      <4> QED BY <1>a, <2>3, <3>1, <4>1, SlotFar
    <3>2. CASE Slot(p) # Slot(pos[w])
      BY <2>3, <2>4, <3>2
    <3> QED BY <3>1, <3>2
  <2>5. ASSUME NEW p \in Nat, p >= head' PROVE sequence'[Slot(p)] <= p
    BY <1>0, <2>1, <2>4, <2>5 DEF Lags
  <2>6. ASSUME NEW u \in Threads, pc'[u] = "fill"
        PROVE  sequence'[Slot(pos[u])] <= pos[u]
    BY <1>0, <1>a, <2>2, <2>4, <2>6 DEF Lags
  <2> QED BY <1>0, <2>1, <2>2, <2>5, <2>6 DEF Lags, Producing
<1>11. ASSUME NEW w \in Workers, FoundNothing(w) PROVE Lags'
  BY <1>0, <1>11 DEF FoundNothing, Goto, counters, ring, Types, Lags, Producing
<1>12. ASSUME NEW w \in Workers, Finish(w) PROVE Lags'
  BY <1>0, <1>12 DEF Finish, Goto, counters, ring, Types, Lags, Producing
<1>13. ASSUME NEW started \in SUBSET Workers, RunStart(started) PROVE Lags'
  <2>1. \A t \in Threads : pc'[t] \in {"wait", "load", "none"}
    BY <1>0, <1>13 DEF RunStart, Goto, Types, Phases, Threads
  <2>2. head' = head /\ sequence' = sequence
    BY <1>13 DEF RunStart, ring
  <2> QED BY <1>0, <2>1, <2>2 DEF Lags, Producing
<1>14. CASE AllDone
  BY <1>0, <1>14 DEF AllDone, Goto, counters, ring, Types, Lags, Producing
<1>15. CASE Join
  <2>1. \A t \in Threads : pc'[t] \in {"out", "none"}
    BY <1>0, <1>15 DEF Join, Goto, Types, Phases, Threads
  <2>2. head' = head /\ sequence' = sequence
    BY <1>15 DEF Join, ring
  <2> QED BY <1>0, <2>1, <2>2 DEF Lags, Producing
<1>16. CASE Destroy
  <2>1. \A t \in Threads : pc'[t] \in {"gone", "none"}
    BY <1>0, <1>16 DEF Destroy, Goto, Types, Phases, Threads
  <2>2. head' = head /\ sequence' = sequence
    BY <1>16 DEF Destroy, ring
  <2> QED BY <1>0, <2>1, <2>2 DEF Lags, Producing
<1>17. CASE UNCHANGED vars
  BY <1>0, <1>17 DEF vars, counters, ring, Types, Lags, Producing
<1> QED BY <1>1, <1>2, <1>3, <1>4, <1>5, <1>6, <1>7, <1>8, <1>9, <1>10, <1>11, <1>12,
           <1>13, <1>14, <1>15, <1>16, <1>17 DEF Next, Enqueue, Dequeue

\* A slot without a position is empty.
LEMMA EmptiedStep == IInv /\ [Next]_vars => Emptied'
<1> SUFFICES ASSUME IInv, [Next]_vars PROVE Emptied'
  OBVIOUS
<1> USE ThreadFacts, SlotType
<1>0. Types /\ Phases /\ Positions /\ Turns /\ Emptied /\ Lags
  BY DEF IInv, Ring
<1>a. \A t \in Threads : pos[t] \in Nat
  BY <1>0 DEF Types
<1>1. ASSUME NEW t \in Threads, NEW k \in Tasks, Submit(t, k) PROVE Emptied'
  BY <1>0, <1>1 DEF Submit, Goto, counters, ring, Types, Emptied, Ready
<1>2. ASSUME NEW t \in Threads, Reserve(t) PROVE Emptied'
  BY <1>0, <1>2 DEF Reserve, Goto, counters, ring, Types, Emptied, Ready
<1>3. ASSUME NEW t \in Threads, Fill(t) PROVE Emptied'
  BY <1>0, <1>3 DEF Fill, Goto, counters, ring, Types, Emptied, Ready
<1>4. ASSUME NEW t \in Threads, Publish(t) PROVE Emptied'
  <2> SUFFICES ASSUME NEW i \in Slots, payload[i] # NULL
               PROVE  \/ \E u \in Threads : pc'[u] \in {"publish", "take"} /\ Slot(pos[u]) = i
                      \/ \E p \in Nat : Ready(p)' /\ Slot(p) = i
    BY <1>4 DEF Publish, Emptied
  <2>1. /\ tail' = tail /\ tail <= pos[t] /\ pc[t] = "publish"
        /\ sequence[Slot(pos[t])] = pos[t]
    BY <1>0, <1>4 DEF Publish, Turns, Lags, Producing
  <2>2. \A u \in Threads : u # t => pc'[u] = pc[u]
    BY <1>0, <1>4 DEF Publish, Goto, Types
  <2>3. /\ sequence'[Slot(pos[t])] = pos[t] + 1
        /\ \A j \in Slots : j # Slot(pos[t]) => sequence'[j] = sequence[j]
    BY <1>0, <1>a, <1>4 DEF Publish, Types
  <2>4. CASE i = Slot(pos[t])
    BY <1>a, <2>1, <2>3, <2>4 DEF Ready
  <2>5. CASE i # Slot(pos[t])
    BY <1>0, <2>1, <2>2, <2>3, <2>5 DEF Emptied, Ready
  <2> QED BY <2>4, <2>5
<1>5. ASSUME NEW w \in Workers, LoadTail(w) PROVE Emptied'
  BY <1>0, <1>5 DEF LoadTail, Goto, counters, ring, Types, Emptied, Ready
<1>6. ASSUME NEW w \in Workers, LoadSeq(w) PROVE Emptied'
  BY <1>0, <1>6 DEF LoadSeq, Goto, counters, ring, Types, Emptied, Ready
<1>7. ASSUME NEW w \in Workers, Claim(w) PROVE Emptied'
  <2> SUFFICES ASSUME NEW i \in Slots, payload[i] # NULL
               PROVE  \/ \E u \in Threads : pc'[u] \in {"publish", "take"} /\ Slot(pos[u]) = i
                      \/ \E p \in Nat : Ready(p)' /\ Slot(p) = i
    BY <1>7 DEF Claim, Emptied
  <2>1. tail' = tail + 1 /\ sequence' = sequence /\ pos[w] = tail /\ tail \in Nat
    BY <1>0, <1>7 DEF Claim, Unclaimed, Types
  <2>2. /\ pc[w] = "claim" /\ pc'[w] = "take"
        /\ \A u \in Threads : u # w => pc'[u] = pc[u]
    BY <1>0, <1>7 DEF Claim, Goto, Types
  <2>3. CASE i = Slot(tail)
    BY <2>1, <2>2, <2>3
  <2>4. CASE i # Slot(tail)
    <3>1. ASSUME NEW p \in Nat, Ready(p), Slot(p) = i PROVE Ready(p)'
      BY <2>1, <2>4, <3>1 DEF Ready
    <3> QED BY <1>0, <2>2, <3>1 DEF Emptied
  <2> QED BY <2>3, <2>4
<1>8. ASSUME NEW w \in Workers, ClaimFails(w) PROVE Emptied'
  BY <1>0, <1>8 DEF ClaimFails, Goto, counters, ring, Types, Emptied, Ready
<1>9. ASSUME NEW w \in Workers, Take(w) PROVE Emptied'
  BY <1>0, <1>9 DEF Take, Goto, counters, ring, Types, Emptied, Ready
<1>10. ASSUME NEW w \in Workers, GiveBack(w) PROVE Emptied'
  <2> SUFFICES ASSUME NEW i \in Slots, payload[i] # NULL
               PROVE  \/ \E u \in Threads : pc'[u] \in {"publish", "take"} /\ Slot(pos[u]) = i
                      \/ \E p \in Nat : Ready(p)' /\ Slot(p) = i
    BY <1>10 DEF GiveBack, Emptied
  <2>1. /\ tail' = tail /\ pc[w] = "return"
        /\ sequence[Slot(pos[w])] = pos[w] + 1 /\ pos[w] < tail
    BY <1>0, <1>10 DEF GiveBack, Turns, Positions, Consuming
  <2>2. \A u \in Threads : u # w => pc'[u] = pc[u]
    BY <1>0, <1>10 DEF GiveBack, Goto, Types
  <2>3. \A j \in Slots : j # Slot(pos[w]) => sequence'[j] = sequence[j]
    BY <1>0, <1>10 DEF GiveBack, Types
  <2>4. ASSUME NEW p \in Nat, Ready(p) PROVE Ready(p)'
    <3>1. Slot(p) # Slot(pos[w])
      BY <1>0, <1>a, <2>1, <2>4 DEF Ready, Types
    <3> QED BY <2>1, <2>3, <2>4, <3>1 DEF Ready
  <2> QED BY <1>0, <2>1, <2>2, <2>4 DEF Emptied
<1>11. ASSUME NEW w \in Workers, FoundNothing(w) PROVE Emptied'
  BY <1>0, <1>11 DEF FoundNothing, Goto, counters, ring, Types, Emptied, Ready
<1>12. ASSUME NEW w \in Workers, Finish(w) PROVE Emptied'
  BY <1>0, <1>12 DEF Finish, Goto, counters, ring, Types, Emptied, Ready
<1>13. ASSUME NEW started \in SUBSET Workers, RunStart(started) PROVE Emptied'
  <2>1. \A t \in Threads : pc[t] \notin {"publish", "take"}
    BY <1>0, <1>13 DEF RunStart, Types, Phases, Threads
  <2>2. payload' = payload /\ sequence' = sequence /\ tail' = tail
    BY <1>13 DEF RunStart, ring
  <2> QED BY <1>0, <2>1, <2>2 DEF Emptied, Ready
<1>14. CASE AllDone
  BY <1>0, <1>14 DEF AllDone, Goto, counters, ring, Types, Emptied, Ready
<1>15. CASE Join
  <2>1. \A t \in Threads : pc[t] \notin {"publish", "take"}
    BY <1>0, <1>15 DEF Join, Types, Phases, Threads
  <2>2. payload' = payload /\ sequence' = sequence /\ tail' = tail
    BY <1>15 DEF Join, ring
  <2> QED BY <1>0, <2>1, <2>2 DEF Emptied, Ready
<1>16. CASE Destroy
  <2>1. \A i \in Slots : payload'[i] = NULL
    BY <1>16 DEF Destroy
  <2> QED BY <2>1 DEF Emptied
<1>17. CASE UNCHANGED vars
  BY <1>0, <1>17 DEF Emptied, Ready, vars, ring
<1> QED BY <1>1, <1>2, <1>3, <1>4, <1>5, <1>6, <1>7, <1>8, <1>9, <1>10, <1>11, <1>12,
           <1>13, <1>14, <1>15, <1>16, <1>17 DEF Next, Enqueue, Dequeue

\* A task never gets to a second place.
LEMMA UniqueStep == IInv /\ [Next]_vars => Unique'
<1> SUFFICES ASSUME IInv, [Next]_vars PROVE Unique'
  OBVIOUS
<1> USE ThreadFacts, SlotType
<1>0. Types /\ Unique
  BY DEF IInv, Ring
<1>a. ASSUME payload' = payload, arg' = arg, task' = task PROVE Unique'
  BY <1>0, <1>a DEF Unique
<1>1. ASSUME NEW t \in Threads, NEW k \in Tasks, Submit(t, k) PROVE Unique'
  <2>1. /\ \A i \in Slots : payload[i] # k
        /\ \A u \in Threads : arg[u] # k /\ task[u] # k
    BY <1>1 DEF Submit, Fresh, Waiting, Queued, Executing
  <2>2. /\ payload' = payload /\ task' = task
        /\ arg'[t] = k /\ \A u \in Threads : u # t => arg'[u] = arg[u]
    BY <1>0, <1>1 DEF Submit, ring, Types
  <2> QED BY <1>0, <2>1, <2>2 DEF Unique
<1>2. ASSUME NEW t \in Threads, Reserve(t) PROVE Unique'
  BY <1>a, <1>2 DEF Reserve, ring
<1>3. ASSUME NEW t \in Threads, Fill(t) PROVE Unique'
  <2>1. pos[t] \in Nat /\ Slot(pos[t]) \in Slots
    BY <1>0 DEF Types
  <2>2. /\ payload'[Slot(pos[t])] = arg[t]
        /\ \A i \in Slots : i # Slot(pos[t]) => payload'[i] = payload[i]
        /\ arg'[t] = NULL /\ \A u \in Threads : u # t => arg'[u] = arg[u]
        /\ task' = task
    BY <1>0, <1>3, <2>1 DEF Fill, Types
  <2> QED BY <1>0, <2>2 DEF Unique
<1>4. ASSUME NEW t \in Threads, Publish(t) PROVE Unique'
  BY <1>a, <1>4 DEF Publish, ring
<1>5. ASSUME NEW w \in Workers, LoadTail(w) PROVE Unique'
  BY <1>a, <1>5 DEF LoadTail, ring
<1>6. ASSUME NEW w \in Workers, LoadSeq(w) PROVE Unique'
  BY <1>a, <1>6 DEF LoadSeq, ring
<1>7. ASSUME NEW w \in Workers, Claim(w) PROVE Unique'
  BY <1>a, <1>7 DEF Claim, ring
<1>8. ASSUME NEW w \in Workers, ClaimFails(w) PROVE Unique'
  BY <1>a, <1>8 DEF ClaimFails, ring
<1>9. ASSUME NEW w \in Workers, Take(w) PROVE Unique'
  <2>1. pos[w] \in Nat /\ Slot(pos[w]) \in Slots
    BY <1>0 DEF Types
  <2>2. /\ payload'[Slot(pos[w])] = NULL
        /\ \A i \in Slots : i # Slot(pos[w]) => payload'[i] = payload[i]
        /\ task'[w] = payload[Slot(pos[w])]
        /\ \A u \in Threads : u # w => task'[u] = task[u]
        /\ arg' = arg
    BY <1>0, <1>9, <2>1 DEF Take, Types
  <2> QED BY <1>0, <2>1, <2>2 DEF Unique
<1>10. ASSUME NEW w \in Workers, GiveBack(w) PROVE Unique'
  BY <1>a, <1>10 DEF GiveBack, ring
<1>11. ASSUME NEW w \in Workers, FoundNothing(w) PROVE Unique'
  BY <1>a, <1>11 DEF FoundNothing, ring
<1>12. ASSUME NEW w \in Workers, Finish(w) PROVE Unique'
  <2>1. /\ task'[w] = NULL /\ \A u \in Threads : u # w => task'[u] = task[u]
        /\ arg' = arg /\ payload' = payload
    BY <1>0, <1>12 DEF Finish, Types, ring
  <2> QED BY <1>0, <2>1 DEF Unique
<1>13. ASSUME NEW started \in SUBSET Workers, RunStart(started) PROVE Unique'
  BY <1>a, <1>13 DEF RunStart, ring
<1>14. CASE AllDone
  BY <1>a, <1>14 DEF AllDone, ring
<1>15. CASE Join
  BY <1>a, <1>15 DEF Join, ring
<1>16. CASE Destroy
  <2>1. /\ \A i \in Slots : payload'[i] = NULL
        /\ arg' = arg /\ task' = task
    BY <1>16 DEF Destroy
  <2> QED BY <1>0, <2>1 DEF Unique
<1>17. CASE UNCHANGED vars
  BY <1>a, <1>17 DEF vars, ring
<1> QED BY <1>1, <1>2, <1>3, <1>4, <1>5, <1>6, <1>7, <1>8, <1>9, <1>10, <1>11, <1>12,
           <1>13, <1>14, <1>15, <1>16, <1>17 DEF Next, Enqueue, Dequeue

-----------------------------------------------------------------------------
(***************************************************************************)
(* Where a task is, before and after a step.                               *)
(***************************************************************************)

\* What submit does to tasks.
LEMMA SubmitMoves ==
  ASSUME IInv, NEW t \in Threads, NEW k \in Tasks, Submit(t, k)
  PROVE  /\ ~Waiting(k) /\ ~Executing(k)
         /\ \A j \in Tasks : Waiting(j)' <=> Waiting(j) \/ j = k
         /\ \A j \in Tasks : Executing(j)' <=> Executing(j)
<1>0. Types /\ Hands
  BY DEF IInv, Ring
<1>1. /\ payload' = payload /\ task' = task /\ arg[t] = NULL /\ arg'[t] = k
      /\ \A u \in Threads : u # t => arg'[u] = arg[u]
  <2>1. pc[t] \in {"out", "run"}
    BY DEF Submit
  <2> QED BY <1>0, <2>1 DEF Submit, ring, Types, Hands
<1>2. ASSUME NEW j \in Tasks PROVE Waiting(j)' <=> Waiting(j) \/ j = k
  BY <1>1, TaskAssumption DEF Waiting, Queued
<1> QED BY <1>1, <1>2 DEF Submit, Fresh, Executing

\* Filling a slot leaves the task waiting.
LEMMA FillMoves ==
  ASSUME IInv, NEW t \in Threads, Fill(t)
  PROVE  /\ \A j \in Tasks : Waiting(j)' <=> Waiting(j)
         /\ \A j \in Tasks : Executing(j)' <=> Executing(j)
<1>0. Types /\ Turns /\ Positions /\ Emptied
  BY DEF IInv, Ring
<1>a. /\ \A u \in Threads : pos[u] \in Nat
      /\ Slot(pos[t]) \in Slots
  BY <1>0, SlotType DEF Types
<1>1. payload[Slot(pos[t])] = NULL
  <2>1. sequence[Slot(pos[t])] = pos[t] /\ pc[t] = "fill"
    BY DEF Fill, Returned
  <2>2. ASSUME NEW u \in Threads, pc[u] \in {"publish", "take"}
        PROVE  Slot(pos[u]) # Slot(pos[t])
    BY <1>0, <1>a, <2>1, <2>2, SlotNext DEF Turns, Positions, Producing, Consuming
  <2>3. ASSUME NEW p \in Nat, Ready(p) PROVE Slot(p) # Slot(pos[t])
    BY <1>a, <2>1, <2>3, SlotNext DEF Ready
  <2> QED BY <1>0, <1>a, <2>2, <2>3 DEF Emptied
<1>2. /\ payload'[Slot(pos[t])] = arg[t]
      /\ \A i \in Slots : i # Slot(pos[t]) => payload'[i] = payload[i]
      /\ arg'[t] = NULL /\ \A u \in Threads : u # t => arg'[u] = arg[u]
      /\ task' = task
  BY <1>0, <1>a DEF Fill, Types
<1>3. ASSUME NEW j \in Tasks PROVE Waiting(j)' <=> Waiting(j)
  BY <1>a, <1>1, <1>2, TaskAssumption DEF Waiting, Queued
<1> QED BY <1>2, <1>3 DEF Executing

\* Taking a task out of its slot starts it.
LEMMA TakeMoves ==
  ASSUME IInv, NEW w \in Workers, Take(w)
  PROVE  \E k \in Tasks :
           /\ Waiting(k) /\ ~Executing(k)
           /\ \A j \in Tasks : Waiting(j)' <=> Waiting(j) /\ j # k
           /\ \A j \in Tasks : Executing(j)' <=> Executing(j) \/ j = k
<1>0. Types /\ Positions /\ Contents /\ Hands /\ Unique /\ w \in Threads
  BY ThreadFacts DEF IInv, Ring
<1>a. Slot(pos[w]) \in Slots
  BY <1>0, SlotType DEF Types
<1> DEFINE k == payload[Slot(pos[w])]
<1>1. k \in Tasks
  <2>1. pc[w] = "take" /\ pos[w] \in Nat /\ pos[w] < head
    BY <1>0 DEF Take, Positions, Contents, Consuming, Types
  <2>2. pos[w] + 1 \in 1..Len(order)
    BY <1>0, <2>1 DEF Types
  <2>3. order[pos[w] + 1] \in Tasks
    BY <1>0, <2>2 DEF Types
  <2> QED BY <1>0, <2>1, <2>3 DEF Contents
<1>2. /\ payload'[Slot(pos[w])] = NULL
      /\ \A i \in Slots : i # Slot(pos[w]) => payload'[i] = payload[i]
      /\ task[w] = NULL /\ task'[w] = k
      /\ \A u \in Threads : u # w => task'[u] = task[u]
      /\ arg' = arg
  BY <1>0, <1>a DEF Take, Types, Hands
<1> HIDE DEF k
<1>3. /\ \A i \in Slots : i # Slot(pos[w]) => payload[i] # k
      /\ \A u \in Threads : arg[u] # k /\ task[u] # k
  BY <1>0, <1>a, <1>1, TaskAssumption DEF Unique, k
<1>4. Waiting(k) /\ ~Executing(k)
  BY <1>a, <1>3 DEF Waiting, Queued, Executing, k
<1>5. ASSUME NEW j \in Tasks PROVE Waiting(j)' <=> Waiting(j) /\ j # k
  <2>1. CASE j = k
    BY <1>2, <1>3, <2>1, TaskAssumption DEF Waiting, Queued
  <2>2. CASE j # k
    BY <1>2, <2>2, TaskAssumption DEF Waiting, Queued, k
  <2> QED BY <2>1, <2>2
<1>6. ASSUME NEW j \in Tasks PROVE Executing(j)' <=> Executing(j) \/ j = k
  BY <1>0, <1>2, TaskAssumption DEF Executing
<1> QED BY <1>1, <1>4, <1>5, <1>6

\* When a task returns it is neither waiting nor executing.
LEMMA FinishMoves ==
  ASSUME IInv, NEW w \in Workers, Finish(w)
  PROVE  /\ task[w] \in Tasks /\ Executing(task[w]) /\ ~Waiting(task[w])
         /\ \A j \in Tasks : Waiting(j)' <=> Waiting(j)
         /\ \A j \in Tasks : Executing(j)' <=> Executing(j) /\ j # task[w]
<1>0. Types /\ Hands /\ Unique /\ w \in Threads
  BY ThreadFacts DEF IInv, Ring
<1>1. task[w] \in Tasks
  BY <1>0 DEF Finish, Hands, Types, Ptr
<1>2. /\ \A i \in Slots : payload[i] # task[w]
      /\ \A u \in Threads : arg[u] # task[w]
      /\ \A u \in Threads : u # w => task[u] # task[w]
  BY <1>0, <1>1, TaskAssumption DEF Unique
<1>3. /\ task'[w] = NULL /\ \A u \in Threads : u # w => task'[u] = task[u]
      /\ arg' = arg /\ payload' = payload
  BY <1>0 DEF Finish, Types, ring
<1>4. Executing(task[w]) /\ ~Waiting(task[w])
  BY <1>0, <1>2 DEF Waiting, Queued, Executing
<1>5. ASSUME NEW j \in Tasks PROVE Executing(j)' <=> Executing(j) /\ j # task[w]
  BY <1>0, <1>2, <1>3, TaskAssumption DEF Executing
<1> QED BY <1>1, <1>3, <1>4, <1>5 DEF Waiting, Queued

\* The destructor leaves no task, and between runs none is executing.
LEMMA DestroyMoves ==
  ASSUME IInv, Destroy
  PROVE  \A j \in Tasks : ~Waiting(j)' /\ ~Executing(j) /\ ~Executing(j)'
<1>0. Types /\ Phases /\ Hands
  BY DEF IInv, Ring
<1>1. \A t \in Threads : arg[t] = NULL /\ task[t] = NULL
  BY <1>0 DEF Destroy, Phases, Hands, Threads
<1>2. arg' = arg /\ task' = task /\ \A i \in Slots : payload'[i] = NULL
  BY DEF Destroy
<1> QED BY <1>1, <1>2, TaskAssumption DEF Waiting, Queued, Executing

\* Who executes a task does so in run().
LEMMA ExecutingInRun ==
  ASSUME IInv, NEW w \in Workers, task[w] # NULL
  PROVE  pc[Owner] \in {"wait", "join"} /\ Unfinished # {}
<1>0. Types /\ Phases /\ Hands /\ w \in Threads
  BY ThreadFacts DEF IInv, Ring
<1>1. task[w] \in Tasks /\ pc[w] # "none"
  BY <1>0 DEF Hands, Types, Ptr
<1>2. Executing(task[w])
  BY <1>0 DEF Executing
<1> QED BY <1>0, <1>1, <1>2 DEF Phases, Unfinished

\* There are finitely many unfinished tasks.
LEMMA UnfinishedFinite == IsFiniteSet(Unfinished) /\ Cardinality(Unfinished) \in Nat
<1>1. Unfinished \in SUBSET Tasks
  BY DEF Unfinished
<1>2. IsFiniteSet(Unfinished)
  BY <1>1, TaskAssumption, FS_Subset
<1> QED BY <1>2, FS_CardinalityType

\* The counter keeps up with the tasks.
LEMMA CounterStep == IInv /\ [Next]_vars => Counter'
<1> SUFFICES ASSUME IInv, [Next]_vars PROVE Counter'
  OBVIOUS
<1> USE ThreadFacts
<1>0. Types /\ Phases /\ Hands /\ Counter
  BY DEF IInv, Ring
<1>a. ASSUME payload' = payload, arg' = arg, task' = task
      PROVE  \A j \in Tasks : (Waiting(j)' <=> Waiting(j)) /\ (Executing(j)' <=> Executing(j))
  BY <1>a DEF Waiting, Queued, Executing
<1>b. ASSUME \A j \in Tasks : (Waiting(j)' <=> Waiting(j)) /\ (Executing(j)' <=> Executing(j))
      PROVE  Unfinished' = Unfinished
  BY <1>b DEF Unfinished
<1>c. ASSUME Unfinished' = Unfinished, pending' = pending,
             pc'[Owner] = "gone" <=> pc[Owner] = "gone",
             pc'[Owner] = "join" => pc[Owner] = "join"
      PROVE  Counter'
  BY <1>0, <1>c DEF Counter
<1>1. ASSUME NEW t \in Threads, NEW k \in Tasks, Submit(t, k) PROVE Counter'
  <2>1. Unfinished' = Unfinished \cup {k} /\ k \notin Unfinished
    BY <1>1, SubmitMoves DEF Unfinished
  <2>2. Cardinality(Unfinished') = Cardinality(Unfinished) + 1
    BY <2>1, UnfinishedFinite, FS_AddElement
  <2>3. pending' = pending + 1 /\ pc[Owner] \notin {"gone", "join"}
    <3>1. CASE t = Owner
      BY <1>1, <3>1 DEF Submit
    <3>2. CASE t # Owner
      <4>1. t \in Workers /\ task[t] # NULL /\ pc[t] = "run"
        BY <1>0, <1>1, <3>2 DEF Submit, Hands, Threads
      <4>2. pc[Owner] \in {"wait", "join"} /\ Unfinished # {}
        BY <4>1, ExecutingInRun
      <4>3. Cardinality(Unfinished) # 0
        BY <4>2, UnfinishedFinite, FS_EmptySet
      <4> QED BY <1>0, <1>1, <4>2, <4>3 DEF Counter, Submit
    <3> QED BY <1>1, <3>1, <3>2 DEF Submit
  <2>4. pc'[Owner] \in {pc[Owner], "reserve"}
    BY <1>0, <1>1 DEF Submit, Goto, Types
  <2> QED BY <1>0, <2>2, <2>3, <2>4, UnfinishedFinite DEF Counter
<1>2. ASSUME NEW t \in Threads, Reserve(t) PROVE Counter'
  <2>1. Unfinished' = Unfinished
    BY <1>a, <1>b, <1>2 DEF Reserve, ring
  <2>2. /\ pending' = pending
        /\ pc'[Owner] = "gone" <=> pc[Owner] = "gone"
        /\ pc'[Owner] = "join" => pc[Owner] = "join"
    BY <1>0, <1>2 DEF Reserve, Goto, counters, ring, Types, Phases
  <2> QED BY <1>c, <2>1, <2>2
<1>3. ASSUME NEW t \in Threads, Fill(t) PROVE Counter'
  <2>1. Unfinished' = Unfinished
    BY <1>3, FillMoves, <1>b
  <2>2. /\ pending' = pending
        /\ pc'[Owner] \in {"gone", "join"} <=> pc[Owner] \in {"gone", "join"}
        /\ pc'[Owner] \in {pc[Owner], "publish"}
    BY <1>0, <1>3 DEF Fill, Goto, counters, Types
  <2> QED BY <1>c, <2>1, <2>2
<1>4. ASSUME NEW t \in Threads, Publish(t) PROVE Counter'
  <2>1. Unfinished' = Unfinished
    BY <1>a, <1>b, <1>4 DEF Publish, ring
  <2>2. /\ pending' = pending
        /\ pc'[Owner] = "gone" <=> pc[Owner] = "gone"
        /\ pc'[Owner] = "join" => pc[Owner] = "join"
    BY <1>0, <1>4 DEF Publish, Goto, counters, ring, Types, Phases
  <2> QED BY <1>c, <2>1, <2>2
<1>5. ASSUME NEW w \in Workers, LoadTail(w) PROVE Counter'
  <2>1. Unfinished' = Unfinished
    BY <1>a, <1>b, <1>5 DEF LoadTail, ring
  <2>2. /\ pending' = pending
        /\ pc'[Owner] = "gone" <=> pc[Owner] = "gone"
        /\ pc'[Owner] = "join" => pc[Owner] = "join"
    BY <1>0, <1>5 DEF LoadTail, Goto, counters, ring, Types, Phases
  <2> QED BY <1>c, <2>1, <2>2
<1>6. ASSUME NEW w \in Workers, LoadSeq(w) PROVE Counter'
  <2>1. Unfinished' = Unfinished
    BY <1>a, <1>b, <1>6 DEF LoadSeq, ring
  <2>2. /\ pending' = pending
        /\ pc'[Owner] = "gone" <=> pc[Owner] = "gone"
        /\ pc'[Owner] = "join" => pc[Owner] = "join"
    BY <1>0, <1>6 DEF LoadSeq, Goto, counters, ring, Types, Phases
  <2> QED BY <1>c, <2>1, <2>2
<1>7. ASSUME NEW w \in Workers, Claim(w) PROVE Counter'
  <2>1. Unfinished' = Unfinished
    BY <1>a, <1>b, <1>7 DEF Claim, ring
  <2>2. /\ pending' = pending
        /\ pc'[Owner] = "gone" <=> pc[Owner] = "gone"
        /\ pc'[Owner] = "join" => pc[Owner] = "join"
    BY <1>0, <1>7 DEF Claim, Goto, counters, ring, Types, Phases
  <2> QED BY <1>c, <2>1, <2>2
<1>8. ASSUME NEW w \in Workers, ClaimFails(w) PROVE Counter'
  <2>1. Unfinished' = Unfinished
    BY <1>a, <1>b, <1>8 DEF ClaimFails, ring
  <2>2. /\ pending' = pending
        /\ pc'[Owner] = "gone" <=> pc[Owner] = "gone"
        /\ pc'[Owner] = "join" => pc[Owner] = "join"
    BY <1>0, <1>8 DEF ClaimFails, Goto, counters, ring, Types, Phases
  <2> QED BY <1>c, <2>1, <2>2
<1>9. ASSUME NEW w \in Workers, Take(w) PROVE Counter'
  <2>1. PICK k \in Tasks :
          /\ Waiting(k)
          /\ \A j \in Tasks : Waiting(j)' <=> Waiting(j) /\ j # k
          /\ \A j \in Tasks : Executing(j)' <=> Executing(j) \/ j = k
    BY <1>9, TakeMoves
  <2>2. Unfinished' = Unfinished
    BY <2>1 DEF Unfinished
  <2>3. pending' = pending /\ pc'[Owner] = pc[Owner]
    BY <1>0, <1>9 DEF Take, Goto, counters, Types
  <2> QED BY <1>c, <2>2, <2>3
<1>10. ASSUME NEW w \in Workers, GiveBack(w) PROVE Counter'
  <2>1. Unfinished' = Unfinished
    BY <1>a, <1>b, <1>10 DEF GiveBack, ring
  <2>2. /\ pending' = pending
        /\ pc'[Owner] = "gone" <=> pc[Owner] = "gone"
        /\ pc'[Owner] = "join" => pc[Owner] = "join"
    BY <1>0, <1>10 DEF GiveBack, Goto, counters, ring, Types, Phases
  <2> QED BY <1>c, <2>1, <2>2
<1>11. ASSUME NEW w \in Workers, FoundNothing(w) PROVE Counter'
  <2>1. Unfinished' = Unfinished
    BY <1>a, <1>b, <1>11 DEF FoundNothing, ring
  <2>2. /\ pending' = pending
        /\ pc'[Owner] = "gone" <=> pc[Owner] = "gone"
        /\ pc'[Owner] = "join" => pc[Owner] = "join"
    BY <1>0, <1>11 DEF FoundNothing, Goto, counters, ring, Types, Phases
  <2> QED BY <1>c, <2>1, <2>2
<1>12. ASSUME NEW w \in Workers, Finish(w) PROVE Counter'
  <2>1. Unfinished' = Unfinished \ {task[w]} /\ task[w] \in Unfinished
    BY <1>12, FinishMoves DEF Unfinished
  <2>2. Cardinality(Unfinished') = Cardinality(Unfinished) - 1
    BY <2>1, UnfinishedFinite, FS_RemoveElement
  <2>3. pending' = pending - 1 /\ pc'[Owner] = pc[Owner]
    BY <1>0, <1>12 DEF Finish, Goto, Types
  <2>4. pc[Owner] \notin {"gone", "join"}
    <3>1. pc[Owner] \in {"wait", "join"} /\ Unfinished # {}
      BY <1>12, FinishMoves, ExecutingInRun, TaskAssumption
    <3>2. Cardinality(Unfinished) # 0
      BY <3>1, UnfinishedFinite, FS_EmptySet
    <3> QED BY <1>0, <3>1, <3>2 DEF Counter
  <2> QED BY <1>0, <2>2, <2>3, <2>4, UnfinishedFinite DEF Counter
<1>13. ASSUME NEW started \in SUBSET Workers, RunStart(started) PROVE Counter'
  <2>1. Unfinished' = Unfinished
    BY <1>a, <1>b, <1>13 DEF RunStart, ring
  <2>2. /\ pending' = pending
        /\ pc'[Owner] = "gone" <=> pc[Owner] = "gone"
        /\ pc'[Owner] = "join" => pc[Owner] = "join"
    BY <1>0, <1>13 DEF RunStart, Goto, counters, ring, Types, Phases
  <2> QED BY <1>c, <2>1, <2>2
<1>14. CASE AllDone
  <2>1. Unfinished' = Unfinished
    BY <1>a, <1>b, <1>14 DEF AllDone, ring
  <2>2. pending' = pending /\ pending = 0 /\ pc[Owner] = "wait" /\ pc'[Owner] = "join"
    BY <1>0, <1>14 DEF AllDone, Goto, Types
  <2> QED BY <1>0, <2>1, <2>2 DEF Counter
<1>15. CASE Join
  <2>1. Unfinished' = Unfinished
    BY <1>a, <1>b, <1>15 DEF Join, ring
  <2>2. /\ pending' = pending
        /\ pc'[Owner] = "gone" <=> pc[Owner] = "gone"
        /\ pc'[Owner] = "join" => pc[Owner] = "join"
    BY <1>0, <1>15 DEF Join, Goto, counters, ring, Types, Phases
  <2> QED BY <1>c, <2>1, <2>2
<1>16. CASE Destroy
  <2>1. pending' = pending /\ pc[Owner] = "out" /\ pc'[Owner] = "gone"
    BY <1>0, <1>16 DEF Destroy, Goto, counters, Types
  <2>2. pending >= 0
    BY <1>0, <2>1, UnfinishedFinite DEF Counter
  <2> QED BY <2>1, <2>2 DEF Counter
<1>17. CASE UNCHANGED vars
  <2>1. Unfinished' = Unfinished
    BY <1>a, <1>b, <1>17 DEF vars, ring
  <2>2. /\ pending' = pending
        /\ pc'[Owner] = "gone" <=> pc[Owner] = "gone"
        /\ pc'[Owner] = "join" => pc[Owner] = "join"
    BY <1>0, <1>17 DEF vars, Goto, counters, ring, Types, Phases
  <2> QED BY <1>c, <2>1, <2>2
<1> QED BY <1>1, <1>2, <1>3, <1>4, <1>5, <1>6, <1>7, <1>8, <1>9, <1>10, <1>11, <1>12,
           <1>13, <1>14, <1>15, <1>16, <1>17 DEF Next, Enqueue, Dequeue

-----------------------------------------------------------------------------
(***************************************************************************)
(* The invariant holds, and what follows from it.                          *)
(***************************************************************************)

\* At first.
LEMMA IInvInit == Init => IInv
<1> SUFFICES ASSUME Init PROVE IInv
  OBVIOUS
<1> USE ThreadFacts
<1>1. Types
  <2>1. sequence \in [Slots -> Nat]
    BY RingAssumption DEF Init, Slots
  <2>2. order \in Seq(Tasks) /\ Len(order) = 0
    BY DEF Init
  <2>3. pc \in [Threads -> {"out", "none"}]
    BY DEF Init
  <2>4. runs \in 0..MaxRuns /\ shutdown \in BOOLEAN
    <3>1. runs \in 0..MaxRuns
      BY BoundAssumption DEF Init
    <3>2. shutdown \in BOOLEAN
      BY DEF Init
    <3> QED BY <3>1, <3>2
  <2>5. /\ payload \in [Slots -> Ptr] /\ arg \in [Threads -> Ptr] /\ task \in [Threads -> Ptr]
        /\ pos \in [Threads -> Nat] /\ done \in [Tasks -> Nat]
    BY DEF Init, Ptr
  <2>6. pending = 0 /\ head = 0 /\ tail = 0
    BY DEF Init
  <2> QED BY <2>1, <2>2, <2>3, <2>4, <2>5, <2>6 DEF Types
<1>2. \A t \in Threads : pc[t] \in {"out", "none"} /\ arg[t] = NULL /\ task[t] = NULL
  BY DEF Init
<1>3. Phases /\ Hands /\ Positions /\ Turns
  BY <1>1, <1>2 DEF Init, Phases, Hands, Positions, Turns, Producing, Consuming
<1>4. ASSUME NEW p \in Nat PROVE sequence[Slot(p)] <= p /\ ~Ready(p)
  <2>1. Slot(p) \in Slots /\ sequence[Slot(p)] = Slot(p)
    BY SlotType DEF Init
  <2>2. Slot(p) <= p
    BY RingAssumption DEF Slot
  <2>3. sequence[Slot(p)] # p + 1
    BY <2>1, <2>2 DEF Slots
  <2> QED BY <2>1, <2>2, <2>3 DEF Ready
<1>5. Lags /\ Contents
  <2>1. tail <= head
    BY DEF Init
  <2>2. \A t \in Threads : pc[t] \notin {"fill", "publish", "take", "return"}
    BY <1>2
  <2> QED BY <1>4, <2>1, <2>2 DEF Lags, Contents, Producing
<1>6. \A i \in Slots : payload[i] = NULL
  BY DEF Init
<1>7. Emptied /\ Unique
  BY <1>2, <1>6 DEF Emptied, Unique
<1>8. Counter
  <2>1. Unfinished = {}
    BY <1>2, TaskAssumption DEF Init, Unfinished, Waiting, Queued, Executing
  <2> QED BY <2>1, FS_EmptySet DEF Init, Counter
<1> QED BY <1>1, <1>3, <1>5, <1>7, <1>8 DEF IInv, Ring

\* The invariant holds, whatever the size of the ring and the number of workers.
THEOREM Invariance == Spec => []IInv
<1>1. IInv /\ [Next]_vars => IInv'
  BY TypesStep, PhasesStep, HandsStep, PositionsStep, TurnsStep, LagsStep, ContentsStep,
     EmptiedStep, UniqueStep, CounterStep DEF IInv, Ring
<1> QED BY <1>1, IInvInit, PTL DEF Spec

\* The variables have their types, and consumers never get past the producers.
THEOREM TypeCorrect == Spec => []TypeOK
<1>1. IInv => TypeOK
  <2> SUFFICES ASSUME IInv PROVE TypeOK
    OBVIOUS
  <2>1. Types /\ tail <= head
    BY DEF IInv, Ring, Contents
  <2>2. pending \in Nat
    BY <2>1, UnfinishedFinite DEF IInv, Counter, Types
  <2> QED BY <2>1, <2>2 DEF Types, TypeOK, Ptr
<1> QED BY <1>1, Invariance, PTL

\* Tasks come out of the ring in the order in which they reserved their positions.
THEOREM FirstInFirstOutCorrect == Spec => []FirstInFirstOut
<1>1. IInv => FirstInFirstOut
  BY ThreadFacts DEF IInv, Contents, FirstInFirstOut
<1> QED BY <1>1, Invariance, PTL

-----------------------------------------------------------------------------
(***************************************************************************)
(* The scheduler implements Scheduler.                                     *)
(***************************************************************************)

\* The abstract state.
Todo   == [k \in Tasks |-> One(Waiting(k))]
Runs   == [k \in Tasks |-> One(Executing(k))]
Driver == IF InRun THEN "in" ELSE IF pc[Owner] = "gone" THEN "gone" ELSE "out"

\* A step that moves no task and is inside or outside run() before and after.
LEMMA Stutters ==
  ASSUME \A j \in Tasks : Waiting(j)' <=> Waiting(j),
         \A j \in Tasks : Executing(j)' <=> Executing(j),
         Driver' = Driver, done' = done
  PROVE  UNCHANGED Abstract!vars
<1>1. Todo' = Todo /\ Runs' = Runs
  BY DEF Todo, Runs, One
<1> QED BY <1>1 DEF Abstract!vars, Todo, Runs, Driver

\* submit is Submit.
LEMMA AbstractSubmit ==
  ASSUME IInv, NEW t \in Threads, NEW k \in Tasks, Submit(t, k)
  PROVE  Abstract!Submit(k)
<1> USE ThreadFacts
<1>0. Types /\ Phases /\ Hands
  BY DEF IInv, Ring
<1>1. Todo' = [Todo EXCEPT ![k] = @ + 1]
  <2>1. Todo[k] = 0 /\ \A j \in Tasks : Todo'[j] = IF j = k THEN 1 ELSE Todo[j]
    BY SubmitMoves DEF Todo, One
  <2>2. Todo \in [Tasks -> {0, 1}] /\ Todo' \in [Tasks -> {0, 1}]
    BY DEF Todo, One
  <2> QED BY <2>1, <2>2
<1>2. Runs' = Runs
  BY SubmitMoves DEF Runs, One
<1>3. Driver' = Driver /\ done' = done
  BY <1>0 DEF Submit, Driver, InRun, Goto, Types
<1>4. Driver = "out" \/ Runs # [j \in Tasks |-> 0]
  <2>1. CASE t = Owner
    BY <2>1 DEF Submit, Driver, InRun
  <2>2. CASE t # Owner
    <3>1. task[t] \in Tasks
      BY <1>0, <2>2 DEF Submit, Hands, Threads, Types, Ptr
    <3>2. Runs[task[t]] = 1
      BY <3>1 DEF Runs, One, Executing
    <3> QED BY <3>1, <3>2
  <2> QED BY <2>1, <2>2
<1> QED BY <1>1, <1>2, <1>3, <1>4 DEF Abstract!Submit, Abstract!None, Todo, Runs, Driver

\* Taking a task out of the ring is Start.
LEMMA AbstractStart ==
  ASSUME IInv, NEW w \in Workers, Take(w)
  PROVE  \E k \in Tasks : Abstract!Start(k)
<1> USE ThreadFacts
<1>0. Types /\ Phases
  BY DEF IInv, Ring
<1>1. PICK k \in Tasks :
        /\ Waiting(k) /\ ~Executing(k)
        /\ \A j \in Tasks : Waiting(j)' <=> Waiting(j) /\ j # k
        /\ \A j \in Tasks : Executing(j)' <=> Executing(j) \/ j = k
  BY TakeMoves
<1>2. Todo[k] > 0 /\ Todo' = [Todo EXCEPT ![k] = @ - 1]
  <2>1. Todo[k] = 1 /\ \A j \in Tasks : Todo'[j] = IF j = k THEN 0 ELSE Todo[j]
    BY <1>1 DEF Todo, One
  <2>2. Todo \in [Tasks -> {0, 1}] /\ Todo' \in [Tasks -> {0, 1}]
    BY DEF Todo, One
  <2> QED BY <2>1, <2>2
<1>3. Runs' = [Runs EXCEPT ![k] = @ + 1]
  <2>1. Runs[k] = 0 /\ \A j \in Tasks : Runs'[j] = IF j = k THEN 1 ELSE Runs[j]
    BY <1>1 DEF Runs, One
  <2>2. Runs \in [Tasks -> {0, 1}] /\ Runs' \in [Tasks -> {0, 1}]
    BY DEF Runs, One
  <2> QED BY <2>1, <2>2
<1>4. Driver = "in" /\ Driver' = Driver /\ done' = done
  BY <1>0 DEF Take, Driver, InRun, Goto, Types, Phases
<1> QED BY <1>2, <1>3, <1>4 DEF Abstract!Start, Todo, Runs, Driver

\* The return of a task is Finish.
LEMMA AbstractFinish ==
  ASSUME IInv, NEW w \in Workers, Finish(w)
  PROVE  \E k \in Tasks : Abstract!Finish(k)
<1> USE ThreadFacts
<1>0. Types /\ Phases
  BY DEF IInv, Ring
<1> DEFINE k == task[w]
<1>1. k \in Tasks /\ Runs[k] > 0 /\ Runs' = [Runs EXCEPT ![k] = @ - 1]
  BY FinishMoves DEF Runs, One
<1>2. Todo' = Todo
  BY FinishMoves DEF Todo, One
<1>3. Driver' = Driver /\ done' = [done EXCEPT ![k] = @ + 1]
  BY <1>0 DEF Finish, Driver, InRun, Goto, Types
<1> HIDE DEF k
<1> QED BY <1>1, <1>2, <1>3 DEF Abstract!Finish, Todo, Runs, Driver

\* run() returns only when everything is finished.
LEMMA AbstractReturn == IInv /\ Join => Abstract!Return
<1> SUFFICES ASSUME IInv, Join PROVE Abstract!Return
  OBVIOUS
<1> USE ThreadFacts
<1>0. Types /\ Counter
  BY DEF IInv, Ring
<1>1. Unfinished = {}
  BY <1>0, UnfinishedFinite, FS_EmptySet DEF Join, Counter
<1>2. Todo = [k \in Tasks |-> 0] /\ Runs = [k \in Tasks |-> 0]
  BY <1>1 DEF Unfinished, Todo, Runs, One
<1>3. arg' = arg /\ task' = task /\ payload' = payload /\ done' = done
  BY DEF Join, ring
<1>4. Todo' = Todo /\ Runs' = Runs
  BY <1>3 DEF Todo, Runs, One, Waiting, Queued, Executing
<1>5. Driver = "in" /\ Driver' = "out"
  BY <1>0 DEF Join, Driver, InRun
<1> QED BY <1>2, <1>3, <1>4, <1>5 DEF Abstract!Return, Abstract!None, Todo, Runs, Driver

\* The destructor is Destroy.
LEMMA AbstractDestroy == IInv /\ Destroy => Abstract!Destroy
<1> SUFFICES ASSUME IInv, Destroy PROVE Abstract!Destroy
  OBVIOUS
<1> USE ThreadFacts
<1>0. Types
  BY DEF IInv, Ring
<1>1. /\ Todo' = [k \in Tasks |-> 0]
      /\ Runs = [k \in Tasks |-> 0] /\ Runs' = [k \in Tasks |-> 0]
  BY DestroyMoves DEF Todo, Runs, One
<1>2. Driver = "out" /\ Driver' = "gone" /\ done' = done
  BY <1>0 DEF Destroy, Driver, InRun, Goto, Types
<1> QED BY <1>1, <1>2 DEF Abstract!Destroy, Abstract!None, Todo, Runs, Driver

\* Every step is one of the abstract scheduler, or none.
LEMMA AbstractStep == IInv /\ [Next]_vars => [Abstract!Next]_(Abstract!vars)
<1> SUFFICES ASSUME IInv, [Next]_vars PROVE [Abstract!Next]_(Abstract!vars)
  OBVIOUS
<1> USE ThreadFacts
<1>0. Types /\ Phases
  BY DEF IInv, Ring
<1>a. ASSUME payload' = payload, arg' = arg, task' = task, done' = done, Driver' = Driver
      PROVE  [Abstract!Next]_(Abstract!vars)
  <2>1. \A j \in Tasks : (Waiting(j)' <=> Waiting(j)) /\ (Executing(j)' <=> Executing(j))
    BY <1>a DEF Waiting, Queued, Executing
  <2> QED BY <1>a, <2>1, Stutters
<1>1. ASSUME NEW t \in Threads, NEW k \in Tasks, Submit(t, k)
      PROVE  [Abstract!Next]_(Abstract!vars)
  BY <1>1, AbstractSubmit DEF Abstract!Next
<1>2. ASSUME NEW t \in Threads, Reserve(t) PROVE [Abstract!Next]_(Abstract!vars)
  <2>1. Driver' = Driver
    BY <1>0, <1>2 DEF Reserve, Goto, Driver, InRun, Types, Phases
  <2> QED BY <1>a, <1>2, <2>1 DEF Reserve, ring
<1>3. ASSUME NEW t \in Threads, Fill(t) PROVE [Abstract!Next]_(Abstract!vars)
  <2>1. Driver' = Driver /\ done' = done
    BY <1>0, <1>3 DEF Fill, Goto, Driver, InRun, Types
  <2> QED BY <1>3, <2>1, FillMoves, Stutters
<1>4. ASSUME NEW t \in Threads, Publish(t) PROVE [Abstract!Next]_(Abstract!vars)
  <2>1. Driver' = Driver
    BY <1>0, <1>4 DEF Publish, Goto, Driver, InRun, Types, Phases
  <2> QED BY <1>a, <1>4, <2>1 DEF Publish, ring
<1>5. ASSUME NEW w \in Workers, LoadTail(w) PROVE [Abstract!Next]_(Abstract!vars)
  <2>1. Driver' = Driver
    BY <1>0, <1>5 DEF LoadTail, Goto, Driver, InRun, Types, Phases
  <2> QED BY <1>a, <1>5, <2>1 DEF LoadTail, ring
<1>6. ASSUME NEW w \in Workers, LoadSeq(w) PROVE [Abstract!Next]_(Abstract!vars)
  <2>1. Driver' = Driver
    BY <1>0, <1>6 DEF LoadSeq, Goto, Driver, InRun, Types, Phases
  <2> QED BY <1>a, <1>6, <2>1 DEF LoadSeq, ring
<1>7. ASSUME NEW w \in Workers, Claim(w) PROVE [Abstract!Next]_(Abstract!vars)
  <2>1. Driver' = Driver
    BY <1>0, <1>7 DEF Claim, Goto, Driver, InRun, Types, Phases
  <2> QED BY <1>a, <1>7, <2>1 DEF Claim, ring
<1>8. ASSUME NEW w \in Workers, ClaimFails(w) PROVE [Abstract!Next]_(Abstract!vars)
  <2>1. Driver' = Driver
    BY <1>0, <1>8 DEF ClaimFails, Goto, Driver, InRun, Types, Phases
  <2> QED BY <1>a, <1>8, <2>1 DEF ClaimFails, ring
<1>9. ASSUME NEW w \in Workers, Take(w) PROVE [Abstract!Next]_(Abstract!vars)
  BY <1>9, AbstractStart DEF Abstract!Next
<1>10. ASSUME NEW w \in Workers, GiveBack(w) PROVE [Abstract!Next]_(Abstract!vars)
  <2>1. Driver' = Driver
    BY <1>0, <1>10 DEF GiveBack, Goto, Driver, InRun, Types, Phases
  <2> QED BY <1>a, <1>10, <2>1 DEF GiveBack, ring
<1>11. ASSUME NEW w \in Workers, FoundNothing(w) PROVE [Abstract!Next]_(Abstract!vars)
  <2>1. Driver' = Driver
    BY <1>0, <1>11 DEF FoundNothing, Goto, Driver, InRun, Types, Phases
  <2> QED BY <1>a, <1>11, <2>1 DEF FoundNothing, ring
<1>12. ASSUME NEW w \in Workers, Finish(w) PROVE [Abstract!Next]_(Abstract!vars)
  BY <1>12, AbstractFinish DEF Abstract!Next
<1>13. ASSUME NEW started \in SUBSET Workers, RunStart(started)
       PROVE  [Abstract!Next]_(Abstract!vars)
  <2>1. /\ payload' = payload /\ arg' = arg /\ task' = task /\ done' = done
        /\ Driver = "out" /\ Driver' = "in"
    BY <1>0, <1>13 DEF RunStart, ring, Driver, InRun
  <2>2. Todo' = Todo /\ Runs' = Runs
    BY <2>1 DEF Todo, Runs, One, Waiting, Queued, Executing
  <2>3. Abstract!Run
    BY <2>1, <2>2 DEF Abstract!Run, Todo, Runs, Driver
  <2> QED BY <2>3 DEF Abstract!Next
<1>14. CASE AllDone
  <2>1. Driver' = Driver
    BY <1>0, <1>14 DEF AllDone, Goto, Driver, InRun, Types, Phases
  <2> QED BY <1>a, <1>14, <2>1 DEF AllDone, ring
<1>15. CASE Join
  BY <1>15, AbstractReturn DEF Abstract!Next
<1>16. CASE Destroy
  BY <1>16, AbstractDestroy DEF Abstract!Next
<1>17. CASE UNCHANGED vars
  <2>1. Driver' = Driver
    BY <1>0, <1>17 DEF vars, Goto, Driver, InRun, Types, Phases
  <2> QED BY <1>a, <1>17, <2>1 DEF vars, ring
<1> QED BY <1>1, <1>2, <1>3, <1>4, <1>5, <1>6, <1>7, <1>8, <1>9, <1>10, <1>11, <1>12,
           <1>13, <1>14, <1>15, <1>16, <1>17 DEF Next, Enqueue, Dequeue

\* And it begins as the abstract one does.
LEMMA AbstractInit == Init => Abstract!Init
<1> SUFFICES ASSUME Init PROVE Abstract!Init
  OBVIOUS
<1> USE ThreadFacts
<1>1. \A k \in Tasks : ~Waiting(k) /\ ~Executing(k)
  BY TaskAssumption DEF Init, Waiting, Queued, Executing
<1>2. Todo = [k \in Tasks |-> 0] /\ Runs = [k \in Tasks |-> 0]
  BY <1>1 DEF Todo, Runs, One
<1>3. Driver = "out" /\ done = [k \in Tasks |-> 0]
  BY DEF Init, Driver, InRun
<1> QED BY <1>2, <1>3 DEF Abstract!Init, Abstract!None, Todo, Runs, Driver

\* Nothing submitted is lost, overwritten in the ring or executed twice, and run()
\* returns only when everything has finished: however small the ring, also when
\* it is overfull, and however many threads submit and consume.
THEOREM Refinement == Spec => Implements
<1> QED BY AbstractStep, AbstractInit, Invariance, PTL DEF Spec, Implements, Abstract!Spec
=============================================================================
