------------------------------ MODULE WorkDeque ------------------------------
(***************************************************************************)
(* What the work-stealing deque promises its users, with every operation   *)
(* a single step: the owner adds and removes tasks at the bottom, thieves  *)
(* remove tasks at the top, and the destructor frees what is left.  A task *)
(* pointer that entered the deque leaves it exactly once.                  *)
(***************************************************************************)
EXTENDS Naturals, Sequences

CONSTANT Tasks

VARIABLES
  items,   \* the tasks in the deque, from top (first) to bottom (last)
  handed   \* how often each task pointer has left the deque

vars == <<items, handed>>

HandOut(k) == handed' = [handed EXCEPT ![k] = @ + 1]

Init ==
  /\ items = <<>>
  /\ handed = [k \in Tasks |-> 0]

\* push_bottom of a task that the deque has never held.
PushBottom(k) ==
  /\ handed[k] = 0
  /\ \A i \in DOMAIN items : items[i] # k
  /\ items' = Append(items, k)
  /\ UNCHANGED handed

\* pop_bottom returns the youngest task.
PopBottom ==
  /\ items # <<>>
  /\ HandOut(items[Len(items)])
  /\ items' = SubSeq(items, 1, Len(items) - 1)

\* steal returns the oldest task.
Steal ==
  /\ items # <<>>
  /\ HandOut(items[1])
  /\ items' = Tail(items)

\* The destructor frees every task still in the deque.
Destroy ==
  /\ items' = <<>>
  /\ handed' = [k \in Tasks |->
                  handed[k] + IF \E i \in DOMAIN items : items[i] = k THEN 1 ELSE 0]

Next ==
  \/ \E k \in Tasks : PushBottom(k)
  \/ PopBottom
  \/ Steal
  \/ Destroy

Spec == Init /\ [][Next]_vars
=============================================================================
