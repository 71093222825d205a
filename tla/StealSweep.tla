----------------------------- MODULE StealSweep -----------------------------
(***************************************************************************)
(* One sweep of a worker over its colleagues' deques that finds all of     *)
(* them empty (worker_loop of include/work_stealing_scheduler.hpp).        *)
(***************************************************************************)
EXTENDS Victims, FiniteSets

CONSTANT MaxWorkers   \* bound on workers_.size()

ASSUME MaxWorkersAssumption == MaxWorkers \in Nat

VARIABLES
  n,         \* workers_.size()
  id,        \* the sweeping worker
  start,     \* the random start
  attempt,   \* the attempts made
  visited    \* history: the workers it tried to steal from

vars == <<n, id, start, attempt, visited>>

Init ==
  /\ n \in 2..MaxWorkers
  /\ id \in 0..n-1
  /\ start \in Starts(n, id)
  /\ attempt = 0
  /\ visited = {}

Attempt ==
  /\ attempt < n - 1
  /\ visited' = visited \cup {Victim(n, id, start, attempt)}
  /\ attempt' = attempt + 1
  /\ UNCHANGED <<n, id, start>>

Next == Attempt

Spec == Init /\ [][Next]_vars

-----------------------------------------------------------------------------
\* A worker tries only existing workers and never itself: its own deque has no
\* thief in it that is also the owner.
NeverSelf == visited \subseteq Others(n, id)

\* Replacing itself by its neighbour makes the sweep visit that neighbour twice;
\* it overlooks at most one colleague for that.
OverlooksOneAtMost ==
  attempt = n - 1 => Cardinality(Others(n, id) \ visited) <= 1

\* Who is overlooked in one sweep can be the first victim of another: the random
\* starts are exactly the other workers.
AnyoneFirst == {Victim(n, id, s, 0) : s \in Starts(n, id)} = Others(n, id)
=============================================================================
