------------------------------- MODULE Victims -------------------------------
(***************************************************************************)
(* How a worker that has run out of work chooses whom to steal from        *)
(* (worker_loop of include/work_stealing_scheduler.hpp): workers are       *)
(* 0..n-1, and a sweep makes n-1 attempts from a random start.             *)
(***************************************************************************)
EXTENDS Naturals

Others(n, id) == (0..n-1) \ {id}

\* Variant: the thief's own number is not skipped.
StartsUnskipped(n, id) == 0..n-2

\* start = rng() % (n - 1), plus one from id on.
Starts(n, id) == {IF r >= id THEN r + 1 ELSE r : r \in 0..n-2}

\* Variants: the thief may come up itself; the sweep does not advance.
VictimUnchecked(n, id, start, attempt) == (start + attempt) % n
VictimFixed(n, id, start, attempt) == start

\* The victim of an attempt: the worker itself is replaced by its neighbour.
Victim(n, id, start, attempt) ==
  LET v == (start + attempt) % n
  IN IF v = id THEN (v + 1) % n ELSE v
=============================================================================
