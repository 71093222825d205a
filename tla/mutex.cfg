\* Three workers: one that spawns, one awake, one asleep.  One task may never
\* return, and two runs reuse the scheduler.
CONSTANTS
  Tasks = {k1, k2, k3}
  Endless = {k1}
  Workers = {w1, w2, w3}
  NULL = NULL
  MaxRuns = 2
SPECIFICATION FairSpec
\* The behaviour ends after the destructor.
CHECK_DEADLOCK FALSE
INVARIANT TypeOK
INVARIANT OnlyHung
INVARIANT NoIdleWorker
PROPERTY Implements
PROPERTY RunEnds
PROPERTY Served
