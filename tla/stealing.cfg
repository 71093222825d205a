\* Three workers are the least with a sweep of two attempts; one task may never
\* return, and two runs reuse the scheduler.
CONSTANTS
  Tasks = {k1, k2, k3}
  Endless = {k1}
  NULL = NULL
  NoWorker = NoWorker
  MaxWorkers = 3
  MaxRuns = 2
  Foreign = {}
SPECIFICATION FairSpec
\* The behaviour ends after the destructor.
CHECK_DEADLOCK FALSE
INVARIANT TypeOK
INVARIANT LeavesNothing
PROPERTY Implements
PROPERTY RunReturns
PROPERTY Served
