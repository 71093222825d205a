\* The task of worker 0 of another scheduler.
CONSTANTS
  Tasks = {k1}
  Endless = {}
  NULL = NULL
  NoWorker = NoWorker
  MaxWorkers = 1
  MaxRuns = 1
  Foreign = {0}
SPECIFICATION Spec
\* The behaviour ends after the destructor.
CHECK_DEADLOCK FALSE
PROPERTY OwnerPushes
