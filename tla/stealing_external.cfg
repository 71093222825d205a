\* A thread that is no worker of any scheduler.
CONSTANTS
  Tasks = {k1}
  Endless = {}
  NULL = NULL
  NoWorker = NoWorker
  MaxWorkers = 1
  MaxRuns = 1
  Foreign = {NoWorker}
SPECIFICATION FairSpec
\* The behaviour ends after the destructor.
CHECK_DEADLOCK FALSE
PROPERTY RunReturns
