\* A tree of fifteen tasks on one to four workers, and two schedulers, the first of
\* which may hang.  The ring has no slot more than the workloads need.
CONSTANTS
  Hw = 4
  Schedulers = 2
  MayHang = {1}
  TreeDepth = 3
  CpuTasks = 3
  TinyTasks = 12
  RingSize = 12
SPECIFICATION FairSpec
\* The program ends, or hangs.
CHECK_DEADLOCK FALSE
INVARIANT TypeOK
INVARIANT MeasuresAll
INVARIANT FindsRows
INVARIANT HighWater
PROPERTY Ends
