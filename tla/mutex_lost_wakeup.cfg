CONSTANTS
  Tasks = {k1}
  Endless = {}
  Workers = {w1}
  NULL = NULL
  MaxRuns = 1
SPECIFICATION FairSpec
\* The behaviour ends after the destructor.
CHECK_DEADLOCK FALSE
PROPERTY RunReturns
