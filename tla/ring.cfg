\* Four tasks and two slots: one executes, two fill the ring, and the fourth finds it
\* full.  Two workers race for a position, and one may be held by a task that never
\* returns.
CONSTANTS
  Tasks = {1, 2, 3, 4}
  Endless = {1}
  Workers = {w1, w2}
  Owner = owner
  NULL = NULL
  RingSize = 2
  MaxPending = 4
  MaxRuns = 2
SPECIFICATION MCSpec
\* The behaviour ends after the destructor.
CHECK_DEADLOCK FALSE
INVARIANT TypeOK
INVARIANT FirstInFirstOut
PROPERTY Implements
PROPERTY SubmitReturns
PROPERTY RunReturns
PROPERTY Served
