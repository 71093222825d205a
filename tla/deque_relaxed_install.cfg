\* As deque_safety.cfg, with the orders that array_.store(relaxed) permits.
CONSTANTS
  Tasks = {1, 2, 3, 4}
  Thieves = {s1, s2}
  NULL = NULL
  InitialCap = 2
  InstallReleases = FALSE
SPECIFICATION Spec
CONSTRAINT InOrder
\* The behaviour ends after the destructor.
CHECK_DEADLOCK FALSE
INVARIANT ExactlyOnce
