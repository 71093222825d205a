\* Two thieves against the owner; two slots at first, so that four tasks make the
\* deque grow twice (2 -> 4 -> 8) and indices wrap around the ring.
CONSTANTS
  Tasks = {1, 2, 3, 4}
  Thieves = {s1, s2}
  NULL = NULL
  InitialCap = 2
  InstallReleases = TRUE
SPECIFICATION FairSpec
CONSTRAINT InOrder
\* The behaviour ends after the destructor.
CHECK_DEADLOCK FALSE
INVARIANT TypeOK
INVARIANT IInv
INVARIANT ExactlyOnce
PROPERTY NullMeansEmpty
PROPERTY Linearizable
PROPERTY EveryTaskLeaves
