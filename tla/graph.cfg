\* Four nodes and edges hold the chain, the diamond, the fork, the join, parallel
\* edges, and cycles with nodes before, on and after them.
CONSTANTS
  MaxNodes = 4
  MaxEdges = 4
SPECIFICATION FairSpec
CONSTRAINT OneEdgeBack
\* A graph is executed once.
CHECK_DEADLOCK FALSE
INVARIANT TypeOK
INVARIANT SubmittedOnce
INVARIANT AfterPredecessors
INVARIANT SeesPredecessors
INVARIANT Complete
PROPERTY ExecuteReturns
