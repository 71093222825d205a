\* Three stages, the middle one with a stage before and one after.
CONSTANTS
  Width = 2
  Depth = 3
  MaxNodes = 6
  MaxEdges = 8
SPECIFICATION PFairSpec
\* The graph is executed once.
CHECK_DEADLOCK FALSE
INVARIANT StagesInOrder
INVARIANT OneStageWaits
PROPERTY Ends
