CONSTANT MaxWorkers = 7
SPECIFICATION Spec
\* A sweep ends.
CHECK_DEADLOCK FALSE
INVARIANT NeverSelf
INVARIANT OverlooksOneAtMost
INVARIANT AnyoneFirst
