SPECIFICATION Spec
CONSTANTS
  N = 2
  Scenarios <- MCFaults
INVARIANT SuccessMeansAllReturned
INVARIANT FirstFailureReported
INVARIANT SlotsBoundTrees
INVARIANT NothingLeftBehind
PROPERTY FailureDoesNotSpread
CHECK_DEADLOCK FALSE
