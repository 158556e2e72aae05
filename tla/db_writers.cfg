SPECIFICATION FairSpec
CONSTANTS
  Savers = {"api", "task"}
  Paths = {"x", "y"}
  Calls <- MCCalls
  Modes <- MCModes
INVARIANTS OneWriter NoneDropped RowsStand FailureInVerdict
PROPERTIES Termination
