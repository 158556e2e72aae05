SPECIFICATION FairSpec
CONSTANTS
  N = 2
  Scenarios <- MCEnds
PROPERTY Termination
CHECK_DEADLOCK FALSE
