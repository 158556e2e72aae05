SPECIFICATION FairSpec
CONSTANTS
  Threads = {"t1", "t2", "t3"}
  MaxTasks = 4
  Modes <- MCModes
INVARIANTS EachTaskOnce VerdictHonest
PROPERTIES Termination ImplementsBarrier
