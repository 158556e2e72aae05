SPECIFICATION FairSpec
CONSTANTS
  Sinks = {"a", "b"}
  JsonFiles = {"f", "g"}
  Targets <- MCTargets
  Batches = 2
  Tables = {"t"}
  Jobs <- MCJobs
  Casts <- MCEither
  Limit = 2
  FlushAt = 2
  Cap = 1
  Threads = {"t1", "t2"}
INVARIANTS TypeOK OneDrain EventsInOrder SuccessMeansWritten TimelinesWhenOk TablesWhenOk
PROPERTIES Termination
CHECK_DEADLOCK FALSE
