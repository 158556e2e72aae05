SPECIFICATION Spec
CONSTANTS
  Sinks = {}
  JsonFiles = {}
  Targets <- MCTargets
  Batches = 1
  Tables = {"t"}
  Jobs <- MCJobs
  Casts <- MCTableAlone
  Limit = 2
  FlushAt = 2
  Cap = 1
  Threads = {"t1", "t2"}
INVARIANTS DrainedOnReturn
CHECK_DEADLOCK FALSE
