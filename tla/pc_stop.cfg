SPECIFICATION FairSpec
CONSTANTS
  Keys = {1, 2, 3, 4}
  Procs = {1, 2, 3}
  Resources = {}
  Scopes = {"host", "d1", "d2", "d3"}
  Inventories = {"inv"}
  Types = {}
  Graphs <- MCStop
  Workers = 2
  MaxActiveDevices = 1
  StopOnMandatory = TRUE
  ReleaseUnusedData = FALSE
  StopAt = {3}
INVARIANTS CausesAreRoots RefusedOrFinished
PROPERTIES NoStartAfterStop Termination ImplementsContract
