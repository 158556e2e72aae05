SPECIFICATION Spec
CONSTANTS
  Keys = {1, 2, 3, 4}
  Procs = {1, 2, 3, 4}
  Resources = {"r", "s"}
  Scopes = {"host", "d1", "d2"}
  Inventories = {"inv", "dev"}
  Types = {"t", "u"}
  Graphs <- MCContinue
  Workers = 2
  MaxActiveDevices = 1
  StopOnMandatory = FALSE
  ReleaseUnusedData = TRUE
  StopAt = {}
INVARIANTS FailureContained ResourcesExclusive SucceededDataKept AllReleased
INVARIANTS DeviceSlots RefusedOrFinished
