SPECIFICATION Spec
CONSTANTS
  Hosts = {"host"}
  Devices = {"device_0"}
  Tables = {"a", "b"}
  Optional = {"b"}
  Engines = {"native", "python"}
  MaxInput = 2
  MaxRuns = 2
INVARIANTS CompleteMeansWhole ExportFromOneVersion PartialOutputMarked
CHECK_DEADLOCK FALSE
