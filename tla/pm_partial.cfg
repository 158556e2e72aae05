SPECIFICATION Spec
CONSTANTS
  Hosts = {"host"}
  Devices = {"device_0"}
  Tables = {"a", "b"}
  Optional = {"b"}
  Engines = {"native"}
  MaxInput = 2
  MaxRuns = 2
INVARIANTS PartialIsNoHit
CHECK_DEADLOCK FALSE
