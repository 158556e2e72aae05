SPECIFICATION Spec
CONSTANTS
  Tables <- MCTables
  Requests <- MCRequests
  Calls <- MCCalls
  Resolve <- Resolvers
INVARIANTS
  Verifiable
  ExactGraph
  InputsOrdered
  DeviceBracketed
CHECK_DEADLOCK FALSE
