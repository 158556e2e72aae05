SPECIFICATION Spec
CONSTANTS
  Tables <- MCTables
  Requests <- StepTraceRequests
  Calls <- NoCalls
  Resolve <- Resolvers
INVARIANT InputsDeclared
CHECK_DEADLOCK FALSE
