CONSTANTS
  Code <- MCCode
  Bodies <- MCBodies
  Helpers <- MCHelpers
  NewMayReturn = FALSE
  NameOf <- Plain
  MayMisjudge = FALSE
  MaxCalls = 2
SPECIFICATION Spec
INVARIANTS TypeOK RunsAsWritten PathsComplete MutabilityHonest CallsOutHonest
CHECK_DEADLOCK FALSE
