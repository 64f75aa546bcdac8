CONSTANTS
  Code <- MCCode
  Bodies <- ElseBodies
  Helpers <- MCHelpers
  NewMayReturn = FALSE
  NameOf <- Plain
  MayMisjudge = FALSE
  MaxCalls = 2
SPECIFICATION Spec
INVARIANTS RunsAsWritten
CHECK_DEADLOCK FALSE
