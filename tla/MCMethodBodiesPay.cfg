CONSTANTS
  Code <- MCCode
  Bodies <- PayBodies
  Helpers <- OutHelpers
  NewMayReturn = FALSE
  NameOf <- PaysG
  MayMisjudge = TRUE
  MaxCalls = 2
SPECIFICATION Spec
INVARIANTS CallsOutHonest
CHECK_DEADLOCK FALSE
