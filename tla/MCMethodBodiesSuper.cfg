CONSTANTS
  Code <- MCCode
  Bodies <- SuperBodies
  Helpers <- OutHelpers
  NewMayReturn = FALSE
  NameOf <- Plain
  MayMisjudge = TRUE
  MaxCalls = 2
SPECIFICATION Spec
INVARIANTS MutabilityHonest CallsOutHonest
CHECK_DEADLOCK FALSE
