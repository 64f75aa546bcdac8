CONSTANTS
  Code <- MCCode
  Bodies <- SelfBodies
  Helpers <- OutHelpers
  NewMayReturn = FALSE
  NameOf <- GetsG
  MayMisjudge = TRUE
  MaxCalls = 2
SPECIFICATION Spec
INVARIANTS MutabilityHonest CallsOutHonest
CHECK_DEADLOCK FALSE
