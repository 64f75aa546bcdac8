SPECIFICATION Spec
CONSTANTS
  W = 2
  Base = 32
  Variants = 2
  MemoryTop = 200
  Selector = 1
  Crossings <- MCLocals
  Altered <- MCAltered
INVARIANT TryKeepsLocals
CHECK_DEADLOCK FALSE
