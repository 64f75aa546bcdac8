SPECIFICATION Spec
CONSTANTS
  W = 2
  Base = 32
  Variants = 2
  MemoryTop = 200
  Selector = 1
  Crossings <- MCCrossings
  Altered <- MCAltered
INVARIANTS
  TypeOK
  EncodesCanonically
  ReadsWhatIsThere
  RefusesWhatIsNot
CHECK_DEADLOCK FALSE
