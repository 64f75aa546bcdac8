SPECIFICATION Spec
CONSTANTS
  Word = 16
  Narrow = 8
  Wad = 6
  Literals <- MCLiterals
  Careless <- MCCareless
  FoldLimit = 8
INVARIANTS
  TypeOK
  InRange
PROPERTY
  ComputesExactly
CHECK_DEADLOCK FALSE
