SPECIFICATION Spec
CONSTANTS
  Std <- MCStd
  Lower <- MCLower
  Programs <- MCPrograms
  Unparsable = Unparsable
CHECK_DEADLOCK FALSE
INVARIANT BringsItsSignature
