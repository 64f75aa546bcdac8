SPECIFICATION Spec
CONSTANTS
  Indents <- MCIndents
  MaxLines = 5
INVARIANTS
  TypeOK
  BlocksFollowIndents
  RefusesMisaligned
\* The pass ends: with the file, or with an error.
CHECK_DEADLOCK FALSE
