SPECIFICATION Spec
CONSTANTS
  Std <- MCStd
  Lower <- MCLower
  Programs <- MCPrograms
  Unparsable = Unparsable
INVARIANT TypeOK
INVARIANT BringsWhatIsReached
INVARIANT ReportsWhatIsNotThere
INVARIANT TablesAreCurrent
PROPERTY EndsUnlessCyclic
CHECK_DEADLOCK FALSE
