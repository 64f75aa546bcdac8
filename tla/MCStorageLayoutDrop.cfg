CONSTANTS
  Fields <- MCTwoFields
  Widths <- MCFewWidths
  Kinds = {"storage"}
  MayDrop = TRUE
  NoLoc = NoLoc
SPECIFICATION Spec
PROPERTIES UpgradeKeepsFields
