CONSTANTS
  Fields <- MCFields
  Widths <- MCWidths
  Kinds = {"storage", "transient"}
  MayDrop = FALSE
  NoLoc = NoLoc
SPECIFICATION Spec
INVARIANTS TypeOK NoOverlap WithinSlots LockCoversBuilds
PROPERTIES UpgradeKeepsFields
