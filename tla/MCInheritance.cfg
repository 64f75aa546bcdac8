SPECIFICATION Spec
CONSTANTS
  Classes <- MCClasses
  Methods = {"f", "new"}
  New = "new"
  Programs <- MCPrograms
  Orders <- MCOrders
INVARIANTS
  TypeOK
  InheritsMembers
  FaultsAreReported
PROPERTY
  Terminates
