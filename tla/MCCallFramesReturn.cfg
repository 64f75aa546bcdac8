CONSTANTS
  Methods <- MCMethods
  New <- MCNew
  Tries <- MCTries
  Exports <- MCExports
  UnsafeFns <- MCUnsafe
  OnceFns <- MCOnce
  ReadOnly = {}
  HasReturn <- MCHasReturnBoth
  Internal <- MCInternal
  External <- MCExternal
  LooksUp <- Made
  Noted <- MCNoted
  Within <- MCWithin
  Untyped = {}
  BodyReturns <- MCBodyReturnsBoth
  CatchReturns = {}
  Mutates <- MCTries
  MaxDepth = 8
  MaxGas = 7
  MaxData = 2
SPECIFICATION Spec
INVARIANTS ReturnsReadRight
