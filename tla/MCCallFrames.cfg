CONSTANTS
  Methods <- MCMethods
  New <- MCNew
  Tries <- MCTries
  Exports <- MCExports
  UnsafeFns <- MCUnsafe
  OnceFns <- MCOnce
  ReadOnly = {}
  HasReturn <- MCHasReturn
  Internal <- MCInternal
  External <- MCExternal
  LooksUp <- Made
  Noted <- MCNoted
  Within <- MCWithin
  Untyped <- MCUntyped
  BodyReturns <- MCBodyReturns
  CatchReturns = {}
  Mutates <- MCMutates
  MaxDepth = 8
  MaxGas = 7
  MaxData = 2
SPECIFICATION Spec
INVARIANTS TypeOK LockHeld NoReentry ThunkOnlyByTry ReturnsReadRight OnceOnly
PROPERTIES TypedTryAtomic
