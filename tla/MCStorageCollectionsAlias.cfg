CONSTANTS
  xs = xs  ps = ps  qs = qs  fs = fs  gs = gs  hs = hs  v = v  w = w  t = t
  WordBytes = 2
  Dynamic = {}
  Fixed = {gs, hs}
  Plain = {}
  Texts = {}
  Structs = {ps, qs, gs, hs}
  Parts <- MCParts
  Size <- MCSize
  Count <- MCCount
  Place <- MCPlace
  MayShrink = {}
  Byte = {0, 1}
  MaxLen <- MCMaxLen
  MaxText = 3
  MaxSlot = 7
  MaxIndex = 3
  MaxBusy = 2
  Root = Root
  None = None
SPECIFICATION Spec
PROPERTIES ValuesSpec
