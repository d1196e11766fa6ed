CONSTANTS
  root = root
  a = a
  b = b
  c = c
  k = k
  l = l
  None = None
  RootItem = root
  Item = {root, a, b, c}
  Clones = {}
  InitialTrees <- Row
  Inputs <- Dragging
  MaxSelected = 2
  MaxHistory = 2
  MaxPerTick = 1
SPECIFICATION Spec
SYMMETRY Renaming
CHECK_DEADLOCK FALSE
INVARIANTS VerifyHolds NeverBelowItself
PROPERTIES ImplementsHistory DroppedTogether DeleteIsExact
