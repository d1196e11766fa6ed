CONSTANTS
  root = root
  a = a
  b = b
  c = c
  k = k
  l = l
  None = None
  RootItem = root
  Item = {root, a, b}
  Clones = {}
  InitialTrees <- Nested
  Inputs <- Attaching
  MaxSelected = 2
  MaxHistory = 2
  MaxPerTick = 1
SPECIFICATION Spec
CHECK_DEADLOCK FALSE
INVARIANTS NeverBelowItself
