CONSTANTS
  root = root
  a = a
  b = b
  c = c
  k = k
  l = l
  None = None
  RootItem = root
  Item = {root, a, b, k}
  Clones = {k}
  InitialTrees <- RowOf2
  Inputs <- Cloning
  MaxSelected = 2
  MaxHistory = 2
  MaxPerTick = 1
SPECIFICATION Spec
CHECK_DEADLOCK FALSE
INVARIANTS FlagsAgree
