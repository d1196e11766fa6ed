CONSTANTS
  root = root
  a = a
  b = b
  c = c
  k = k
  l = l
  None = None
  RootItem = root
  Item = {root, a, b, k, l}
  Clones = {k, l}
  InitialTrees <- RowOf2
  Inputs <- Copying
  MaxSelected = 2
  MaxHistory = 2
  MaxPerTick = 1
SPECIFICATION Spec
CHECK_DEADLOCK FALSE
INVARIANTS SelectionInScene InsertedOnce
PROPERTIES UndoReturns
