CONSTANTS
  panel = panel
  view = view
  first = first
  second = second
  Node <- MCNode
  Key <- MCKey
  InputRouting <- MCInputRouting
  OutputRouting <- MCOutputRouting
  Wires <- MCWires
  MaxConnects = 5
SPECIFICATION Spec
CHECK_DEADLOCK FALSE
INVARIANTS GraphSound FrameInOrder
PROPERTIES DestroyedAreForgotten DepthsFollow
