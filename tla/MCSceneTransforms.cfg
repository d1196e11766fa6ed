CONSTANTS
  s1 = s1
  r1 = r1
  a = a
  b = b
  c = c
  None = None
  SceneId = {s1}
  Item = {r1, a, b, c}
  Root <- OneRoot
  M = 2
  Bodies = {a}
SPECIFICATION FairSpec
PROPERTIES ReparentKeepsPlace UpdateRefreshes TransformsSettle
