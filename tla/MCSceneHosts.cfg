CONSTANTS
  s1 = s1
  s2 = s2
  r1 = r1
  r2 = r2
  a = a
  b = b
  c = c
  twin1 = twin1
  twin2 = twin2
  single = single
  shared = shared
  own = own
  None = None
  SceneId = {s1, s2}
  Item = {r1, r2, a, b, c}
  Root <- RootsOfTwo
  M = 1
  Bodies = {}
  Attachment = {twin1, twin2, single}
  SkinOf <- Skins
SPECIFICATION AttachmentSpec
SYMMETRY Renaming
INVARIANTS AttachmentsFollow TreeWellFormed FlatIsReachable HostOfParent HostChecksHold ClosedFormsAgree
PROPERTY OnlyReparentUnsorts
