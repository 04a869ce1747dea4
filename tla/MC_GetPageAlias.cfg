CONSTANTS
  r = r
  a = a
  b = b
  c = c
  Ids <- MCIds
  Root = r
  Links <- MCLinks
  Aliased <- MCIds
  Hollow = {}
  Unasked = {"full"}
  ChunkLimit = 2
  Options <- MCOptions
  MaxInstances = 1
SPECIFICATION Spec
CHECK_DEADLOCK FALSE
INVARIANT CompletePage
