CONSTANTS
  r = r
  a = a
  b = b
  c = c
  Ids <- MCIds
  Root = r
  Links <- MCLinks
  Aliased <- MCRootAliased
  Hollow = {"null", "hollow"}
  Unasked = {"full", "null"}
  ChunkLimit = 2
  Options <- MCOptions
  MaxInstances = 1
SPECIFICATION FairSpec
CHECK_DEADLOCK FALSE
INVARIANTS WithinLimit ContentIsThere HonestErrors
PROPERTIES Terminates
