SPECIFICATION FairSpec
CONSTANTS
  p1 = p1
  p2 = p2
  p3 = p3
  k1 = k1
  k2 = k2
  c1 = c1
  c2 = c2
  c3 = c3
  v1 = v1
  NoKey = NoKey
  NoCall = NoCall
  Procs <- MCProcs
  Keys <- MCKeys
  Calls <- MCCalls
  Values <- MCValues
  Failures <- MCFailures
INVARIANTS
  AtMostOneRun
  NoStrandedWaiter
PROPERTIES
  ReleaseRemovesOwnCall
  ImplementsCoalescer
