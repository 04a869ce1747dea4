CONSTANTS
  p1 = p1
  p2 = p2
  k1 = k1
  k2 = k2
  k3 = k3
  c1 = c1
  c2 = c2
  empty = empty
  full = full
  huge = huge
  NoKey = NoKey
  NoCall = NoCall
  Absent = Absent
  Procs <- MCProcs
  Keys <- MCKeys
  Calls <- MCCalls
  Values <- MCValues
  Failures <- MCFailures
  Size <- MCSize
  Loads <- MCLoads
  PutKeys <- MCPutKeys
  MaxBytes = 2
  r1 = r1
  r2 = r2
  b1 = b1
  b2 = b2
  s = s
  sq = sq
  sr = sr
  Requests <- MCRequests
  FirstRequest = r1
  Pages <- MCPages
  Plain <- MCPlain
  Sizes = {1, 2, 3}
  MaxAsset = 2
  RequestBudget = 2
  StoreLimit = 3
  MaxCrashes = 1
SPECIFICATION BothSpec
INVARIANTS LoadsOnlyMissingKeys ValuesBelongToKeys BudgetsKept LinksServe MissesAreTold
PROPERTY EvictsAsItMust
