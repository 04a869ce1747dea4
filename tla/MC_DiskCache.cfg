CONSTANTS
  w1 = w1
  w2 = w2
  NoFile = NoFile
  Keys <- MCKeys
  Workers <- MCWorkers
  Deployments <- MCDeployments
  Sizes = {2, 4}
  MaxBytes = 3
  MaxClock = 1
  MaxCrashes = 1
SPECIFICATION FairSpec
INVARIANTS QuiescentBudget OnlyWholePages NoLitter
PROPERTIES EveryDoReturns
