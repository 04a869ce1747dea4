CONSTANTS
  p = p
  q = q
  s = s
  t = t
  K = 5
  Pairs <- MCPairs
  ViewsOf <- MCViewsOf
  Repairable <- MCPairs
  Demands <- MCDemands
  Starts <- MCStarts
  Answers <- MCAnswers
  MaxPasses = 2
  MaxCalls = 3
  MaxBlocks = 4
SPECIFICATION FairSpec
CHECK_DEADLOCK FALSE
INVARIANTS SilenceIsComplete
