CONSTANTS
  p = p
  q = q
  s = s
  K = 4
  Pairs <- MCPairs
  ViewsOf <- MCViewsOf
  Repairable <- MCPairs
  Demands <- MCDemands
  Starts <- MCStarts
  Answers <- MCAnswers
  MaxPasses = 2
  MaxCalls = 2
  MaxBlocks = 3
  ReducerLimit = 2
  MaxAssets = 2
  N = 5
  Root = 1
  Norm <- MCNorm
  RawTables <- MCTables
  Emojis <- MCEmojis
  AssetLimit = 4
  MaxFound = 3
  Responses <- MCResponses
SPECIFICATION BothSpec
CHECK_DEADLOCK FALSE
INVARIANTS FlagsTellTheTruth ErrorsTellTheCause FilesKeepTheirIdentity ContentSurvivesTheCut
