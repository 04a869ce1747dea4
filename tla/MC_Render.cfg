CONSTANTS
  Id = {"r", "a", "b", "c", "d", "x"}
  Root = "r"
  Pages <- MCPages
  MaxDepth = 3
  Factor = 1
  Slack = 1
  MaxBlocks = 4
  MaxOutput = 12
  KeyOrder <- MCKeyOrder
  Decode <- MCDecode
  Escaped <- MCEscaped
  Fold <- MCFold
  Configs <- MCConfigs
  Tables <- MCRows
  Stale = {"A", "B"}
  Limit = 3
  MaxDays = 6
  PageIds = {1, 2, 3, 4, 5}
  Home = 1
  Outside = 9
  Unusable = 0
  BlockTables <- MCLinked
SPECIFICATION AllSpec
CHECK_DEADLOCK FALSE
INVARIANTS WholeOrCut WellFormed CostBounded OrdinaryPagesFit RowsPlaced BarsTellDates LinksAgree FormulasHold
