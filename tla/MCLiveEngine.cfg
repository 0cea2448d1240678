SPECIFICATION Spec
CONSTANTS
  MarketOpen = 4
  PremarketRange = 1
  OpeningRange = 1
  PremarketCutoff = 4
  IntradayCutoff = 7
  MaxHold = 2
  Tested = {"premarket", "regular", "intraday"}
  Policies <- MCPolicies
  Shapes <- MCShapes
  StartTods <- MCStartTods
  Gaps = {1}
  MaxBars <- MCMaxBars
  MaxRestart = 1
INVARIANTS
  StreamMatchesBatch
  SteadyEntry
  Prompt
  StopNeverLoosens
CHECK_DEADLOCK FALSE
