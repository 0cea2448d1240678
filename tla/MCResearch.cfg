SPECIFICATION Spec
CONSTANTS
  Depth <- MCDepth
  Grain = 3
  OptimizerMin = 3
  RunnerMin = 2
  TunerMin = 1
  KFolds = 2
  EmbargoDays = 1
  SelectMin = 1
  HoldoutPct = 30
  DaysPerMonth = 2
  NBins = 3
  MarketOpen = 10
  PremarketRange = 1
  OpeningRange = 1
  PremarketCutoff = 10
  IntradayCutoff = 14
  MaxHold = 1
  FadeBase = 2
  FadeMove = 15
  FadeExt = 8
  MinPrice = 1
  MaxPrice = 30
  MinGap = 10
  MaxCandidates = 1
  Superset = 1
  MinRvol = 1
  AvgMin = 2
  AvgSpan = 2
  NewsSpan = 20
  FirstMinute = 2
  LastMinute = 3
  PriceFrom = 1
  PriceTo = 14
  MaxFloat = 20
  LeastRvol = 5
  LeastGap = 10
  RequireNews = TRUE
  MaxExtension = 8
  MaxEnrich = 1
  Ttl = 3
INVARIANTS
  ToolsAgree
  SelectionIsBlind
  ExitsAgree
  KnownByThen
  PollMissesNothing
CHECK_DEADLOCK FALSE
