SPECIFICATION Spec
CONSTANTS
  RiskPct = 1
  LossPct = 1
  PositionPct = 25
  VolumePct = 1
  MinStopPct = 1
  Symbols = {AAA, BBB}
  Prices = {900, 1000, 1200}
  Volumes = {50, 100}
  Equity = 10000
  TargetR = 2
  TrailPct = 4
  CommissionMin = 10
  CommissionPerShare = 0
  MaxTrades = 4
SYMMETRY SymbolSymmetry
INVARIANTS
  BooksAgree
  LossIsBounded
