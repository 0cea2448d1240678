SPECIFICATION Spec
CONSTANTS
  RiskPct = 2
  LossPct = 2
  PositionPct = 50
  VolumePct = 1
  MinStopPct = 1
  Long = {breakout}
  Short = {fade}
  Entries = {100}
  StopPct = {5}
  Moves <- MCMoves
  Volumes = {0, 2000}
  Tods = {1, 2, 3}
  Equity = 10000
  MaxConcurrent = 2
  MaxGrossPct = 70
  CommissionMin = 2
  CommissionPerShare = 1
  DaysPerMonth = 1
  MaxPots = 3
  MaxDay = 1
INVARIANTS
  Accounts
  WithinMeans
  HonoursBreaker
CHECK_DEADLOCK FALSE
