SPECIFICATION Spec
CONSTANTS
  Names = {1, 2}
  Windows = {1, 5}
  Entry <- MCEntry
  Score <- MCScore
  Catalogue <- MCCatalogue
  BoardLimit = 2
  Late = TRUE
  MaxOps = 2
  MaxRuns = 3
  MaxDay = 2
  None = None
  Sentinel = Sentinel
INVARIANTS
  SentinelMeansAll
  HistoryFollows
  ChosenStaysActive
  PreviewFindsRun
  SweepCovers
CHECK_DEADLOCK FALSE
