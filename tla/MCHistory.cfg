SPECIFICATION FairSpec
CONSTANTS
  Clients = {c1, c2}
  Requests <- MCRequests
  Partial <- MCPartial
  Remembered <- MCRemembered
  MinInterval = 2
  MaxRetries = 2
  MaxGets = 3
  MaxFaults = 1
INVARIANTS
  RightAnswer
  BrokenOnlyIf
PROPERTIES
  Spaced
  PaidOnce
  GetsEnd
CHECK_DEADLOCK FALSE
