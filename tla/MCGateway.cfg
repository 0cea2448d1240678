SPECIFICATION Spec
CONSTANTS
  Accounts = {DU1, U2}
  Configured = none
  NoAccount = none
  Searches <- MCSearches
  MaxLoops = 5
  Interval = 2
  CallTime = 1
  Expiry = 6
  MaxPlaced = 1
  MaxFaults = 2
INVARIANTS
  WalkTellsTruth
  OneAccount
  KeptAlive
CHECK_DEADLOCK FALSE
