SPECIFICATION Spec
CONSTANTS
  Symbols = {AAA}
  NoId = none
  MaxId = 3
  MaxDay = 0
  MaxCrash = 0
  LossLimit = 1
  AccountConfigured = TRUE
  GatewayFaults = FALSE
  JournalFaults = FALSE
PROPERTIES
  ClosesOnlyWhileHeld
CHECK_DEADLOCK FALSE
