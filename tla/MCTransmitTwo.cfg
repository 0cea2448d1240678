SPECIFICATION Spec
CONSTANTS
  Symbols = {AAA, BBB}
  NoId = none
  MaxId = 3
  MaxDay = 0
  MaxCrash = 0
  LossLimit = 1
  AccountConfigured = TRUE
  GatewayFaults = TRUE
  JournalFaults = FALSE
INVARIANTS
  ShortOnlyIf
CHECK_DEADLOCK FALSE
