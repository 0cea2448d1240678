SPECIFICATION FairSpec
CONSTANTS
  Symbols = {AAA}
  NoId = none
  MaxId = 2
  MaxDay = 1
  MaxCrash = 1
  LossLimit = 1
  AccountConfigured = TRUE
  GatewayFaults = TRUE
  JournalFaults = TRUE
PROPERTIES
  EveryIntentIsDecided
CHECK_DEADLOCK FALSE
