SPECIFICATION Spec
CONSTANTS
  Symbols = {AAA}
  NoId = none
  MaxId = 3
  MaxDay = 1
  MaxCrash = 1
  LossLimit = 1
  AccountConfigured = FALSE
  GatewayFaults = TRUE
  JournalFaults = FALSE
INVARIANTS
  TypeOK
  PaperOnly
  NakedOnlyIf
  ShortOnlyIf
  OneEntryAtATime
  StopsAreTracked
  EveryEventIsSomewhere
PROPERTIES
  HaltedSendsNoEntry
  DeliversInOrder
CHECK_DEADLOCK FALSE
