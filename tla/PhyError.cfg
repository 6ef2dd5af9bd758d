SPECIFICATION WatchedFairSpec
CONSTANTS
  IrqModes = {"POLL"}
  AnTimeout = 1
  ForceTimeout = 1
  Faults = TRUE
  SharedLine = FALSE
  DidInterrupt = FALSE
  Restarts = FALSE
PROPERTY
  ErrorDropsCarrier
