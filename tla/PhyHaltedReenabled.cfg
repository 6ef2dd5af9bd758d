SPECIFICATION WatchedSpec
CONSTANTS
  IrqModes = {"VALID"}
  AnTimeout = 1
  ForceTimeout = 1
  Faults = FALSE
  SharedLine = FALSE
  DidInterrupt = FALSE
  Restarts = FALSE
PROPERTY
  HaltedNotReenabled
