SPECIFICATION WatchedSpec
CONSTANTS
  IrqModes = {"VALID"}
  AnTimeout = 1
  ForceTimeout = 1
  Faults = TRUE
  SharedLine = TRUE
  DidInterrupt = TRUE
  Restarts = TRUE
INVARIANTS
  TypeOK
  IrqBalanced
  RunningHasCarrier
  TimeoutArmed
  DetachedIsIdle
  StartedIsPowered
PROPERTIES
  LineSpec
  LinkSpec
