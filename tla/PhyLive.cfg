SPECIFICATION WatchedFairSpec
CONSTANTS
  IrqModes = {"POLL", "IGNORE", "VALID"}
  AnTimeout = 1
  ForceTimeout = 1
  Faults = FALSE
  SharedLine = FALSE
  DidInterrupt = FALSE
  Restarts = FALSE
INVARIANTS
  IrqLive
PROPERTIES
  HaltDropsCarrier
  PolledLinkTracked
  LinkTracked
  MacLinkTracked
