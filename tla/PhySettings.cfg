SPECIFICATION Spec
CONSTANTS
  SupportedSets <- Kinds
  Speeds = {100, 1000}
  Offers <- SomeOffers
  Ioctls = TRUE
INVARIANTS
  ForcedSane
  AgreesWithPhy
  NextBest
