SPECIFICATION FairSpec
CONSTANTS
  p1 = p1
  p2 = p2
  Proc = {p1, p2}
  Tries = 5
  ByteBits = 2
  Frames <- Mixed
  Preambles = {85}
  Silent = TRUE
  Late = FALSE
  Races = {"none", "close"}
  IrqTaken = FALSE
INVARIANTS
  TypeOK
  Trustworthy
  QuietWhenClosed
  OpenCounts
  HealthyAnswer
PROPERTY
  OpenReturns
