SPECIFICATION Spec
CONSTANTS
  Process = {p1, p2}
  GLOBALMEM_SIZE = 2
  UInt = 4
  ULong = 4
  Offsets <- Few
  Sizes = {0, 1, 2, 3}
  Limit = 6
  Faults = TRUE
INVARIANTS
  MemoryPresent
  PositionInside
