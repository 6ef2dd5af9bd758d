SPECIFICATION Spec
CONSTANTS
  p1 = p1
  p2 = p2
  Proc = {p1}
  Tries = 5
  ByteBits = 2
  Frames <- Good
  Preambles = {85}
  Silent = FALSE
  Late = TRUE
  Races = {"none"}
  IrqTaken = FALSE
INVARIANT
  Trustworthy
