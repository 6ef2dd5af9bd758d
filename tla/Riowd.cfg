SPECIFICATION Spec
CONSTANTS
  u1 = u1
  u2 = u2
  User = {u1, u2}
  Params = {1, 256, 257}
  Margins = {59, 60, 61, 121}
  Late = 3
SYMMETRY Processes
INVARIANTS
  Usable
  NeverEarly
  Armed
