SPECIFICATION Spec
CONSTANTS
  Pids = {p1, p2, p3}
  Ctxs = {a, b}
  Width = 2
  SeedInterval = 1
  Bounds <- MCBounds
  MaxEntropy = 3
  PidReuse = FALSE
SYMMETRY Symmetry
INVARIANTS NoRepeatedOutput SeedNotStale SeedHeld
CHECK_DEADLOCK FALSE
