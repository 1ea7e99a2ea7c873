SPECIFICATION Spec
CONSTANTS
  Modes <- AllModes
  Fragments = 1
  MaxTimeoutNum = 3
  MaxLoss = 1
  MaxSpurious = 1
  MaxCopies = 2
  Expires = TRUE
INVARIANTS NoFatal WriteStateRestored LastFlightFirst
CHECK_DEADLOCK FALSE
