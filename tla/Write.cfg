SPECIFICATION Spec
CONSTANTS
  OutSize = 3
  Sizes = {1, 2, 4}
  Data = 2
  Links <- MCLinks
INVARIANTS WireIntact SuccessMeansSent SeqOnce DataOnce
CHECK_DEADLOCK FALSE
