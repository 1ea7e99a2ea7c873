SPECIFICATION Spec
CONSTANTS
  Headers <- MCHeaders
  Cuts = {0, 3, 9, 16, 21, 24}
  Cookie = TRUE
  MaxExceed = 1
  MaxDelivered = 4
INVARIANTS WholeMessages InOrder QueueBounded
CHECK_DEADLOCK FALSE
