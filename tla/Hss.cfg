SPECIFICATION Spec
CONSTANTS
  t1 = t1
  t2 = t2
  Types = {t1, t2}
  Height <- MCHeight
  ParaIds <- MCParaIds
  MaxLevels = 3
  CounterBits = 4
  MaxFails = 1
  Setters = "unset"
  Bounds <- MCBounds
INVARIANTS OneTimeUse SignatureVerifies
PROPERTY CounterMonotone
