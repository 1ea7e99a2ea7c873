SPECIFICATION Spec
CONSTANTS
  Servers = {a, b}
  Clients = {c}
  Sess = {s1, s2, s3}
  Ids = {i1, i2}
  Timeout = 1
  MaxTime = 2
  Settings <- MCSettings
SYMMETRY Symmetric
INVARIANTS References ResumesUsable RemovedStaysRemoved
