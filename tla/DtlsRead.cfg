\* Two handshakes in a row, so that a CCS can be early, late or repeated: records of
\* every type, and application records that fail the integrity check.
CONSTANTS
  WindowSize = 2
  MaxEpoch = 2
  MaxSeq = 2
  MaxRecords = 5
  AppMsgCountMax = 1
  RecTypes = {"handshake", "ccs", "app", "alert"}
  JunkTypes = {"app"}
SPECIFICATION Spec
INVARIANTS NoReplay FreshNotRejected OnlyAuthentic EpochNotAhead AppAfterFinished
PROPERTY ImplementsPromise
CHECK_DEADLOCK FALSE
