\* Every role and version, every call in every order.
CONSTANTS
  Configs <- AllConfigs
  MayClear = TRUE
  MaxAlertCount = 3
SPECIFICATION Spec
INVARIANTS CloseIsLast FatalIsFinal FatalIsSent WriteOnce
