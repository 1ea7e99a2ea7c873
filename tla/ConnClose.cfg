\* The user closes, and closes again.
CONSTANTS
  Configs <- NoRenegotiation
  MayClear = FALSE
  MaxAlertCount = 2
SPECIFICATION FairSpec
PROPERTY CloseCompletes
