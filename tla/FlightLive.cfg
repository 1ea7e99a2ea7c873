SPECIFICATION FairSpec
CONSTANTS
  Modes <- OfferModes
  Fragments = 1
  MaxTimeoutNum = 5
  MaxLoss = 1
  MaxSpurious = 1
  MaxCopies = 1
  Expires = FALSE
PROPERTY Connects
CHECK_DEADLOCK FALSE
