SPECIFICATION Spec
CONSTANTS
  Certs <- AllCerts
  Crls <- AllCrls
  Scenarios <- MCScenarios
  MaxDepth = 5
  MaxFindNum = 6
INVARIANTS Sound 
PROPERTY Terminates
CHECK_DEADLOCK FALSE
