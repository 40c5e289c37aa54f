\* The program ends after MaxCalls calls.
CONSTANTS
  NumBanks = 2
  NumWays = 1
  NumLines = 2
  LineWords = 2
  Calls <- MCCalls
  MaxCalls = 3
  MaxTileSteps = 2
SPECIFICATION Spec
INVARIANTS TypeOK Coherent ReadsLatest
PROPERTIES TilesLoadLatest
CHECK_DEADLOCK FALSE
