\* hb_mc_manycore_dma_read of a range of two lines.
CONSTANTS
  NumBanks = 2
  NumWays = 2
  NumLines = 2
  LineWords = 2
  Calls <- LongCalls
  MaxCalls = 3
  MaxTileSteps = 2
SPECIFICATION Spec
INVARIANTS ReadsLatest
CHECK_DEADLOCK FALSE
