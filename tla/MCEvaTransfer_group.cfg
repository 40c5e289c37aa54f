\* The program ends after MaxCalls calls.
CONSTANTS
  DimX = 2
  DimY = 2
  EpaLog = 5
  GlobalXLog = 1
  GlobalYLog = 3
  GroupYLog = 2
  StripeLog = 3
  DataAddrBits = 9
  VcacheLog = 3
  BankSize = 512
  DramEnabled = TRUE
  SupportsDma = TRUE
  DmemBase = 8
  DmemSize = 8
  Csrs <- MCCsrs
  Host <- MCHost
  Calls <- PastArray
  Queries <- NoQueries
  MaxCalls = 3
SPECIFICATION Spec
PROPERTIES GroupWritesTiles
CHECK_DEADLOCK FALSE
