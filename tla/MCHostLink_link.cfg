\* The program ends after MaxCalls calls, and the link falls silent.
CONSTANTS
  Addr <- MCAddr
  Home <- MCHome
  HostCredits = 2
  MaxOutCredits = 2
  LoadCap = 3
  FenceLocals <- CleanLocals
  Calls <- MCCalls
  MaxCalls = 4
SPECIFICATION FairSpec
INVARIANTS TypeOK ReadsReturnMemory FencedStoresPerformed StoreHasRoom NeverUnderflows IdsFreeOrInFlight
PROPERTIES CallsReturn
CHECK_DEADLOCK FALSE
