\* read_mem is refused an address after its first load has been sent.
CONSTANTS
  Addr <- MCAddr
  Home <- MCHome
  HostCredits = 2
  MaxOutCredits = 2
  LoadCap = 3
  FenceLocals <- CleanLocals
  Calls <- BadCalls
  MaxCalls = 4
SPECIFICATION Spec
INVARIANTS ReadsReturnMemory
CHECK_DEADLOCK FALSE
