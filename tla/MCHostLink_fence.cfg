\* The fence's uninitialized locals hold what it waits for.
CONSTANTS
  Addr <- MCAddr
  Home <- MCHome
  HostCredits = 2
  MaxOutCredits = 2
  LoadCap = 3
  FenceLocals <- AnyLocals
  Calls <- MCCalls
  MaxCalls = 4
SPECIFICATION Spec
INVARIANTS FencedStoresPerformed
CHECK_DEADLOCK FALSE
