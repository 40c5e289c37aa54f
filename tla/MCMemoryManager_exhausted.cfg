\* hb_mc_device_malloc reports success when memory is exhausted.
SPECIFICATION Spec
CONSTANTS
  Start = 4
  Size = 14
  Alignment = 2
  CoalesceThreshold = 4
  Requests <- SomeSizes
  EvaSpace = 64
INVARIANT SuccessIsAllocated
