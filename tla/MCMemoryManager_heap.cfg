SPECIFICATION Spec
CONSTANTS
  Start = 4
  Size = 14
  Alignment = 2
  CoalesceThreshold = 4
  Requests <- SomeSizes
  EvaSpace = 64
INVARIANTS TypeOK BuffersPartitionRange FreeSizeIsExact LongListIsCoalesced
