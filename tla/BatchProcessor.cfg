SPECIFICATION FairSpec
CONSTANTS
  MaxOps = 3
  Invalid = {1}
  OpSize <- Sizes
  ChannelCap = 2
  MaxOpsPerBatch = 2
  MaxBatchBytes = 2
  SegmentCapacity = 3
  RecordOverhead = 1
  MultiThread = TRUE
  IoErrors = TRUE
INVARIANTS
  LoggedInOrder
  NothingVanishes
  FlushedAreLogged
PROPERTIES
  ImplementsOpLog
  WorkSettles
CHECK_DEADLOCK FALSE
