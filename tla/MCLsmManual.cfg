SPECIFICATION FairSpec
CONSTANTS
  kNumLevels = 3
  kMaxMemCompactLevel = 0
  kMaxSequenceNumber = 5
  NumKeys = 1
  Calls <- OnePut
  WriteBufferSize = 0
  LongKeys = {}
  kL0_CompactionTrigger = 1
  kL0_StopWritesTrigger = 2
  MaxWrites = 3
  MaxCompactRanges = 1
  MaxEvents = 1
INVARIANTS ReadsAgree FlushForced
PROPERTY CallsReturn
CHECK_DEADLOCK FALSE
