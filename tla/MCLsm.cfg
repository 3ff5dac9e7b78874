SPECIFICATION Spec
CONSTANTS
  kNumLevels = 3
  kMaxMemCompactLevel = 1
  kMaxSequenceNumber = 6
  NumKeys = 2
  Calls <- PutsAndDeletes
  WriteBufferSize = 1
  LongKeys = {2}
  kL0_CompactionTrigger = 2
  kL0_StopWritesTrigger = 2
  MaxWrites = 5
  MaxCompactRanges = 0
  MaxEvents = 1
INVARIANTS LevelsDisjoint NewestOnTop ReadsAgree FilesKept
CHECK_DEADLOCK FALSE
