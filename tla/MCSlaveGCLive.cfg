SPECIFICATION FairSpec
CONSTANTS
  NumKeys = 1
  VlogCap = 1
  GC_MIN_THRESHOLD = 2
  GC_MAX_THRESHOLD = 3
  MaxPuts = 3
  MaxVlogs = 5
  MaxFaults = 2
PROPERTY
  OldFilesCollected
CHECK_DEADLOCK FALSE
