SPECIFICATION Spec
CONSTANTS
  NumKeys = 2
  VlogCap = 2
  GC_MIN_THRESHOLD = 1
  GC_MAX_THRESHOLD = 2
  MaxPuts = 3
  MaxVlogs = 3
  MaxFaults = 1
INVARIANTS
  ValuesSafe
  ReadsReturnValue
  ScannedIsGarbage
CHECK_DEADLOCK FALSE
