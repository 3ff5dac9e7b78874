SPECIFICATION Spec
CONSTANTS
  kNumLevels = 3
  kMaxMemCompactLevel = 1
  kMaxSequenceNumber = 9
  Trees <- MCTrees
  Snapshots = {3, 4}
  NumKeys = 3
  block_restart_interval = 2
  kFilterBase = 2
  BloomBits <- MCBloomBits
INVARIANTS TypeOK CursorAgrees TableGetsAgree
PROPERTY ErrorsStay
CHECK_DEADLOCK FALSE
