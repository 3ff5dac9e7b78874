SPECIFICATION FairSpec
CONSTANTS
  NumKeys = 2
  kMaxHeight = 2
  MaxLists = 4
  Inputs <- MCInputs
  NumWriters = 3
  write_buffer_size = 1
  WriteBufferSize = 6
  kVHeaderSize = 2
  kHeader = 1
  max_vlog_size = 10
  kSmallBatch = 4
  kMaxBatch = 8
  MaxWrites = 3
  MaxOps = 3
  MaxEvents = 1
INVARIANTS WritesApplied AddressesExact ReadsSeeSnapshot
PROPERTY WritesReturn
CHECK_DEADLOCK FALSE
