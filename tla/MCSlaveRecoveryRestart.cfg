SPECIFICATION Spec
CONSTANTS
  small = small
  exact = exact
  Garbage = Garbage
  Entries <- MCEntries
  Size <- MCSize
  WriteBufferSize = 5
  kVHeaderSize = 1
  max_vlog_size = 6
  MaxVlogs = 3
  MaxWrites = 4
  MaxRestarts = 1
  MaxCrashes = 0
INVARIANT
  RestartReadsAll
CHECK_DEADLOCK FALSE
