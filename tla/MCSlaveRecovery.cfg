SPECIFICATION Spec
CONSTANTS
  small = small
  exact = exact
  Garbage = Garbage
  Entries <- MCEntries
  Size <- MCSize
  WriteBufferSize = 5
  kVHeaderSize = 1
  max_vlog_size = 6
  MaxVlogs = 4
  MaxWrites = 5
  MaxRestarts = 2
  MaxCrashes = 1
INVARIANTS
  StoppedHasAllOnDisk
  CurrentReadable
PROPERTY
  RecordsStayInFiles
CHECK_DEADLOCK FALSE
