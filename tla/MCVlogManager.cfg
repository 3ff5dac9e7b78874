SPECIFICATION Spec
CONSTANTS
  small = small
  exact = exact
  large = large
  Garbage = Garbage
  Entries <- MCEntries
  Size <- MCSize
  WriteBufferSize = 8
  kVHeaderSize = 2
  max_vlog_size = 14
  MaxVlogs = 3
  BlockSizes = {3, 5, 6, 9}
INVARIANTS
  TypeOK
  HeadIsFileLength
  ReadBack
  BufferNeverOverruns
  RotatedVlogsOnDisk
  WalkFindsAddresses
PROPERTY
  ImplementsAppendLog
CHECK_DEADLOCK FALSE
