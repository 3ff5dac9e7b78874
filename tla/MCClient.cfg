SPECIFICATION FairSpec
CONSTANTS
  WORKER_COUNT = 2
  WORKER_RANGES <- MCRanges
  Chars <- MCChars
  ErrorKeys = {1}
  Values = {v1, v2}
  EndValues = {v2}
  MaxCommands = 3
  MaxWrites = 1
  MaxCrashes = 1
  MaxErrors = 1
INVARIANTS RepliesMatch SentToOwner ScanComplete
PROPERTY CommandsEnd
CHECK_DEADLOCK FALSE
