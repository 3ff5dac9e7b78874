SPECIFICATION FairSpec
CONSTANTS
  MaxRequests = 3
  MaxConns = 3
  MaxErrors = 1
INVARIANTS
  ReplyIsMine
PROPERTIES
  ExchangesEnd
  ShutdownEnds
CHECK_DEADLOCK FALSE
