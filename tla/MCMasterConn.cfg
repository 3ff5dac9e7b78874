SPECIFICATION FairSpec
CONSTANTS
  WORKER_COUNT = 1
  MaxFd = 2
  MaxConns = 3
  MaxFaults = 1
INVARIANTS
  ConnectionsMatch
  WorkerFdsAccurate
PROPERTY
  RequestsAnswered HealthyStaysOpen
CHECK_DEADLOCK FALSE
