CONSTANTS
  BUFFER_SIZE = 2
  MaxSend = 3
  MaxRead = 4
  MaxRuns = 2
  Tidy = TRUE
SPECIFICATION FairSpec
INVARIANTS TypeOK MutualExclusion SemaphoresMatchQueue
PROPERTIES ImplementsDeque Settles
CHECK_DEADLOCK FALSE
