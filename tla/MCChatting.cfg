CONSTANTS
  BUFFER_SIZE = 4
  PASSES = 2
  READS = 10
  MaxRuns = 2
SPECIFICATION FairSpec
INVARIANTS TypeOK MutualExclusion SemaphoresMatchQueue NobodyStuckInside
PROPERTIES ImplementsDeque Settles
CHECK_DEADLOCK FALSE
