CONSTANTS
  p1 = p1
  r1 = r1
  r2 = r2
  rd = rd
  PriUsers <- MCPriUsers
  RegUsers <- MCTwoRegUsers
  Reader = rd
  CAPACITY = 3
  MaxSend = 2
  MaxRead = 4
SPECIFICATION FairSpec
INVARIANTS TypeOK MutualExclusion BufferBounds PriorityFirst NoLostWakeup
PROPERTIES ImplementsPriorityQueue Settles
CHECK_DEADLOCK FALSE
