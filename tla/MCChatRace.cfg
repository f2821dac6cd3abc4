CONSTANTS
  p1 = p1
  r1 = r1
  r2 = r2
  rd = rd
  PriUsers <- MCPriUsers
  RegUsers <- MCRegUsers
  Reader = rd
  CAPACITY = 2
  MaxSend = 2
  MaxRead = 2
SPECIFICATION Spec
INVARIANT ListOnlyInsideMonitor
CHECK_DEADLOCK FALSE
