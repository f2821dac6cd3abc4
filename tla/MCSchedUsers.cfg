CONSTANTS
  Procs = {p1, p2, p3}
  NIL_PROC = NIL_PROC
  FULL = 4
  Proportions = {1, 3}
  MaxCalls = 6
  MaxChildren = 2
  Work = 2
  ProgramCalls = 2
SPECIFICATION FairUsers
INVARIANTS UsersTypeOK ListSound HoldBounded NoBLAD
PROPERTIES ImplementsReadyQueue EveryoneRuns ProcesyEnds
CHECK_DEADLOCK FALSE
