CONSTANTS
  Procs = {p1, p2}
  NIL_PROC = NIL_PROC
  FULL = 3
  Proportions = {0, 1, 2, 3}
  MaxCalls = 8
SPECIFICATION Spec
INVARIANT HoldBounded
CHECK_DEADLOCK FALSE
