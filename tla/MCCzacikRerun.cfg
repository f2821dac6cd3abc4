CONSTANTS
  BUFFER_SIZE = 3
  MaxSend = 2
  MaxRead = 3
  MaxRuns = 2
  Tidy = FALSE
SPECIFICATION Spec
INVARIANT NoReadFromEmpty
CHECK_DEADLOCK FALSE
