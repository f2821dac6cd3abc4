CONSTANTS
  NR_PROCS = 2
  SwapStart = 6
  Highest = 8
  Requests = {1, 2}
SPECIFICATION ListSpec
VIEW ReadNumbers
INVARIANTS ListTypeOK LinksAreTable NoStrayPointer
CHECK_DEADLOCK FALSE
