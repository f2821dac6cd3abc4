CONSTANTS
  NR_PROCS = 2
  Chunks <- MCOneChunk
  AddressSpace = 7
  Sizes <- MCSizes
  SwapSizes = {2}
  Policies = {0}
  UINTS = 128
  BufferSizes <- MCBufferSizes
SPECIFICATION Spec
PROPERTY SwapOffCloses
CHECK_DEADLOCK FALSE
