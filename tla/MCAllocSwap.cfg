CONSTANTS
  NR_PROCS = 3
  Chunks <- MCOneChunk
  AddressSpace = 7
  Sizes <- MCSizes
  SwapSizes = {1, 5}
  Policies = {0, 2}
  UINTS = 128
  BufferSizes <- MCBufferSizes
SPECIFICATION Spec
INVARIANTS TypeOK TableSound SwapSeparate QueueSound
PROPERTIES ImplementsPhysMem PolicyObeyed EveryTurnCounts
CHECK_DEADLOCK FALSE
