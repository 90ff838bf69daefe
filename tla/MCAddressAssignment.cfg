SPECIFICATION Spec
CONSTANTS
  ddr = ddr
  l1 = l1
  Memories <- MCMemories
  GlobalMemory = ddr
  Capacity <- MCCapacity
  Reserved <- MCReserved
  Word = 64
  CountsFailures = TRUE
  Inputs <- MCInputs
INVARIANTS AddressInv NoOverlap WithinCapacity ExactOffsets AllPlacedOrFailed
CHECK_DEADLOCK FALSE
