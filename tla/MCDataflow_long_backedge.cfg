SPECIFICATION Spec
CONSTANTS
  Grid = 1
  FifoDepth = 2
  ReadKinds <- MCReadKinds
  WriteKinds <- MCWriteKinds
  Machines <- MCLongBackEdgeLoops
  Families <- NoFamilies
INVARIANTS ReadsMatchSequential
