SPECIFICATION Spec
CONSTANTS
  Grid = 2
  FifoDepth = 2
  ReadKinds <- MCReadKinds
  WriteKinds <- MCWriteKinds
  Machines <- MCReductions
  Families <- NoFamilies
INVARIANTS PairedSignals
