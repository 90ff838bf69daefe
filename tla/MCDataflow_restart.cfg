SPECIFICATION Spec
CONSTANTS
  Grid = 1
  FifoDepth = 2
  ReadKinds <- MCReadKinds
  WriteKinds <- MCWriteKinds
  Machines <- MCRestarting
  Families <- NoFamilies
INVARIANTS NoRace
