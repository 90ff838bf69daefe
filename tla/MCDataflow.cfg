SPECIFICATION Spec
CONSTANTS
  Grid = 1
  FifoDepth = 2
  ReadKinds <- MCReadKinds
  WriteKinds <- MCWriteKinds
  Machines <- MCSchedules
  Families <- MCFamilies
INVARIANTS TypeOK ReadsMatchSequential NoRace ShapesOrdered NothingLeft
PROPERTIES Termination ImplementsHandshake
