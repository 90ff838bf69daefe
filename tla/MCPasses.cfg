SPECIFICATION Spec
CONSTANT Families <- AllPrograms
INVARIANTS IterationsKept OrderKept SameResults TokenOrderKept FlowsKept NoStall UsesDominated DataFits
PROPERTIES Ends
