SPECIFICATION Spec
CONSTANT Families <- Retiled
INVARIANTS IterationsKept
