SPECIFICATION Spec
CONSTANT Inputs <- MCInputs
INVARIANTS SlotsInStep BlocksKept
