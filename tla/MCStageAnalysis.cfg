SPECIFICATION Spec
CONSTANT Schedules <- MCSchedules
INVARIANTS StageInv CyclesRejected SortRespectsTokens BuildsDAG NoOrderAdded OrderSurvivesNesting
