SPECIFICATION Spec
CONSTANT Schedules <- SiblingSchedules
INVARIANTS GlobalOrderIsTokenOrder
