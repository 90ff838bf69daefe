\* Path expansion of every combination of load and store stages.
SPECIFICATION Spec
CHECK_DEADLOCK FALSE
CONSTANTS
  Devices <- MCDevices
  Pipelines <- MCPipelines
INVARIANTS OverDatapaths DataArrives TokensFollowData StagesWaitBackwards SlotsKeepOrder RoutesShortest
