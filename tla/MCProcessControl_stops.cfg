SPECIFICATION FairSpec
CONSTANTS
  Nodes = {"left", "right"}
  Scenarios <- MCScenarios
  None = None
  MaxAttempts = 2
  MaxProcs = 3
INVARIANTS StopHolds ControlSafe
PROPERTIES StopEnds
CHECK_DEADLOCK FALSE
