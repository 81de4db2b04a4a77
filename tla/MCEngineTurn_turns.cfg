SPECIFICATION FairSpec
CONSTANTS
  None = None
  Calls = {"c1", "c2"}
  Requests = {"r1"}
  Of <- MCOf
  MaxErrors = 1
INVARIANTS SteersTold 
PROPERTIES TurnProgress
CHECK_DEADLOCK FALSE
