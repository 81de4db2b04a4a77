SPECIFICATION FairSpec
CONSTANTS
  None = None
  Foreign = Foreign
  Files = {"f1", "f2"}
  Heads = {1, 2}
  Change <- TwoResults
  Scenarios <- MCScenarios
  MaxAttempts = 6
INVARIANTS PublicationSafe
PROPERTIES ImplementsDelivery Concludes
CHECK_DEADLOCK FALSE
