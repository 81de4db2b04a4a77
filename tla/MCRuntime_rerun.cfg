CONSTANTS
  a = a
  b = b
  r = r
  s = s
  t = t
  Nodes <- RerunNodes
  Deps <- RerunDeps
  Feedback = {}
  MaxParallel = 2
  MaxFeedback = 0
  UserBudget = 1
  MaxCrashes = 0
  Requests = {"intervene"}
  Outcomes = {"changed"}
SPECIFICATION Spec
INVARIANTS PublishesFinalResults
