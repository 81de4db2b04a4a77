CONSTANTS
  a = a
  b = b
  r = r
  s = s
  t = t
  Nodes <- BatchNodes
  Deps <- BatchDeps
  Feedback <- BatchFeedback
  MaxParallel = 2
  MaxFeedback = 1
  UserBudget = 1
  MaxCrashes = 0
  Requests = {"stop", "stop_node"}
  Outcomes = {"changed", "failed"}
SPECIFICATION FairSpec
INVARIANTS FeedbackBudget
PROPERTIES RunProgress
