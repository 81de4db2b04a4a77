CONSTANTS
  a = a
  b = b
  r = r
  s = s
  t = t
  Nodes <- ReviewNodes
  Deps <- ReviewDeps
  Feedback <- ReviewFeedback
  MaxParallel = 2
  MaxFeedback = 1
  UserBudget = 2
  MaxCrashes = 1
  Requests = {"pause", "resume"}
  Outcomes = {"changed", "failed"}
SPECIFICATION Spec
INVARIANTS OneWriter WorkIsHeld DeliversResults
PROPERTIES StopWins
