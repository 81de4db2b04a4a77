CONSTANTS
  a = a
  b = b
  r = r
  s = s
  t = t
  Nodes <- JoinNodes
  Deps <- JoinDeps
  Feedback = {}
  MaxParallel = 2
  MaxFeedback = 0
  UserBudget = 2
  MaxCrashes = 1
  Requests = {"intervene", "pause", "resume", "stop_node", "resume_after_intervention", "resolve", "retry_publication", "reject"}
  Outcomes = {"changed", "unchanged", "failed", "composition"}
SPECIFICATION FairSpec
INVARIANTS DispatchSound
PROPERTIES MessagesReachWorkers
