SPECIFICATION FairSpec
CONSTANTS
  a = a
  b = b
  d1 = d1
  d2 = d2
  u1 = u1
  u2 = u2
  Nodes = {a, b}
  Drivers = {d1, d2}
  Users = {u1, u2}
  Scenarios <- MCScenarios
INVARIANTS DriverSafe
  
