CONSTANTS
  a = a
  b = b
  c = c
  d = d
  A = A
  none = none
  blank = blank
  t = t
  Names <- AllNames
  EmptyName = none
  Fold <- CaseFold
  Tasks = {blank, t}
  EmptyTask = blank
  Inputs <- AllInputs
  MaxTurns = 3
  Scenarios <- MCScenarios
SPECIFICATION PlanningSpec
INVARIANTS CompileExact CycleVerdict BatchesTopological RedundancyAdviceIsSafe
  TurnLeavesRun TurnRecords
PROPERTIES TurnEnds
