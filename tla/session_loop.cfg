SPECIFICATION Spec
CONSTANTS
  c1 = c1
  c2 = c2
  c3 = c3
  NoCall = NoCall
  Calls = {c1, c2, c3}
  Ops <- MCAllOps
  FirstBudget = 1
  Budgets <- MCRaise
  TurnCap = 2
  MaxCrashes = 1
SYMMETRY CallSymmetry
INVARIANTS
  OneLoop
  NothingStranded
  RunningIsBacked
  NoLateResult
PROPERTIES
  BudgetHolds
