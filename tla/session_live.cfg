SPECIFICATION LiveSpec
CONSTANTS
  c1 = c1
  c2 = c2
  NoCall = NoCall
  Calls = {c1, c2}
  Ops <- MCAllOps
  FirstBudget = 0
  Budgets <- MCUnlimited
  TurnCap = 1
  MaxCrashes = 1
PROPERTIES CallsReturn
