SPECIFICATION Spec
CONSTANTS
  c1 = c1
  c2 = c2
  NoCall = NoCall
  Calls = {c1, c2}
  Ops <- MCPrompts
  FirstBudget = 0
  Budgets <- MCUnlimited
  TurnCap = 1
  MaxCrashes = 0
INVARIANTS PromptAnswered
