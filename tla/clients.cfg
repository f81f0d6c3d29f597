SPECIFICATION ClientsSpec
CONSTANTS
  GoalRounds = 2
  MaxFailures = 2
  GoalTries = 1
  GoalCITries = 1
  MaxBriefs = 2
  MaxHomes = 3
  MaxResumes = 1
  MaxCIFails = 1
  MaxGoalCrashes = 1
  MaxRunResumes = 1
  RunTasks = 1
  RunMaxFixes = 1
  RunMaxRevisions = 1
  RunSessionTries = 2
  RunTries = 2
  ForgetsCommit = TRUE
  MaxRunCrashes = 1
  MaxReviews = 1
  MaxJobs = 2
  MaxHeads = 2
  MaxComments = 1
  MaxLost = 1
  MaxEdits = 1
  MaxSessions = 2
  MaxIssueRuns = 1
  Drainers = {"d1", "d2"}
  MaxPrompts = 2
  MaxOthers = 2
  MaxCuts = 2
  MaxPauses = 1
  Buffer = 1
  r1 = r1
  r2 = r2
  Refreshers = {r1, r2}
  Shown = {"s", "k"}
  AskedPrompts = {"p"}
  PromptOf <- MCPromptOf
  MaxLogged = 2
  MaxBreaks = 1
  MaxTyped = 2
INVARIANTS ClientsTypeOK GoalIsWhole GoalStopsInTime NothingIsDoneTwice SaidOnce PhoneIsSound ScreenIsWhole
SYMMETRY MCSymmetry
CHECK_DEADLOCK FALSE
