SPECIFICATION RunCrashFair
CONSTANTS
  RunTasks = 1
  RunMaxFixes = 1
  RunMaxRevisions = 1
  RunSessionTries = 2
  RunTries = 2
  ForgetsCommit = TRUE
  MaxRunCrashes = 0
  MaxReviews = 1
PROPERTIES RunConcludes
CHECK_DEADLOCK FALSE
