SPECIFICATION LiveSpec
CONSTANTS
  MaxFixes = 1
  MaxRevisions = 1
  MaxReplans = 1
  MaxRefusals = 1
  MaxCIFixes = 1
  SessionTries = 2
  OtherTries = 2
  CITries = 2
  MaxTasks = 1
INVARIANTS
  PublishedIsChecked
  GatesPassed
PROPERTIES
  RunEnds
