SPECIFICATION TurnSpec
CONSTANTS
  Dirt = {"src"}
  MaxInputs = 4
  Snapshots <- MCSnapshots
  MaxId = 3
  MaxVetoes = 2
  NoProgress = 2
  DoneWhenRule = "goal"
  CleanTree = TRUE
  HasCommand = TRUE
  ClientUpdates = TRUE
  Gates <- MCGates
  MaxCalls = 1
  MaxReplies = 2
  MaxFaults = 1
  Edits = {"w"}
  Commands = {}
  Checks = {"c"}
  Waiting = {}
  IdenticalAfter = 2
  HaltAfter = 1
  NotLandingAfter = 2
  WatchAfter = 2
  StalledAfter = 2
  StalledHaltAfter = 1
  MaxBatch = 2
  MaxSpeaks = 2
  MaxLog = 11
  Segments <- MCSegments
  Rulesets <- MCRulesets
  MaxSegments = 2
  Letters = {"x", "y"}
  Limit = 2
  MinSpan = 2
  Every = 3
  Window = 8
  MaxText = 12
  AutoAfter = 1
  AutoMax = 2
  KeptRoom = 1
  MaxHistory = 7
  MaxLosses = 1
  Paths = {"f", "g"}
  MaxFiles = 1
  MaxReported = 1
  MaxChanges = 5
  KeepTurns = 1
  MaxView = 5
  MaxSaid = 2
  MaxNotes = 1
  MaxMishaps = 1
  Callers = {"s", "k"}
  MaxInFlight = 1
  Retries = 1
  MaxChunks = 2
INVARIANTS TurnTypeOK TasksAreSound TalkEnds CallsAreSound CirclesAreCaught ReplyIsSound HelpIsSound ViewIsWhole
PROPERTIES MetIsEarned GateIsMonotone ReportsAreRight RequestsExtend
CHECK_DEADLOCK FALSE
