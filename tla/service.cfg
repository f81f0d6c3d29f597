SPECIFICATION ServiceSpec
CONSTANTS
  Sessions = {"s", "k"}
  Children = {"k"}
  Tokens = {"t"}
  QueueSize = 2
  DoneAfter = 1
  MaxClock = 2
  MaxAppends = 2
  MaxRestarts = 1
  Clients = {c1, c2}
  Questions = {"q"}
  Waits = {}
  Nobody = "nobody"
  Family = {"r", "k"}
  Parent <- MCParent
  Calls = {"a", "b"}
  None = "None"
  MaxOps = 3
  MaxCrashes = 1
  Commands = {"x", "y", "z"}
  MaxDaemons = 3
  MaxKills = 1
  MaxStops = 1
  Users = {"u", "v"}
  Named = 3
  IndexCap = 2
  MaxMerges = 1
  MaxFacts = 3
  MaxTold = 1
  MaxPasses = 2
  MaxDeaths = 1
  HomeId = "home"
  StepId = "step"
  DayLength = 3
  MaxGap = 2
  Before <- MCBefore
  MaxTime = 4
  MaxWork = 1
INVARIANTS ServiceTypeOK ShownExactlyOnce PhonesAreTold ArchiveIsSound OneDaemonWrites MemoryIsKept StatsAddUp
PROPERTIES AskersAreServed
SYMMETRY MCSymmetry
CHECK_DEADLOCK FALSE
