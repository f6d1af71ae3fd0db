SPECIFICATION FairSpec
CONSTANTS
  Nodes = {"a", "b", "c"}
  START = "START"
  DEFAULT = "DEFAULT"
  RouteTags = {}
  Edges <- ForkGraph
  Rerun = {"b"}
  WaitForOutput = {"a"}
  JoinNodes = {}
  MaxConcurrency = 2
  Resumable = TRUE
  Behaviour <- ForkFails
  MaxRun = 2
  MaxTurn = 3
  SlowNodes = TRUE
  Crashes = TRUE
  BadAnswers = FALSE
INVARIANTS IInv SingleFlight ConcurrencyLimit TriggersDrained
PROPERTIES NothingStartsAfterError TurnEnds
CHECK_DEADLOCK FALSE
