SPECIFICATION FairSpec
CONSTANTS
  Nodes = {"a", "b", "j"}
  START = "START"
  DEFAULT = "DEFAULT"
  RouteTags = {}
  Edges <- JoinGraph
  Rerun = {"a"}
  WaitForOutput = {}
  JoinNodes = {"j"}
  MaxConcurrency = 0
  Resumable = FALSE
  Behaviour <- AskOften
  MaxRun = 2
  MaxTurn = 3
  SlowNodes = FALSE
  Crashes = FALSE
  BadAnswers = TRUE
INVARIANTS NoDivergence WaitingIsAnswerable
PROPERTIES ReplayInOrder SettledRunsOnce
CHECK_DEADLOCK FALSE
