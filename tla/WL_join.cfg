SPECIFICATION FairSpec
CONSTANTS
  Nodes = {"a", "b", "c", "j"}
  START = "START"
  DEFAULT = "DEFAULT"
  RouteTags = {"again"}
  Edges <- LoopJoinGraph
  Rerun = {}
  WaitForOutput = {}
  JoinNodes = {"j"}
  MaxConcurrency = 0
  Resumable = FALSE
  Behaviour <- LoopOutcomes
  MaxRun = 3
  MaxTurn = 4
  SlowNodes = FALSE
  Crashes = TRUE
  BadAnswers = FALSE
INVARIANTS JoinFires SameInput
PROPERTIES ImplementsLedger
CHECK_DEADLOCK FALSE
