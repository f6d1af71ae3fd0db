SPECIFICATION FairSpec
CONSTANTS
  Leaves = {"x", "y", "z", "u", "v", "w"}
  Sequentials = {"s", "q"}
  Loops = {"l"}
  Parallels = {"p"}
  SubAgents <- Tree
  Root = "s"
  MaxIterations <- Twice
  Answers <- MixedAnswers
  After = {"q"}
  MaxTurn = 3
INVARIANTS NotRepeated PassesBounded EndMeansDone SeesEarlierState
PROPERTIES AgentsTurnEnds
CHECK_DEADLOCK FALSE
