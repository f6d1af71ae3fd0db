SPECIFICATION Spec
CONSTANTS
  Agents = {"r", "a"}
  Root = "r"
  Kind <- ToolKinds
  Target <- ToSub
  Failing = {"p"}
  Replies <- TwoAgents
  MaxLlmCalls = 2
  Rewritten = {"a"}
  MaxTurn = 3
INVARIANTS OncePerApproval CallsAnswered EventsStoredOnce CallsLimited
CHECK_DEADLOCK FALSE
