SPECIFICATION FairSpec
CONSTANTS
  Tasks = {"p", "q"}
  Dynamic = {"c", "d"}
  Calls <- Nested
  Outcomes <- AllOut
  Rerun = {"p", "c"}
  WaitForOutput = {}
  GoOn = {}
  Timed = {}
  MaxAttempts <- Once
  RetryOn <- AnyError
  Folds = {"p", "c"}
  MaxTurn = 1
PROPERTIES TasksSettle
CHECK_DEADLOCK FALSE
