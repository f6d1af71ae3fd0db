SPECIFICATION Spec
CONSTANTS
  Tasks = {"p", "q"}
  Dynamic = {"c", "d", "e"}
  Calls <- TwoBodies
  Outcomes <- BodiesAsk
  Rerun = {"p", "q", "c"}
  WaitForOutput = {"d"}
  GoOn = {"p"}
  Timed = {"p"}
  MaxAttempts <- PTwice
  RetryOn <- AnyError
  Folds = {"p", "q"}
  MaxTurn = 3
INVARIANTS SchedulerTypeOK CompletedNotRerun AnswerReachesTask WaitingCanBeAnswered PendingHasWaiter
CONSTRAINT FewErrors
CHECK_DEADLOCK FALSE
