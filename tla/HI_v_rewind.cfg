SPECIFICATION Spec
CONSTANTS
    Configs <- AllConfigs
    Replies <- AllReplies
    MaxCalls = 2
    MaxEvents = 7
    MaxTurns = 4
INVARIANTS RewindDropsInvocation
CHECK_DEADLOCK FALSE
