SPECIFICATION Spec
CONSTANTS
    Configs <- AllConfigs
    Replies <- AllReplies
    MaxCalls = 2
    MaxEvents = 7
    MaxTurns = 4
INVARIANTS NothingLost CallsPaired RewoundUnseen RequestBuilt NewestShown
CHECK_DEADLOCK FALSE
