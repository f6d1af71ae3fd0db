SPECIFICATION Spec
CONSTANTS
    Sids = {s1, s2}
    Callers = {c1, c2}
    Scope <- ScopeOfKey
    Operations = {"run"}
    AutoCreate = TRUE
    InitialStates <- NoInitialState
    Messages <- ScopedMessage
    Replies <- OneReply
    AgentFails = TRUE
    Deletions = TRUE
    Redeliveries = TRUE
    MaxInv = 3
SYMMETRY AnyCaller
INVARIANTS SharedAsNewAsEvents StoredOnce CopyFollowsStore
CHECK_DEADLOCK FALSE
