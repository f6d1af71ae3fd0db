SPECIFICATION Spec
CONSTANTS
    Sids = {s1}
    Callers = {c1}
    Scope <- ScopeOfKey
    Operations = {"run", "rewind"}
    AutoCreate = TRUE
    InitialStates <- NoInitialState
    Messages <- PlainMessage
    Replies <- StateReply
    AgentFails = FALSE
    Deletions = FALSE
    Redeliveries = FALSE
    MaxInv = 6
INVARIANTS RewindRestoresState RewindRestoresArtifact
CHECK_DEADLOCK FALSE
