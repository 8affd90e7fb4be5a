\* Two attempts, so that a late one and the one that replaces it overlap.
CONSTANTS
    MaxAttempts = 2
    Sources = {"ui"}
    Agents = {"mock", "claude_agent_sdk", "claude_container"}
SPECIFICATION Spec
INVARIANTS
    HandsUpWork
    CostGuard
    LeftBehind
CHECK_DEADLOCK FALSE
