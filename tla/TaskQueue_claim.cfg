\* Two workers select the same row before either claims it.
CONSTANTS
    Agents = {k}
    Tasks = {q}
    MaxAttempts = 1
    Faults = FALSE
    Chats = {}
    SubAgents = {}
    Kairos = k
    Workers = {w1, w2}
    Queue = {q}
    Background = {}
    Nobody = nobody
SPECIFICATION QueueSpec
INVARIANTS
    ClaimExclusive
CHECK_DEADLOCK FALSE
