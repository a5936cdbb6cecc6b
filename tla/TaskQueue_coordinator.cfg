\* Two sub-agents of a coordinator and nobody else; everything that can fail
\* fails.  When gather has returned, nothing is left to do.
CONSTANTS
    Agents = {k, s1, s2}
    Tasks = {s1, s2}
    MaxAttempts = 1
    Faults = TRUE
    Chats = {}
    SubAgents = {s1, s2}
    Kairos = k
    Workers = {}
    Queue = {}
    Background = {}
    Nobody = nobody
SPECIFICATION QueueSpec
INVARIANTS
    AcceptedIsGood
    OneExecution
PROPERTIES
    SubtasksEnd
    AcceptedIsUsed
CHECK_DEADLOCK FALSE
