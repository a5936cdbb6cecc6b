\* A chat, KAIROS and two workers on one task of each priority; everything
\* that can fail fails.  The team may stop and every agent end.
CONSTANTS
    Agents = {k, c}
    Tasks = {c, q, b}
    MaxAttempts = 3
    Faults = TRUE
    Chats = {c}
    SubAgents = {}
    Kairos = k
    Workers = {w1, w2}
    Queue = {q, b}
    Background = {b}
    Nobody = nobody
SPECIFICATION QueueSpec
SYMMETRY Symmetry
INVARIANTS
    QueueTypeOK
    AnswerMatchesTables
    MemoryPerAttempt
    NoTakeover
PROPERTIES
    StatusMovesOn
    ClaimIsKept
    RunTaskSpec
CHECK_DEADLOCK FALSE
