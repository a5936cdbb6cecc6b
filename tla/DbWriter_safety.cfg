\* Everything that can happen to the layer: cancelled callers, failing
\* statements, commits and connections, the pill, a cancelled writer.
CONSTANTS
    Callers = {w1, w2, w3, f1}
    Writes = {w1, w2, w3}
    Cancellable = {w1, w2, w3, f1}
    Pill = Pill
    Nothing = Nothing
SPECIFICATION Spec
SYMMETRY Symmetry
INVARIANTS
    TypeOK
    AcknowledgedIsDurable
    AppliedInOrder
    NoWaiterStranded
    ReadsFollowAnswers
    StopAnswersEarlierCalls
PROPERTIES
    ServiceSpec
CHECK_DEADLOCK FALSE
