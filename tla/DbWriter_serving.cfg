\* Nobody shuts the layer down: every call gets its answer, and the only state
\* in which nothing can happen is the one where all of them have it.
CONSTANTS
    Callers = {w1, w2, f1}
    Writes = {w1, w2}
    Cancellable = {w1, f1}
    Pill = Pill
    Nothing = Nothing
SPECIFICATION ServingSpec
PROPERTIES
    EveryCallAnswered
