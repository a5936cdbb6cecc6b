\* Two coroutines at a time, each save, compression, dream, search or accept.
CONSTANTS
    Procs = {p1, p2}
    Sessions = {s1, s2}
    Proposals = {q1}
    Dims = {zeros, short, long}
    Zero = zeros
    MinMessages = 2
    ConvoRoom = 1
    BatchLimit = 2
    PromptRoom = 1
    VectorLimit = 2
    TopK = 1
    MaxMessages = 3
    MaxMemories = 3
    MaxCopies = 2
    MaxAged = 1
    MaxKinds = 2
SPECIFICATION Spec
SYMMETRY Symmetry
INVARIANTS
    TypeOK
    SavedIsIndexed
    ConsolidatedIsCovered
    CompressedIsCovered
    
    AcceptedIsWritten
CHECK_DEADLOCK FALSE
