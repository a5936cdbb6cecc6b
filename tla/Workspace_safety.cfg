\* Two agents of different processes, a user and rollbacks, over two files, and
\* one agent with every kind of task, configuration, command and git.
CONSTANTS
    a1 = a1
    a2 = a2
    f1 = f1
    f2 = f2
    Agents = {a1, a2}
    Files = {f1, f2}
    Environments <- MCAllEnvironments
    Texts <- MCTexts
    Paths <- MCPaths
    Commands <- MCAllCommands
    MaxAttempts = 3
    MaxEdits = 2
    MaxPoints = 3
    MaxClock = 1
SPECIFICATION Spec
SYMMETRY MCSymmetry
CONSTRAINT MCBound
INVARIANTS
    TypeOK
    EditsKept
    PointBeforeWork
CHECK_DEADLOCK FALSE
