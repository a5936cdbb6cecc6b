\* The rollback of a point made with a git that does not print "HEAD".
CONSTANTS
    a1 = a1
    a2 = a2
    f1 = f1
    f2 = f2
    Agents = {a1, a2}
    Files = {f1, f2}
    Environments <- MCPresent
    Texts <- MCTexts
    Paths <- MCPaths
    Commands <- MCCommands
    MaxAttempts = 2
    MaxEdits = 2
    MaxPoints = 2
    MaxClock = 1
SPECIFICATION Spec
SYMMETRY MCSymmetry
INVARIANT RollbackRestores
CHECK_DEADLOCK FALSE
