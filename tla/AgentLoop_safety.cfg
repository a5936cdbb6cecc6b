\* One run of the loop beside another on the same budget, with both providers.
SPECIFICATION Spec
CONSTANTS
    loop = loop
    other = other
    k1 = k1
    k2 = k2
    Runs <- MCRuns
    Loop = loop
    Keys <- MCKeys
    Providers <- MCBoth
    Threshold = 2
    Estimate = 1
    MaxCost = 2
    MaxIterations = 3
    MaxTries = 2
    MaxSame = 3
    Window = 4
    MaxBlocks = 2
INVARIANTS TypeOK NoRunaway BlockedOnlyRepeats ConversationAnswered OvershootBounded
PROPERTY LoopEnds
