\* Two signals at any moment of the daemon's life, over one notification.
CONSTANTS
    Notifs = {1}
    Signals = {term, int}
    NotifLimit = 1
    MaxCommits = 1
    MaxPosts = 1
    MaxStarts = 2
SPECIFICATION FairSpec
PROPERTIES
    SignalEndsProcess
CHECK_DEADLOCK FALSE
