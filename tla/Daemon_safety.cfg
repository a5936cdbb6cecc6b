\* The daemon's notifications and announcements through starts, a signal and
\* crashes: failing posts, updates and checks, pushes and empty answers, and a
\* team that claims from the same table.
CONSTANTS
    Notifs <- MCNotifs
    Signals = {term}
    NotifLimit = 2
    MaxCommits = 3
    MaxPosts = 2
    MaxStarts = 2
SPECIFICATION Spec
CONSTRAINT MCBound
INVARIANTS
    TypeOK
    NotificationAccounted
    CommitAnnounced
CHECK_DEADLOCK FALSE
