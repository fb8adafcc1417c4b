\* Both ways to rotate and a restart, at the pace the tailer polls.
SPECIFICATION FairSpec
CONSTANTS
    MaxLine = 3
    MaxFile = 3
    Rotation = {"rename", "truncate"}
    MaxTruncate = 2
    Outgrows = FALSE
    MaxRestart = 1
    None = None
INVARIANTS
    TypeOK
    InOrder
    NothingMissed
PROPERTIES
    EventuallyYielded
CHECK_DEADLOCK FALSE
