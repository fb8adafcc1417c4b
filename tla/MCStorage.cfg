\* Three events, every order of arrival and every timestamp order, and housekeeping.
SPECIFICATION FairSpec
CONSTANTS
    EventIds = {e1, e2, e3}
    Nodes = {n1, n2}
    Sessions = {s1}
    Usernames = {}
    MaxTime = 2
    NodeTimeout = 1
    SessionTimeout = 0
    Null = Null
    NoRow = NoRow
INVARIANTS
    RowsAreDerived
    StartIsEarliest
    LastSeenIsLatest
    EndIsRecorded
PROPERTIES
    NeverReopened
    AbandonedSessionsEnd
    SilentNodesGoOffline
CHECK_DEADLOCK FALSE
