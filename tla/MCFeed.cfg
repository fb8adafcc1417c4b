SPECIFICATION FairSpec
CONSTANTS
    Loops = {cycle}
    Commands = {export}
    Requests <- MCRequests
    AlertIds = {1, 2}
    Alert <- MCAlert
    Known = {"abuse_score", "node_count", "download_count", "command_count"}
    MinSeverity = 2
    FeedStatuses = {"open", "acknowledged"}
    FeedLimit = 1
    MaxChange = 2
    Null = Null
    Empty = Empty
    Spoilt = Spoilt
INVARIANTS TypeOK BuildIsOfItsTime
PROPERTIES FilesCatchUp
