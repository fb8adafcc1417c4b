SPECIFICATION FairSpec
CONSTANTS
    Workers = {w1}
    Ips = {1, 2}
    Private = {}
    Bridge = {}
    Scores = {0}
    Limit = 1
    MaxAge = 0
    MaxActivity = 1
    MaxFault = 0
    Null = Null
PROPERTIES AllEnriched
