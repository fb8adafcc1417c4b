SPECIFICATION FairSpec
CONSTANTS
    Workers = {w1}
    Ips = {1, 2, 3}
    Private = {1}
    Bridge = {2}
    Scores = {100}
    Limit = 2
    MaxAge = 0
    MaxActivity = 1
    MaxFault = 1
    Null = Null
INVARIANTS HonestScores ProfileJustified
PROPERTIES NothingForgotten ScoredInTheEnd
