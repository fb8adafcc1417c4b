SPECIFICATION FairSpec
CONSTANTS
    Starters = {p1, p2, p3}
    Rows = {old, new}
    Modern = {new}
    MaxFault = 1
    Null = Null
INVARIANTS StartedMeansWide ViewPutBack
PROPERTIES RowsSurvive WideInTheEnd
