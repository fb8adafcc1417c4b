SPECIFICATION Spec
CONSTANTS
    Starters = {p1}
    Rows = {old, new}
    Modern = {new}
    MaxFault = 1
    Null = Null
INVARIANTS SafeToRepeat
