\* Nothing fails but the network, and a retry is too large.
SPECIFICATION Spec
CONSTANTS
    Events = {e1, e2, e3}
    BatchMax = 2
    CollectorMax = 2
    Refused = {}
    Rejected = {}
    Faults = {}
    MaxLate = 2
    Clean = Clean
    Garbled = Garbled
INVARIANTS
    NothingLost
