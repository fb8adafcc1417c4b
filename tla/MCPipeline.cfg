\* Outages only: requests and answers lost or late, the collector crashing.
SPECIFICATION FairSpec
CONSTANTS
    Events = {e1, e2, e3}
    BatchMax = 2
    CollectorMax = 3
    Refused = {}
    Rejected = {}
    Faults = {"collector_crash"}
    MaxLate = 2
    Clean = Clean
    Garbled = Garbled
INVARIANTS
    FreshBatchFits
PROPERTIES
    KeepsLedger
    EventuallyStored
