\* Every fault: crashes, errors, torn spool lines, refused and oversize batches.
SPECIFICATION Spec
CONSTANTS
    Events = {e1, e2, e3, e4}
    BatchMax = 2
    CollectorMax = 2
    Refused = {e2}
    Rejected = {e3}
    Faults = {"sensor_crash", "spool_error", "collector_crash", "server_error", "storage_error"}
    MaxLate = 1
    Clean = Clean
    Garbled = Garbled
SYMMETRY EventSymmetry
INVARIANTS
    NoSilentLoss
    HeldOnce
    AnswerAccounts
PROPERTIES
    KeepsLedger
