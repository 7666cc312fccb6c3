SPECIFICATION Spec
CONSTANTS
    Client = {c1}
    Item = {}
    Instance = {i1, i2}
    Request = {}
    LogId = {l1, l2, l3}
    NoLog = NoLog
    Batch = 2
    Outcome = {"created", "failed"}
    MaxPending = 1
    MaxCrashes = 0
INVARIANT RetryIsIdempotent
CHECK_DEADLOCK FALSE
