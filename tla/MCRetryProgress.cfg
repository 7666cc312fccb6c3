SPECIFICATION FairSpec
CONSTANTS
    Client = {c1}
    Item = {k1, k2}
    Instance = {i1}
    Request = {}
    LogId = {l1, l2, l3, l4}
    NoLog = NoLog
    Batch = 2
    Outcome = {"created", "failed"}
    MaxPending = 1
    MaxCrashes = 0
PROPERTY EveryFailureIsRetried
CHECK_DEADLOCK FALSE
