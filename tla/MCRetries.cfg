SPECIFICATION Spec
CONSTANTS
    Client = {c1}
    Item = {k1}
    Instance = {i1}
    Request = {q1}
    LogId = {l1, l2, l3}
    NoLog = NoLog
    Batch = 2
    Outcome = {"created", "failed", "lost"}
    MaxPending = 1
    MaxCrashes = 1
INVARIANTS RetryTypeOK RetryInv NothingForgotten MadeOnce OneFailureEach
CONSTRAINT OneEntity
CHECK_DEADLOCK FALSE
