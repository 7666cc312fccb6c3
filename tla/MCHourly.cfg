SPECIFICATION MCSpec
CONSTANTS
    Instance = {i1, i2}
    Approval = {a1}
    Lead = {l1}
    StaleAfter = 1
    Interval = 2
    MaxLate = 1
    MaxFault = 1
    Nobody = Nobody
    Never = Never
    Server = {i1, i2}
    Post = {c1, c2}
    Refresh = 2
    Lookback = 1
    MaxLost = 1
    NoServer = NoServer
    NotYet = NotYet
INVARIANT HourlyTypeOK
PROPERTIES RemindedOnce IngestedOnce DueIsReminded
