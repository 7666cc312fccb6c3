SPECIFICATION MCSpec
CONSTANTS
    User = {u1, u2}
    Client = {c1, c2}
    Lead = {l1}
    Token = {t1}
    Email = {e1, e2}
    Request = {r1, r2}
    None = None
    MaxBegun = 2
SYMMETRY Symmetric
INVARIANTS AccountsTypeOK LinkedIsClientUser TokenSpentOnce ConvertedOnce CompletedWhenDone
PROPERTY LinkedEmailIsKept
CHECK_DEADLOCK FALSE
