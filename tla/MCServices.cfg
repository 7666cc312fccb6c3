SPECIFICATION MCSpec
\* The services share no state, so they may share values: a permutation of the
\* values of one is then a permutation of the values of each.
CONSTANTS
    Nonce = {d1, d2}
    Errand = {d1, d2}
    Client = {d1, d2}
    Owner = {e1, e2}
    Visit = {e1, e2}
    Campaign = {e1, e2}
    Page = {f1, f2}
    Tag = {f1, f2}
    Request = {g1, g2}
    Call = {g1, g2}
    Token = {h1, h2, h3}
    Channel = {h1, h2, h3}
    Message = {f1, f2, m3}
    Board = {b0, b1}
    DefaultBoard = b0
    Task = {t1}
    Comment = {x1}
    WikiPage = {w0, w1}
    DefaultPage = w0
    Pillar = {l1}
    Template = {y1}
    Item = {i1}
    Asset = {a1}
    Report = {z1}
    None = None
    Absent = Absent
    Nil = Nil
    Unset = Unset
    Shared = Shared
    Null = Null
    Nothing = Nothing
SYMMETRY Symmetric
INVARIANTS
    ServicesTypeOK
    ExpiredIsLapsed
    ActivityStays
    AnnouncedExactly
    CampaignOfClient
    MailedIsMarked
PROPERTIES
    LinksRedeemedOnce
    SyncedExactly
    SeededExactly
    TagsKept
CHECK_DEADLOCK FALSE
