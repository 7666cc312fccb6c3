SPECIFICATION Spec
CONSTANTS
    Content = {c1}
    Target = {t1, t2}
    Editor = {e1}
    Decider = {d1}
    EditInput <- CaptionOnly
    CreateStatus = {"IDEA"}
    MaxAttempts = 2
    MaxEdition = 0
    MaxApprovals = 1
    MaxRevisions = 0
    Instance = {i1}
    Caller = {}
    NoOne = NoOne
    MetaOutcome = {"accepted", "rejected"}
    MaxCrashes = 0
CONSTRAINT NotYetPublished
INVARIANT NeverPostedTwice
