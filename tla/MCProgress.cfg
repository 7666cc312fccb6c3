SPECIFICATION FairSpec
CONSTANTS
    Content = {c1}
    Target = {t1}
    Editor = {}
    Decider = {d1}
    EditInput <- MCEditInput
    CreateStatus = {"IDEA"}
    MaxAttempts = 2
    MaxEdition = 0
    MaxApprovals = 1
    MaxRevisions = 1
    Instance = {i1, i2}
    Caller = {}
    NoOne = NoOne
    MetaOutcome = {"accepted", "rejected"}
    MaxCrashes = 1
PROPERTY EligibleIsDealtWith
