SPECIFICATION Spec
CONSTANTS
    Content = {c1}
    Target = {t1}
    Editor = {}
    Decider = {d1}
    EditInput <- MCEditInput
    CreateStatus = {"IDEA"}
    MaxAttempts = 3
    MaxEdition = 0
    MaxApprovals = 2
    MaxRevisions = 1
    Instance = {i1}
    Caller = {}
    NoOne = NoOne
    MetaOutcome = {"accepted"}
    MaxCrashes = 0
PROPERTY GateUsesLatestDecision
