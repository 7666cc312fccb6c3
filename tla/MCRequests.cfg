SPECIFICATION Spec
CONSTANTS
    Content = {c1}
    Target = {t1, t2}
    Editor = {e1}
    Decider = {d1}
    EditInput <- MCEditInput
    CreateStatus = {"IDEA"}
    MaxAttempts = 1
    MaxEdition = 1
    MaxApprovals = 1
    MaxRevisions = 0
    Instance = {i1}
    Caller = {q1}
    NoOne = NoOne
    MetaOutcome = {"accepted", "rejected"}
    MaxCrashes = 0
SYMMETRY TargetSymmetry
CONSTRAINT Undisturbed
INVARIANTS PostedOnce SucceededWasPosted
PROPERTIES PublishedEverywhere PublishesAsPromised
