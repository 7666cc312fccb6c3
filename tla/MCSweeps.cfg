SPECIFICATION Spec
CONSTANTS
    Content = {c1}
    Target = {t1, t2}
    Editor = {}
    Decider = {d1}
    EditInput <- MCEditInput
    CreateStatus = {"IDEA"}
    MaxAttempts = 3
    MaxEdition = 0
    MaxApprovals = 1
    MaxRevisions = 1
    Instance = {i1, i2}
    Caller = {}
    NoOne = NoOne
    MetaOutcome = {"accepted", "rejected", "lost"}
    MaxCrashes = 1
SYMMETRY SweepSymmetry
INVARIANTS SweepInv AbandonedOnce PostedOnce SucceededWasPosted NeverApprovedIsHeldBack
PROPERTIES PublishedEverywhere
