SPECIFICATION ItemsSpec
CONSTANTS
    Content = {c1}
    Target = {t1}
    Editor = {e1}
    Decider = {d1, d2}
    EditInput <- MCEditInput
    CreateStatus = {"IDEA", "APPROVED"}
    MaxAttempts = 3
    MaxEdition = 1
    MaxApprovals = 2
    MaxRevisions = 2
SYMMETRY MCSymmetry
INVARIANTS ItemsTypeOK StatusAgreesWithApprovals RevisionCountIsExact
