SPECIFICATION Spec
CONSTANTS
    p1 = p1
    p2 = p2
    p3 = p3
    d1 = d1
    d2 = d2
    Procs = {p1, p2, p3}
    Docs = {d1, d2}
    MayReview = TRUE
    MayFail = TRUE
    MaxForms = 3
SYMMETRY Symmetry
INVARIANTS
    TypeOK
    SubmittedHasDocuments
    CompleteMeansSubmitted
    LateWorkBounded
