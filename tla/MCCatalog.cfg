\* The catalog, one kind of traffic at a time.
SPECIFICATION Spec
CONSTANTS
    User = {v1, v2}
    Vendor = {v1, v2}
    Listing = {l1, l2, l3}
    Booking = {b1, b2}
    NULL = NULL
    RequestId = {r1, r2}
    Suites <- RunSuites
    MaxSlugs = 2
    MaxLimit = 1
SYMMETRY Symmetry
CHECK_DEADLOCK FALSE
INVARIANTS
    TypeOK
    FoundWereApproved
    LimitOverrunBounded
    RatingCountsReviews
PROPERTIES
    DecisionsStand
    StaleOnlyByRaceOrOmission
    HiddenOnlyByRace
    GhostOnlyByRace
    DeletedStaysDown
