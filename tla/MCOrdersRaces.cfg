\* Two overlapping requests over every route, one booking, one quote.
SPECIFICATION Spec
CONSTANTS
    BookingId = {b1}
    QuoteId = {q1}
    RequestId = {r1, r2}
    Amount = {1}
    NULL = NULL
    Routes <- DistinctRoutes
    MaxUpdates = 1
SYMMETRY Symmetry
CHECK_DEADLOCK FALSE
INVARIANTS
    TypeOK
    InvoicedNeverPending
    RecordedEdgesLegal
    HistoryEndsAtStatus
    InvoiceAnnouncedOnce
    ReviewAfterCompletion
PROPERTIES
    NeverPendingAgain
    OnlyStaleCommitsJump
