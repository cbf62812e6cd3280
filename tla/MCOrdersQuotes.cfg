\* Three versions of in-chat quotes under two overlapping requests.
SPECIFICATION Spec
CONSTANTS
    BookingId = {b1, b2}
    QuoteId = {q1, q2, q3}
    RequestId = {r1, r2}
    Amount = {1}
    NULL = NULL
    Routes <- QuoteRoutes
    MaxUpdates = 0
SYMMETRY Symmetry
CHECK_DEADLOCK FALSE
INVARIANTS
    LockedIffInvoicedOnce
    RevisedStaysOffTable
