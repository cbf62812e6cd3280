\* Two overlapping requests over every route, one booking, one quote, two amounts.
SPECIFICATION Spec
CONSTANTS
    BookingId = {b1}
    QuoteId = {q1}
    RequestId = {r1, r2}
    Amount = {1, 2}
    NULL = NULL
    Routes <- DistinctRoutes
    MaxUpdates = 1
CHECK_DEADLOCK FALSE
PROPERTY TermsSealed
