\* Every route, one request at a time.
SPECIFICATION Spec
CONSTANTS
    BookingId = {b1}
    QuoteId = {q1, q2}
    RequestId = {r1}
    Amount = {1, 2}
    NULL = NULL
    Routes <- AllRoutes
    MaxUpdates = 1
SYMMETRY Symmetry
CHECK_DEADLOCK FALSE
INVARIANTS
    AuditTrailConnected
PROPERTIES
    ImplementsLifecycle
    ImplementsNegotiation
    TermsSealed
