\* Web billing with one-time charges, one request at a time, each row verified
\* under its own reference.
SPECIFICATION Spec
CONSTANTS
    Vendor = {v1, v2}
    PaidTier = {PREMIUM, GOLD}
    Key = {k1}
    Txn = {}
    NULL = NULL
    RequestId = {r1, cron}
    Cron = cron
    Routes <- WebRoutes
    Recurring = FALSE
    Overlap = FALSE
    AnyReference = FALSE
    MaxSubs = 3
SYMMETRY Symmetry
CHECK_DEADLOCK FALSE
INVARIANTS
    TypeOK
    OneTrialPerIdentity
    OneLiveSubscription
PROPERTIES
    ReplacedNotDropped
    ImplementsPlanOfRecord
