\* Every source of change, recurring charges, overlapping requests.
SPECIFICATION FairSpec
CONSTANTS
    Vendor = {v1}
    PaidTier = {GOLD}
    Key = {}
    Txn = {x1}
    NULL = NULL
    RequestId = {r1, cron}
    Cron = cron
    Routes <- AllRoutes
    Recurring = TRUE
    Overlap = TRUE
    AnyReference = TRUE
    MaxSubs = 2
CHECK_DEADLOCK FALSE
INVARIANTS
    NoActivationUnpaid
PROPERTIES
    LapsedSwept
