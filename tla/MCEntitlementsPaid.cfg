\* A vendor verifies with the reference of another checkout of its own.
SPECIFICATION Spec
CONSTANTS
    Vendor = {v1}
    PaidTier = {PREMIUM, GOLD}
    Key = {}
    Txn = {}
    NULL = NULL
    RequestId = {r1, cron}
    Cron = cron
    Routes <- WebRoutes
    Recurring = FALSE
    Overlap = FALSE
    AnyReference = TRUE
    MaxSubs = 3
CHECK_DEADLOCK FALSE
PROPERTIES
    SettledIsPaid
