\* A failed charge, a look at the plan, a retry, and the end of the plan.
SPECIFICATION Spec
CONSTANTS
    Vendor = {v1}
    PaidTier = {GOLD}
    Key = {}
    Txn = {}
    NULL = NULL
    RequestId = {r1, cron}
    Cron = cron
    Routes <- RenewalRoutes
    Recurring = TRUE
    Overlap = FALSE
    AnyReference = TRUE
    MaxSubs = 3
CHECK_DEADLOCK FALSE
PROPERTIES
    SweepDropsTier
