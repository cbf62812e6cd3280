\* A vendor on a web plan buys one in the app store.
SPECIFICATION Spec
CONSTANTS
    Vendor = {v1}
    PaidTier = {GOLD}
    Key = {}
    Txn = {x1}
    NULL = NULL
    RequestId = {r1, cron}
    Cron = cron
    Routes <- StoreRoutes
    Recurring = FALSE
    Overlap = FALSE
    AnyReference = TRUE
    MaxSubs = 2
CHECK_DEADLOCK FALSE
INVARIANTS
    OneLiveSubscription
