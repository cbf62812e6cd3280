--------------------------- MODULE MCEntitlements ---------------------------
(* Entitlements under TLC: the routes of the runs, and the symmetry of ids *)
(* that no definition distinguishes.                                       *)
EXTENDS Entitlements, TLC

\* What a vendor pays for on the web, and the sweep.
WebRoutes == {"getMySubscription", "subscribe", "verifyPayment",
              "cancelSubscription", "sweep"}
AllRoutes == WebRoutes \cup {"paystack", "iapVerify", "storeNotice"}
\* The web and the app store; the web with renewals.
StoreRoutes == {"subscribe", "iapVerify"}
RenewalRoutes == {"getMySubscription", "subscribe", "paystack", "sweep"}

Symmetry == Permutations(Vendor) \cup Permutations(RequestId \ {Cron})
               \cup Permutations(Key) \cup Permutations(Txn)
               \cup Permutations(PaidTier)
=============================================================================
