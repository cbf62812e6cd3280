---------------------------- MODULE Entitlements ----------------------------
(***************************************************************************)
(* Everything that writes a vendor's plan, together: the vendor's own      *)
(* routes, the nightly sweep, the payment provider's webhooks, the app     *)
(* stores' purchases and notifications, the passing of time and failures.  *)
(***************************************************************************)
EXTENDS Subscriptions, RenewalSweep, BillingWebhooks, StorePurchases

Next ==
    \/ SubscriptionsNext
    \/ RenewalSweepNext
    \/ BillingWebhooksNext
    \/ StorePurchasesNext
    \/ \E i \in DOMAIN subs : Tick(i) \/ Pay(i)
    \/ \E r \in RequestId : Fail(r)

Spec == TablesInit /\ [][Next]_vars

\* The scheduler starts a sweep whenever one has something to do, and a sweep
\* does not hang.  It may fail on any night, at any row: that it does not fail
\* at the same row every night for ever is strong fairness of the row's steps.
SweepFairness ==
    /\ WF_vars(collectLapsed(Cron))
    /\ \A i \in RowId : /\ SF_vars(readOther(Cron, i))
                        /\ SF_vars(expire(Cron, i))

FairSpec == Spec /\ SweepFairness

-----------------------------------------------------------------------------
\* The free trial is had once: no two trials share a vendor, a device or a
\* phone number, across all accounts.
OneTrialPerIdentity ==
    \A c, d \in DOMAIN claims : c # d =>
        /\ claims[c].vendor # claims[d].vendor
        /\ claims[c].keys \cap claims[d].keys = {}

\* A vendor has at most one ACTIVE or TRIALING row, so "the active
\* subscription", which the service finds as the latest of them, is unique.
OneLiveSubscription ==
    \A v \in Vendor : \A i, j \in RowsIn(v, Live) : i = j

\* A plan is replaced or runs out; it is never just dropped.  A row stops
\* being live only when another row of the vendor becomes live in the same
\* step, or when its window has closed.
ReplacedNotDropped ==
    [][\A i \in DOMAIN subs :
          subs[i].status \in Live /\ subs'[i].status \notin Live =>
             \/ subs[i].clock # "running"
             \/ \E j \in DOMAIN subs' : /\ subs'[j].vendor = subs[i].vendor
                                        /\ subs'[j].status \in Live
                                        /\ j \in DOMAIN subs => subs[j].status \notin Live]_vars

\* The row a verification settles was paid: "the current plan stays active
\* until POST /subscriptions/verify confirms the payment", and "a successful
\* charge on" the reference "IS the correct amount".
SettledIsPaid ==
    [][\A r \in RequestId : settle(r) => checkout[req[r].row] = "paid"]_vars

\* Web billing alone, one request at a time, each verification with the
\* reference of the row it settles, is a plan of record: one plan per vendor,
\* shown by its profile; a paid plan is the one trial, a checkout the vendor
\* paid for that tier and takes once, or the exchange of a paid plan.
Record == INSTANCE PlanOfRecord WITH
    Checkout <- RowId,
    None <- NULL,
    plan <- [v \in Vendor |->
                LET i == Latest(RowsIn(v, Live))
                IN  IF i = 0 THEN [tier |-> NULL, trial |-> FALSE]
                    ELSE [tier |-> subs[i].tier, trial |-> subs[i].status = "TRIALING"]],
    shown <- tier,
    trialled <- {claims[c].vendor : c \in DOMAIN claims},
    order <- [s \in RowId |->
                IF checkout[s] = "none"
                THEN [vendor |-> NULL, tier |-> NULL, state |-> "none"]
                ELSE [vendor |-> subs[s].vendor, tier |-> subs[s].tier,
                      state |-> IF subs[s].status = "PAST_DUE" THEN checkout[s]
                                ELSE "closed"]]

ImplementsPlanOfRecord == Record!Spec

-----------------------------------------------------------------------------
\* A trial that is over, or a paid row that is out of its period and its
\* grace, and was not ended.
Overdue(i) ==
    /\ i \in DOMAIN subs
    /\ subs[i].tier # "BASIC"
    /\ \/ subs[i].status = "TRIALING" /\ subs[i].clock # "running"
       \/ subs[i].status \in {"ACTIVE", "PAST_DUE"} /\ subs[i].clock = "graceOver"

\* However requests, deliveries and failures fall between its steps, the
\* nightly sweep ends every overdue row that is not renewed first.
LapsedSwept == \A i \in RowId : Overdue(i) ~> ~Overdue(i)

\* No order of requests, webhooks and sweeps makes the row of a checkout
\* ACTIVE for a vendor who paid nothing.
NoActivationUnpaid ==
    \A i \in DOMAIN subs :
        /\ subs[i].status = "ACTIVE"
        /\ subs[i].provider # NULL
        /\ subs[i].txn = NULL
        => \E s \in DOMAIN subs : /\ subs[s].vendor = subs[i].vendor
                                  /\ checkout[s] = "paid"

\* "force-expires PAID subscriptions whose access window has clearly ended
\* ... and drops the vendor to BASIC", unless the vendor "has a newer
\* active/trialing sub (e.g. they upgraded and this is the stale old one)":
\* after a sweep of a row the profile shows a tier some live row grants.
SweepDropsTier ==
    [][\A i \in RowId : expire(Cron, i) =>
          \/ tier'[req[Cron].v] = "BASIC"
          \/ \E j \in DOMAIN subs : /\ subs'[j].vendor = req[Cron].v
                                    /\ subs'[j].status \in Live
                                    /\ subs'[j].tier # "BASIC"]_vars
=============================================================================
