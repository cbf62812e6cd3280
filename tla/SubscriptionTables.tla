------------------------- MODULE SubscriptionTables -------------------------
(***************************************************************************)
(* The tables behind a vendor's plan: vendor_subscriptions, trial_claims   *)
(* and the tier column of vendor_profiles; the checkouts open at the       *)
(* payment provider; and the requests, webhook deliveries and sweeps in    *)
(* flight.                                                                 *)
(*                                                                         *)
(* A handler reads, awaits, and commits one transaction addressed by row   *)
(* id, so it waits in a slot of `req' with what it read.  Time enters only *)
(* as `clock', how much of a row's window (the trial while TRIALING, the   *)
(* period otherwise) has gone by; dates are compared nowhere else.         *)
(***************************************************************************)
EXTENDS Naturals, Sequences

CONSTANTS
    Vendor,      \* vendor profiles
    PaidTier,    \* the tiers on sale beside the free BASIC
    Key,         \* device ids and phone numbers a trial is claimed with
    Txn,         \* app-store transactions
    NULL,        \* SQL NULL
    RequestId,   \* slots for requests and deliveries
    Cron,        \* the slot of the nightly sweep
    Routes,      \* what reaches the service in this instance
    Recurring,   \* are provider plan codes configured, so that charges renew?
    Overlap,     \* may one request start while another waits?
    AnyReference, \* may a vendor verify with any reference of its checkouts,
                 \* or only with the one its waiting row was opened under?
    MaxSubs      \* bound on the rows of vendor_subscriptions

VARIABLES
    subs,        \* table vendor_subscriptions in order of createdAt
    tier,        \* vendor_profiles.subscription_tier
    claims,      \* table trial_claims, in order
    checkout,    \* the provider's charge for the checkout of row s
    req          \* what each slot holds

tables == <<subs, tier, claims, checkout>>
vars == <<subs, tier, claims, checkout, req>>

-----------------------------------------------------------------------------
Tier == {"BASIC"} \cup PaidTier
Live == {"ACTIVE", "TRIALING"}
Status == Live \cup {"CANCELLED", "PAST_DUE", "EXPIRED"}
RowId == 1 .. MaxSubs

\* Within the window; past its end; past it by RENEWAL_GRACE_DAYS, which no
\* query asks of a trial.
Clock == {"running", "ended", "graceOver"}

\* provider_subscription_id: the checkout's transaction reference, which
\* subscription.create replaces by the provider's subscription code.
ProviderId == ({"REF", "SUB"} \X RowId) \cup {NULL}

Row == [vendor: Vendor, tier: Tier, status: Status, clock: Clock,
        ending: BOOLEAN,                     \* cancelAtPeriodEnd
        provider: ProviderId, txn: Txn \cup {NULL}]
Claim == [vendor: Vendor, keys: SUBSET Key]

NewRow(v, t, status) ==
    [vendor |-> v, tier |-> t, status |-> status, clock |-> "running",
     ending |-> FALSE, provider |-> NULL, txn |-> NULL]

\* `at' names what the handler does when it resumes.
VendorSteps == {"ensureBasic", "price", "switchPlan", "startTrial",
                "openCheckout", "settle", "expirePending", "endRenewal"}
WebhookSteps == {"attach", "rollForward", "disable"}
StoreSteps == {"link", "renew", "storeCancel", "endStore"}
SweepSteps == {"readOther", "expire"}

Slot == [at: VendorSteps \cup WebhookSteps \cup StoreSteps \cup SweepSteps
               \cup {"idle"},
         v: Vendor \cup {NULL}, row: RowId \cup {0}, tier: Tier \cup {NULL},
         keys: SUBSET Key, id: ProviderId, txn: Txn \cup {NULL},
         flag: BOOLEAN, todo: SUBSET (RowId \X Vendor)]

Idle == [at |-> "idle", v |-> NULL, row |-> 0, tier |-> NULL, keys |-> {},
         id |-> NULL, txn |-> NULL, flag |-> FALSE, todo |-> {}]

ASSUME SubscriptionsAssumption ==
    /\ "BASIC" \notin PaidTier
    /\ Cron \in RequestId
    /\ NULL \notin Vendor
    /\ NULL \notin Txn
    /\ NULL \notin Tier
    /\ NULL \notin {"REF", "SUB"} \X RowId
    /\ MaxSubs \in Nat
    /\ {Recurring, Overlap, AnyReference} \subseteq BOOLEAN

-----------------------------------------------------------------------------
RowsIn(v, statuses) ==
    {i \in DOMAIN subs : subs[i].vendor = v /\ subs[i].status \in statuses}

\* findFirst ... orderBy createdAt desc; 0 when nothing matches.
Latest(ids) ==
    IF ids = {} THEN 0 ELSE CHOOSE i \in ids : \A j \in ids : j <= i

Retired(row) == [row EXCEPT !.status = "CANCELLED", !.ending = FALSE]

\* Mutants: a cancelled row is due at once; failed charges are left to the
\* provider's disable event.
CandidateAtCancel(i) ==
    /\ subs[i].tier # "BASIC"
    /\ \/ subs[i].status = "TRIALING" /\ subs[i].clock # "running"
       \/ subs[i].status = "ACTIVE" /\ (subs[i].ending \/ subs[i].clock = "graceOver")
       \/ subs[i].status = "PAST_DUE" /\ subs[i].clock = "graceOver"
CandidateUnlessFailed(i) ==
    /\ subs[i].tier # "BASIC"
    /\ \/ subs[i].status = "TRIALING" /\ subs[i].clock # "running"
       \/ subs[i].status = "ACTIVE" /\ subs[i].ending /\ subs[i].clock # "running"
       \/ subs[i].status = "ACTIVE" /\ subs[i].clock = "graceOver"

\* Does the sweep's query select row i?
Candidate(i) ==
    /\ subs[i].tier # "BASIC"
    /\ \/ subs[i].status = "TRIALING" /\ subs[i].clock # "running"
       \/ subs[i].status = "ACTIVE" /\ subs[i].ending /\ subs[i].clock # "running"
       \/ subs[i].status = "ACTIVE" /\ subs[i].clock = "graceOver"
       \/ subs[i].status = "PAST_DUE" /\ subs[i].clock = "graceOver"

RoomForRow == Len(subs) < MaxSubs

\* A request on route op reaches slot r.
Called(r, op) ==
    /\ op \in Routes
    /\ req[r] = Idle
    /\ (r = Cron) <=> (op = "sweep")
    /\ Overlap \/ \A s \in RequestId : req[s] = Idle

Wait(r, slot) == req' = [req EXCEPT ![r] = slot]
Return(r) == req' = [req EXCEPT ![r] = Idle]

\* A request dies between two steps; what it committed before stays.
Fail(r) ==
    /\ req[r] # Idle
    /\ Return(r)
    /\ UNCHANGED tables

\* The window of a paid row goes by.  That of an ended row matters only while
\* a provider or store event may revive it with the window it has: whatever
\* else revives a row gives it a new window.
Tick(i) ==
    /\ subs[i].tier # "BASIC"
    /\ \/ subs[i].status \in Live \cup {"PAST_DUE"}
       \/ subs[i].provider \in {"SUB"} \X RowId
       \/ subs[i].txn # NULL
    /\ subs[i].clock \notin (IF subs[i].status = "TRIALING" THEN {"ended", "graceOver"}
                             ELSE {"graceOver"})
    /\ subs' = [subs EXCEPT ![i].clock =
                   IF @ = "running" THEN "ended" ELSE "graceOver"]
    /\ UNCHANGED <<tier, claims, checkout, req>>

\* The vendor pays an open checkout at the provider.
Pay(s) ==
    /\ checkout[s] = "open"
    /\ checkout' = [checkout EXCEPT ![s] = "paid"]
    /\ UNCHANGED <<subs, tier, claims, req>>

TablesInit ==
    /\ subs = <<>>
    /\ tier = [v \in Vendor |-> "BASIC"]
    /\ claims = <<>>
    /\ checkout = [s \in RowId |-> "none"]
    /\ req = [r \in RequestId |-> Idle]

TypeOK ==
    /\ subs \in Seq(Row)
    /\ Len(subs) <= MaxSubs
    /\ tier \in [Vendor -> Tier]
    /\ claims \in Seq(Claim)
    /\ checkout \in [RowId -> {"none", "open", "paid"}]
    /\ req \in [RequestId -> Slot]
=============================================================================
