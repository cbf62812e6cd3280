--------------------------- MODULE BillingWebhooks ---------------------------
(***************************************************************************)
(* SubscriptionsService.handleSubscriptionWebhook: Paystack's events about *)
(* the subscription it made from the paid checkout s, which exists when    *)
(* plan codes are configured.  Its code is <<"SUB", s>>.  Errors are       *)
(* swallowed and the delivery acknowledged, so any event may be lost; the  *)
(* provider repeats and reorders deliveries, so any event about a paid     *)
(* checkout may arrive at any time, any number of times.                   *)
(***************************************************************************)
EXTENDS SubscriptionTables

Code(s) == <<"SUB", s>>
KnownAs(id) == {i \in DOMAIN subs : subs[i].provider = id}

Delivered(r, s) == Called(r, "paystack") /\ Recurring /\ checkout[s] = "paid"

\* subscription.create names a customer, not a checkout: it goes to the
\* latest row of the vendor with that e-mail address, whatever its status.
subscriptionCreate(r, s) ==
    LET v == subs[s].vendor
        i == Latest(RowsIn(v, Status))
    IN  /\ Delivered(r, s)
        /\ i # 0
        /\ Wait(r, [Idle EXCEPT !.at = "attach", !.v = v, !.row = i,
                                !.tier = subs[i].tier, !.id = Code(s)])
        /\ UNCHANGED tables

attach(r) ==
    /\ req[r].at = "attach"
    /\ subs' = [subs EXCEPT ![req[r].row] =
                   [@ EXCEPT !.status = "ACTIVE", !.clock = "running",
                             !.provider = req[r].id]]
    /\ tier' = [tier EXCEPT ![req[r].v] = req[r].tier]
    /\ Return(r)
    /\ UNCHANGED <<claims, checkout>>

\* invoice.update (a charge succeeded) and subscription.disable read the row
\* that carries the code ...
readKnown(r, s, at) ==
    /\ Delivered(r, s)
    /\ \E i \in KnownAs(Code(s)) :
          Wait(r, [Idle EXCEPT !.at = at, !.v = subs[i].vendor, !.row = i,
                               !.tier = subs[i].tier])
    /\ UNCHANGED tables

\* ... and either roll its period forward or end it.
rollForward(r) ==
    /\ req[r].at = "rollForward"
    /\ subs' = [subs EXCEPT ![req[r].row].status = "ACTIVE",
                            ![req[r].row].clock = "running"]
    /\ tier' = [tier EXCEPT ![req[r].v] = req[r].tier]
    /\ Return(r)
    /\ UNCHANGED <<claims, checkout>>

disable(r) ==
    /\ req[r].at = "disable"
    /\ subs' = [subs EXCEPT ![req[r].row].status = "EXPIRED"]
    /\ tier' = [tier EXCEPT ![req[r].v] = "BASIC"]
    /\ Return(r)
    /\ UNCHANGED <<claims, checkout>>

\* invoice.payment_failed and subscription.not_renew are one updateMany each.
invoicePaymentFailed(r, s) ==
    /\ Delivered(r, s)
    /\ KnownAs(Code(s)) # {}
    /\ subs' = [i \in DOMAIN subs |->
                  IF i \in KnownAs(Code(s))
                  THEN [subs[i] EXCEPT !.status = "PAST_DUE"] ELSE subs[i]]
    /\ UNCHANGED <<tier, claims, checkout, req>>

subscriptionNotRenew(r, s) ==
    /\ Delivered(r, s)
    /\ KnownAs(Code(s)) # {}
    /\ subs' = [i \in DOMAIN subs |->
                  IF i \in KnownAs(Code(s))
                  THEN [subs[i] EXCEPT !.ending = TRUE] ELSE subs[i]]
    /\ UNCHANGED <<tier, claims, checkout, req>>

BillingWebhooksNext ==
    \E r \in RequestId :
      \/ \E s \in DOMAIN subs :
            \/ subscriptionCreate(r, s)
            \/ readKnown(r, s, "rollForward")
            \/ readKnown(r, s, "disable")
            \/ invoicePaymentFailed(r, s)
            \/ subscriptionNotRenew(r, s)
      \/ attach(r) \/ rollForward(r) \/ disable(r)
=============================================================================
