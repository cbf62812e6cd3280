---------------------------- MODULE Subscriptions ----------------------------
(***************************************************************************)
(* SubscriptionsService: what a vendor does about its plan.  subscribe     *)
(* switches to the free plan, starts the one trial, switches to a plan the *)
(* unused credit covers, or opens a checkout whose row waits as PAST_DUE   *)
(* until verifyPayment settles it.                                         *)
(***************************************************************************)
EXTENDS SubscriptionTables

\* getMySubscription up to the insert of the free row: it found nothing live.
getMySubscription(r, v) ==
    /\ Called(r, "getMySubscription")
    /\ RowsIn(v, Live) = {}
    /\ Wait(r, [Idle EXCEPT !.at = "ensureBasic", !.v = v])
    /\ UNCHANGED tables

ensureBasicSubscription(r) ==
    /\ req[r].at = "ensureBasic"
    /\ RoomForRow
    /\ subs' = Append(subs, NewRow(req[r].v, "BASIC", "ACTIVE"))
    /\ tier' = [tier EXCEPT ![req[r].v] = "BASIC"]
    /\ Return(r)
    /\ UNCHANGED <<claims, checkout>>

-----------------------------------------------------------------------------
\* The latest live row is read first; being on the plan already ends it.
subscribe(r, v, t, keys) ==
    /\ Called(r, "subscribe")
    /\ LET active == Latest(RowsIn(v, Live))
       IN  /\ active # 0 => subs[active].tier # t
           /\ Wait(r, [Idle EXCEPT !.at = IF t = "BASIC" THEN "switchPlan" ELSE "price",
                                   !.v = v, !.tier = t, !.row = active,
                                   !.keys = IF t = "BASIC" THEN {} ELSE keys])
    /\ UNCHANGED tables

\* Mutant: eligibility looks at the vendor's own rows, not at the ledger.
isTrialEligibleByRows(v, keys) ==
    \A i \in DOMAIN subs : subs[i].vendor = v => subs[i].tier = "BASIC"

isTrialEligible(v, keys) ==
    /\ \A c \in DOMAIN claims :
          claims[c].vendor # v /\ claims[c].keys \cap keys = {}
    /\ \A i \in DOMAIN subs : subs[i].vendor = v => subs[i].tier = "BASIC"

\* Is there unused value of an ACTIVE paid row?  Whether it covers the new
\* price depends on amounts this model leaves out.
proratedCredit(v) ==
    LET current == Latest({i \in RowsIn(v, {"ACTIVE"}) : subs[i].tier # "BASIC"})
    IN  current # 0 /\ subs[current].clock = "running"

\* A paid plan: trial, covered by the credit, or a checkout.
price(r) ==
    /\ req[r].at = "price"
    /\ \E next \in {"startTrial", "switchPlan", "openCheckout"} :
          /\ (next = "startTrial") <=> isTrialEligible(req[r].v, req[r].keys)
          /\ next = "switchPlan" => proratedCredit(req[r].v)
          /\ Wait(r, [req[r] EXCEPT !.at = next])
    /\ UNCHANGED tables

\* Retire the row read as active, if any, and insert the new one.
replacePlan(v, active, row) ==
    /\ RoomForRow
    /\ subs' = Append([i \in DOMAIN subs |->
                          IF i = active THEN Retired(subs[i]) ELSE subs[i]], row)
    /\ tier' = [tier EXCEPT ![v] = row.tier]

switchPlan(r) ==
    /\ req[r].at = "switchPlan"
    /\ replacePlan(req[r].v, req[r].row, NewRow(req[r].v, req[r].tier, "ACTIVE"))
    /\ Return(r)
    /\ UNCHANGED <<claims, checkout>>

startTrial(r) ==
    /\ req[r].at = "startTrial"
    /\ replacePlan(req[r].v, req[r].row, NewRow(req[r].v, req[r].tier, "TRIALING"))
    /\ claims' = Append(claims, [vendor |-> req[r].v, keys |-> req[r].keys])
    /\ Return(r)
    /\ UNCHANGED checkout

\* The provider opens a checkout; a PAST_DUE row waits for its payment.
openCheckout(r) ==
    /\ req[r].at = "openCheckout"
    /\ RoomForRow
    /\ LET s == Len(subs) + 1
       IN  /\ subs' = Append(subs, [NewRow(req[r].v, req[r].tier, "PAST_DUE")
                                      EXCEPT !.provider = <<"REF", s>>])
           /\ checkout' = [checkout EXCEPT ![s] = "open"]
    /\ Return(r)
    /\ UNCHANGED <<tier, claims>>

-----------------------------------------------------------------------------
\* The reference of checkout s must be stored on a row of the vendor, or its
\* metadata, set at initialisation, must name the vendor.
referenceBelongs(v, s) ==
    \/ \E i \in DOMAIN subs : subs[i].vendor = v /\ subs[i].provider = <<"REF", s>>
    \/ subs[s].vendor = v

\* Mutants: the provider's answer is not looked at; "pending" falls through.
answerUnread(s) == "settle"
answerUnhandled(s) == IF checkout[s] = "paid" THEN "settle" ELSE "pending"

\* verifyTransaction.  A charge that is not paid is reported as pending,
\* which changes nothing, or as failed (abandoned): it may be paid later.
answer(s) == IF checkout[s] = "paid" THEN "settle" ELSE "expirePending"

\* What is settled or expired is the vendor's latest PAST_DUE row, read after
\* the provider's answer, whichever checkout the reference is of.  Without a
\* row, the call ends as getMySubscription.
verifyPayment(r, v, s) ==
    LET pending == Latest(RowsIn(v, {"PAST_DUE"}))
    IN  /\ Called(r, "verifyPayment")
        /\ checkout[s] # "none"
        /\ referenceBelongs(v, s)
        /\ pending # 0
        /\ AnyReference \/ s = pending
        /\ Wait(r, [Idle EXCEPT !.at = answer(s), !.v = v, !.row = pending,
                                !.tier = subs[pending].tier])
        /\ UNCHANGED tables

\* Mutant: the previous plan is not ended.
endPreviousNever(v, i) == subs

endPrevious(v, i) ==
    [j \in DOMAIN subs |->
        IF j \in RowsIn(v, Live) \ {i} THEN Retired(subs[j]) ELSE subs[j]]

settle(r) ==
    /\ req[r].at = "settle"
    /\ subs' = [endPrevious(req[r].v, req[r].row) EXCEPT
                   ![req[r].row].status = "ACTIVE",
                   ![req[r].row].clock = "running"]
    /\ tier' = [tier EXCEPT ![req[r].v] = req[r].tier]
    /\ Return(r)
    /\ UNCHANGED <<claims, checkout>>

expirePending(r) ==
    /\ req[r].at = "expirePending"
    /\ subs' = [subs EXCEPT ![req[r].row].status = "EXPIRED"]
    /\ Return(r)
    /\ UNCHANGED <<tier, claims, checkout>>

-----------------------------------------------------------------------------
\* The provider is told to stop renewing (best effort) between the two steps.
cancelSubscription(r, v) ==
    /\ Called(r, "cancelSubscription")
    /\ RowsIn(v, Live) # {}
    /\ Wait(r, [Idle EXCEPT !.at = "endRenewal", !.row = Latest(RowsIn(v, Live))])
    /\ UNCHANGED tables

endRenewal(r) ==
    /\ req[r].at = "endRenewal"
    /\ subs' = [subs EXCEPT ![req[r].row].ending = TRUE]
    /\ Return(r)
    /\ UNCHANGED <<tier, claims, checkout>>

SubscriptionsNext ==
    \E r \in RequestId :
      \/ \E v \in Vendor :
            \/ getMySubscription(r, v)
            \/ \E t \in Tier, keys \in SUBSET Key : subscribe(r, v, t, keys)
            \/ \E s \in DOMAIN subs : verifyPayment(r, v, s)
            \/ cancelSubscription(r, v)
      \/ ensureBasicSubscription(r)
      \/ price(r) \/ switchPlan(r) \/ startTrial(r) \/ openCheckout(r)
      \/ settle(r) \/ expirePending(r)
      \/ endRenewal(r)
=============================================================================
