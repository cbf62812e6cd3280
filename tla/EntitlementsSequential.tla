----------------------- MODULE EntitlementsSequential -----------------------
(***************************************************************************)
(* Vendor plans when requests do not overlap, for any number of vendors    *)
(* and rows: the trial is had once; a vendor has one plan, replaced or run *)
(* out but never dropped; and, if each row is verified under the reference *)
(* of its own checkout, web billing implements the plan of record.  All    *)
(* rest on what a request read being still true when it commits            *)
(* (TrialsFree, SlotsCurrent).                                             *)
(***************************************************************************)
EXTENDS EntitlementsSafety

\* One request at a time; what reaches the service is web billing alone; and
\* a row is verified with the reference of its own checkout.
OneAtATime == Overlap = FALSE
OwnReference == AnyReference = FALSE
WebOnly == Routes \cap {"paystack", "iapVerify", "storeNotice"} = {}

Alone ==
    \A r \in RequestId, s \in RequestId : req[r] # Idle /\ req[s] # Idle => r = s

\* Nobody holds the trial that slot s is about to start.
TrialFree(s) ==
    s.at = "startTrial" =>
        \A c \in DOMAIN claims : claims[c].vendor # s.v /\ claims[c].keys \cap s.keys = {}

TrialsFree == \A r \in RequestId : TrialFree(req[r])

TrialInv == Alone /\ TrialsFree /\ OneTrialPerIdentity

-----------------------------------------------------------------------------
\* The profile shows the plan.
TierShown ==
    \A v \in Vendor :
        /\ \A i \in RowsIn(v, Live) : tier[v] = subs[i].tier
        /\ RowsIn(v, Live) = {} => tier[v] = "BASIC"

\* A row the sweep collected is still one for it.
Lapsed(c) ==
    /\ subs[c[1]].vendor = c[2]
    /\ subs[c[1]].tier # "BASIC"
    /\ subs[c[1]].status \in Live \cup {"PAST_DUE"}
    /\ subs[c[1]].status \in Live => subs[c[1]].clock # "running"

\* Is v on an ACTIVE paid plan, whose unused value it may exchange?
Exchangeable(v) == \E i \in RowsIn(v, {"ACTIVE"}) : subs[i].tier # "BASIC"

\* What slot s read is still so.
Current(s) ==
    /\ s.at \in VendorSteps \cup SweepSteps \cup {"idle"}
    /\ s.at = "ensureBasic" => RowsIn(s.v, Live) = {}
    /\ s.at \in {"price", "switchPlan", "startTrial", "openCheckout"} =>
          RowsIn(s.v, Live) = {s.row} \ {0}
    /\ s.at \in {"price", "startTrial", "openCheckout"} => s.tier # "BASIC"
    /\ s.at = "switchPlan" => s.tier = "BASIC" \/ Exchangeable(s.v)
    /\ s.at = "startTrial" =>
          \A i \in DOMAIN subs : subs[i].vendor = s.v => subs[i].tier = "BASIC"
    /\ s.at \in {"settle", "expirePending"} =>
          /\ subs[s.row].vendor = s.v
          /\ subs[s.row].status = "PAST_DUE"
          /\ subs[s.row].tier = s.tier
    /\ s.at = "settle" => AnyReference \/ checkout[s.row] = "paid"
    /\ s.at \in SweepSteps => \A c \in s.todo : Lapsed(c)
    /\ s.at = "expire" => /\ <<s.row, s.v>> \in s.todo
                          /\ s.flag <=> RowsIn(s.v, Live) \ {s.row} # {}

SlotsCurrent == \A r \in RequestId : Current(req[r])

WebInv == OneLiveSubscription /\ TierShown /\ SlotsCurrent

-----------------------------------------------------------------------------
(* The trial, whatever the routes.                                         *)

\* A step serves slot r: it was the one being served, or none was.
Serves(r) ==
    /\ \A q \in RequestId \ {r} : req'[q] = req[q]
    /\ req[r] # Idle \/ \A q \in RequestId : req[q] = Idle

LEMMA BusyServes ==
    ASSUME TypeInv, NEW r \in RequestId, NEW s, req' = [req EXCEPT ![r] = s],
           req[r].at # "idle" \/ req[r] # Idle
    PROVE  Serves(r)
  BY DEF Serves, TypeInv, TypeOK, Idle

LEMMA CalledServes ==
    ASSUME TypeInv, OneAtATime, NEW r \in RequestId, NEW op, Called(r, op),
           NEW s, req' = [req EXCEPT ![r] = s]
    PROVE  Serves(r)
  BY DEF Serves, TypeInv, TypeOK, Called, OneAtATime

\* What a step of the vendor's routes does to the slots and the claims.
LEMMA ServiceServes ==
    ASSUME TypeInv, OneAtATime, NEW r \in RequestId,
           \/ \E v \in Vendor :
                 \/ getMySubscription(r, v)
                 \/ \E t \in Tier, keys \in SUBSET Key : subscribe(r, v, t, keys)
                 \/ \E s \in DOMAIN subs : verifyPayment(r, v, s)
                 \/ cancelSubscription(r, v)
           \/ ensureBasicSubscription(r)
           \/ price(r) \/ switchPlan(r) \/ startTrial(r) \/ openCheckout(r)
           \/ settle(r) \/ expirePending(r)
           \/ endRenewal(r)
    PROVE  /\ Serves(r)
           /\ UNCHANGED claims \/ startTrial(r)
           /\ req'[r].at = "startTrial" => price(r)
  <1>1. ASSUME NEW v \in Vendor,
               \/ getMySubscription(r, v)
               \/ \E t \in Tier, keys \in SUBSET Key : subscribe(r, v, t, keys)
               \/ \E s \in DOMAIN subs : verifyPayment(r, v, s)
               \/ cancelSubscription(r, v)
        PROVE  Serves(r) /\ UNCHANGED claims /\ req'[r].at # "startTrial"
    <2>1. UNCHANGED claims
      BY <1>1 DEF getMySubscription, subscribe, verifyPayment, cancelSubscription, tables
    <2>2. CASE getMySubscription(r, v)
      BY <2>1, <2>2, CalledServes DEF getMySubscription, Wait, TypeInv, TypeOK, Idle
    <2>3. ASSUME NEW t \in Tier, NEW keys \in SUBSET Key, subscribe(r, v, t, keys)
          PROVE  Serves(r) /\ req'[r].at # "startTrial"
      BY <2>3, CalledServes DEF subscribe, Wait, TypeInv, TypeOK, Idle
    <2>4. ASSUME NEW s \in DOMAIN subs, verifyPayment(r, v, s)
          PROVE  Serves(r) /\ req'[r].at # "startTrial"
      BY <2>4, CalledServes DEF verifyPayment, Wait, TypeInv, TypeOK, Idle, answer
    <2>5. CASE cancelSubscription(r, v)
      BY <2>1, <2>5, CalledServes DEF cancelSubscription, Wait, TypeInv, TypeOK, Idle
    <2> QED BY <1>1, <2>1, <2>2, <2>3, <2>4, <2>5
  <1>2. CASE price(r)
    BY <1>2, BusyServes DEF price, Wait, tables
  <1>3. CASE \/ ensureBasicSubscription(r) \/ switchPlan(r) \/ startTrial(r)
             \/ openCheckout(r) \/ settle(r) \/ expirePending(r) \/ endRenewal(r)
    <2>1. Return(r) /\ req[r].at # "idle" /\ (UNCHANGED claims \/ startTrial(r))
      BY <1>3 DEF ensureBasicSubscription, switchPlan, startTrial, openCheckout, settle,
                  expirePending, endRenewal
    <2> QED BY <2>1, BusyServes DEF Return, TypeInv, TypeOK, Idle
  <1> QED BY <1>1, <1>2, <1>3

\* The other services write no claim and start no trial.
LEMMA OthersServe ==
    ASSUME TypeInv, OneAtATime,
           RenewalSweepNext \/ BillingWebhooksNext \/ StorePurchasesNext
    PROVE  /\ UNCHANGED claims
           /\ \/ UNCHANGED req
              \/ \E r \in RequestId : Serves(r) /\ req'[r].at # "startTrial"
  <1>1. ASSUME NEW r \in RequestId, NEW i \in RowId,
               collectLapsed(r) \/ readOther(r, i) \/ expire(r, i)
        PROVE  UNCHANGED claims /\ Serves(r) /\ req'[r].at # "startTrial"
    <2>1. CASE collectLapsed(r)
      BY <2>1, CalledServes DEF collectLapsed, Wait, TypeInv, TypeOK, Idle, tables
    <2>2. CASE readOther(r, i)
      <3> PICK v \in Vendor :
               req' = [req EXCEPT ![r] = [req[r] EXCEPT !.at = "expire", !.row = i, !.v = v,
                                              !.flag = RowsIn(v, Live) \ {i} # {}]]
        BY <2>2 DEF readOther, Wait
      <3> DEFINE s == [req[r] EXCEPT !.at = "expire", !.row = i, !.v = v,
                                     !.flag = RowsIn(v, Live) \ {i} # {}]
      <3>1. s.at = "expire" /\ req' = [req EXCEPT ![r] = s]
        BY SlotHolds DEF Slot
      <3> HIDE DEF s
      <3>2. req'[r].at = "expire"
        BY <3>1 DEF TypeInv, TypeOK
      <3> QED BY <2>2, <3>1, <3>2, BusyServes DEF readOther, tables
    <2>3. CASE expire(r, i)
      <3> DEFINE s == [Idle EXCEPT !.at = "readOther",
                                   !.todo = {c \in req[r].todo : c[1] # i}]
      <3>1. req' = [req EXCEPT ![r] = Idle] \/ req' = [req EXCEPT ![r] = s]
        BY <2>3 DEF expire, Return, Wait
      <3>2. s.at = "readOther" /\ Idle.at = "idle"
        BY DEF Idle
      <3> HIDE DEF s
      <3>3. Serves(r)
        BY <2>3, <3>1, BusyServes DEF expire
      <3> QED BY <2>3, <3>1, <3>2, <3>3 DEF expire, TypeInv, TypeOK
    <2> QED BY <1>1, <2>1, <2>2, <2>3
  <1>2. ASSUME NEW r \in RequestId, NEW s \in DOMAIN subs,
               \/ subscriptionCreate(r, s)
               \/ readKnown(r, s, "rollForward") \/ readKnown(r, s, "disable")
        PROVE  UNCHANGED claims /\ Serves(r) /\ req'[r].at # "startTrial"
    BY ZenonT(30), <1>2, CalledServes
       DEF subscriptionCreate, readKnown, Delivered, Wait, TypeInv, TypeOK, Idle, tables
  <1>3. ASSUME NEW r \in RequestId, NEW s \in DOMAIN subs,
               invoicePaymentFailed(r, s) \/ subscriptionNotRenew(r, s)
        PROVE  UNCHANGED <<claims, req>>
    BY <1>3 DEF invoicePaymentFailed, subscriptionNotRenew
  <1>4. ASSUME NEW r \in RequestId,
               \/ attach(r) \/ rollForward(r) \/ disable(r)
               \/ link(r) \/ renew(r) \/ storeCancel(r) \/ endStore(r)
        PROVE  UNCHANGED claims /\ Serves(r) /\ req'[r].at # "startTrial"
    <2>1. Return(r) /\ req[r].at # "idle" /\ UNCHANGED claims
      BY <1>4 DEF attach, rollForward, disable, link, renew, storeCancel, endStore
    <2> QED BY <2>1, BusyServes DEF Return, TypeInv, TypeOK, Idle
  <1>5. ASSUME NEW r \in RequestId, NEW v \in Vendor, NEW t \in PaidTier, NEW x \in Txn,
               NEW purchase \in NormalizedIapPurchase, verify(r, v, t, x, purchase)
        PROVE  UNCHANGED claims /\ Serves(r) /\ req'[r].at # "startTrial"
    <2> PICK i \in (IF LinkedTo(x) = {} THEN {0} ELSE LinkedTo(x)) :
             Wait(r, [Idle EXCEPT !.at = "link", !.v = v, !.tier = t, !.txn = x,
                                  !.row = i, !.flag = purchase.isTrial])
      BY <1>5 DEF verify
    <2> DEFINE s == [Idle EXCEPT !.at = "link", !.v = v, !.tier = t, !.txn = x,
                                 !.row = i, !.flag = purchase.isTrial]
    <2>1. req' = [req EXCEPT ![r] = s] /\ s.at = "link"
      BY DEF Wait, Idle
    <2> HIDE DEF s
    <2>2. Serves(r)
      BY <1>5, <2>1, CalledServes DEF verify
    <2> QED BY <1>5, <2>1, <2>2 DEF verify, TypeInv, TypeOK, tables
  <1>6. ASSUME NEW r \in RequestId, NEW x \in Txn, NEW notice \in Notices,
               applyNotification(r, x, notice)
        PROVE  UNCHANGED claims /\ Serves(r) /\ req'[r].at # "startTrial"
    <2>1. StepFor[notice.action] \in {"renew", "storeCancel", "endStore"}
      <3>1. notice.action # "ignore"
        BY <1>6 DEF applyNotification
      <3> QED BY <3>1, NoticeAsks DEF StepFor
    <2> QED BY <1>6, <2>1, CalledServes
            DEF applyNotification, Wait, TypeInv, TypeOK, Idle, tables
  <1>7. CASE RenewalSweepNext
    BY <1>1, <1>7 DEF RenewalSweepNext
  <1>8. CASE BillingWebhooksNext
    BY <1>2, <1>3, <1>4, <1>8 DEF BillingWebhooksNext
  <1>9. CASE StorePurchasesNext
    BY <1>4, <1>5, <1>6, <1>9 DEF StorePurchasesNext, Notices
  <1> QED BY <1>7, <1>8, <1>9

\* How a step serves one request, writes the ledger and starts a trial.
TrialShape ==
    /\ UNCHANGED req \/ \E r \in RequestId : Serves(r)
    /\ UNCHANGED claims \/ \E r \in RequestId : startTrial(r) /\ Serves(r)
    /\ \A r \in RequestId : \/ req'[r] = req[r]
                            \/ req'[r].at # "startTrial"
                            \/ price(r)

LEMMA NextTrials == ASSUME TypeInv, OneAtATime, [Next]_vars PROVE TrialShape
  <1>1. CASE SubscriptionsNext
    <2>1. PICK r \in RequestId : /\ Serves(r)
                                 /\ UNCHANGED claims \/ startTrial(r)
                                 /\ req'[r].at = "startTrial" => price(r)
      BY <1>1, ServiceServes DEF SubscriptionsNext
    <2> QED BY <2>1 DEF TrialShape, Serves
  <1>2. CASE RenewalSweepNext \/ BillingWebhooksNext \/ StorePurchasesNext
    BY <1>2, OthersServe DEF TrialShape, Serves
  <1>3. ASSUME NEW r \in RequestId, Fail(r)
        PROVE  TrialShape
    <2>1. Serves(r) /\ req'[r].at = "idle" /\ UNCHANGED claims
      BY <1>3, BusyServes DEF Fail, Return, TypeInv, TypeOK, Idle, tables
    <2> QED BY <2>1 DEF TrialShape, Serves
  <1>4. CASE (\E i \in DOMAIN subs : Tick(i) \/ Pay(i)) \/ UNCHANGED vars
    BY <1>4 DEF Tick, Pay, vars, TrialShape
  <1> QED BY <1>1, <1>2, <1>3, <1>4 DEF Next

\* From the shape of a step: one request at a time, holding a free trial.
LEMMA ShapeKeepsTrials ==
    ASSUME TypeInv, TypeInv', TrialInv, TrialShape
    PROVE  TrialInv'
  <1>1. Alone'
    BY DEF TrialInv, Alone, TrialShape, Serves
  <1>2. CASE UNCHANGED claims
    <2>1. OneTrialPerIdentity'
      BY <1>2 DEF TrialInv, OneTrialPerIdentity
    <2>2. ASSUME NEW r \in RequestId
          PROVE  TrialFree(req[r])'
      <3>1. CASE req'[r] = req[r]
        BY <1>2, <3>1 DEF TrialInv, TrialsFree, TrialFree
      <3>2. CASE price(r)
        <4>1. PICK next \in {"startTrial", "switchPlan", "openCheckout"} :
                   /\ req'[r] = [req[r] EXCEPT !.at = next]
                   /\ next = "startTrial" => isTrialEligible(req[r].v, req[r].keys)
          BY <3>2 DEF price, Wait, TypeInv, TypeOK
        <4>2. /\ req'[r].at = next
              /\ req'[r].v = req[r].v
              /\ req'[r].keys = req[r].keys
          BY <4>1, SlotHolds DEF Slot
        <4> QED BY <1>2, <4>1, <4>2 DEF isTrialEligible, TrialFree
      <3> QED BY <3>1, <3>2 DEF TrialShape, TrialFree
    <2> QED BY <1>1, <2>1, <2>2 DEF TrialInv, TrialsFree
  <1>3. ASSUME NEW r \in RequestId, startTrial(r), Serves(r)
        PROVE  TrialInv'
    <2> DEFINE claim == [vendor |-> req[r].v, keys |-> req[r].keys]
               n == Len(claims) + 1
    <2>1. \A q \in RequestId : req'[q] = Idle
      <3>1. req'[r] = Idle /\ req[r] # Idle
        BY <1>3 DEF startTrial, Return, TypeInv, TypeOK, Idle
      <3> QED BY <1>3, <3>1 DEF Serves, TrialInv, Alone
    <2>2. TrialsFree'
      BY <2>1 DEF TrialsFree, TrialFree, Idle
    <2>3. claim \in Claim
      <3>1. req[r].v \in Vendor /\ req[r].keys \in SUBSET Key
        BY <1>3, SlotHolds DEF startTrial, Carries, VendorCarriers, Slot
      <3> QED BY <3>1 DEF Claim
    <2>4. claims' = Append(claims, claim) /\ claims \in Seq(Claim)
      BY <1>3 DEF startTrial, TypeInv, TypeOK
    <2>5. \A c \in DOMAIN claims : /\ claims[c].vendor # claim.vendor
                                   /\ claims[c].keys \cap claim.keys = {}
      BY <1>3 DEF startTrial, TrialInv, TrialsFree, TrialFree
    <2> HIDE DEF claim
    <2>6. /\ DOMAIN claims = 1 .. Len(claims) /\ Len(claims) \in Nat
          /\ DOMAIN claims' = 1 .. n
          /\ \A c \in DOMAIN claims : claims'[c] = claims[c]
          /\ claims'[n] = claim
      BY <2>3, <2>4, AppendProperties, LenProperties
    <2>7. ASSUME NEW c \in DOMAIN claims', NEW d \in DOMAIN claims', c # d
          PROVE  /\ claims'[c].vendor # claims'[d].vendor
                 /\ claims'[c].keys \cap claims'[d].keys = {}
      <3>1. CASE c \in DOMAIN claims /\ d \in DOMAIN claims
        BY <2>6, <2>7, <3>1 DEF TrialInv, OneTrialPerIdentity
      <3>2. CASE c = n
        BY <2>5, <2>6, <2>7, <3>2
      <3>3. CASE d = n
        BY <2>5, <2>6, <2>7, <3>3
      <3> QED BY <2>6, <3>1, <3>2, <3>3
    <2> QED BY <1>1, <2>2, <2>7 DEF TrialInv, OneTrialPerIdentity
  <1> QED BY <1>2, <1>3 DEF TrialShape

LEMMA InitTrials == TablesInit => TrialInv
  <1> SUFFICES ASSUME TablesInit PROVE TrialInv
    OBVIOUS
  <1>1. DOMAIN claims = {}
    BY DEF TablesInit
  <1>2. \A r \in RequestId : req[r] = Idle
    BY DEF TablesInit
  <1> QED BY <1>1, <1>2 DEF TrialInv, Alone, TrialsFree, TrialFree, OneTrialPerIdentity, Idle

\* Requests are served one at a time, and hold a trial nobody had.
LEMMA TrialInvariance == ASSUME OneAtATime PROVE Spec => []TrialInv
  <1>1. TypeInv /\ TypeInv' /\ TrialInv /\ [Next]_vars => TrialInv'
    BY NextTrials, ShapeKeepsTrials
  <1> QED BY <1>1, InitTrials, TypeInvariance, PTL DEF Spec

\* If requests do not overlap, no two trials share a vendor, a device or a
\* phone number, whatever the provider, the stores and the sweep do between.
THEOREM TrialsUnique == ASSUME OneAtATime PROVE Spec => []OneTrialPerIdentity
  BY TrialInvariance, PTL DEF TrialInv

-----------------------------------------------------------------------------
(* Web billing alone: what a step does to the plans.                       *)

\* Rows stay, with the vendor and the tier they have.
Named ==
    /\ RowsStay
    /\ \A i \in DOMAIN subs : subs'[i].vendor = subs[i].vendor /\ subs'[i].tier = subs[i].tier

IsLive(i) == subs[i].status \in Live
GoesLive(i) == subs'[i].status \in Live
Untouched(i) == IsLive(i) \/ GoesLive(i) => subs'[i].status = subs[i].status

\* Nobody's plan moves ...
PlansStay ==
    /\ \A i \in DOMAIN subs : Untouched(i)
    /\ \A i \in DOMAIN subs' \ DOMAIN subs : ~GoesLive(i)
    /\ UNCHANGED <<tier, claims>>

\* Every checkout still waits or no longer does, as before ...
SameDue(i) == subs'[i].status = "PAST_DUE" <=> subs[i].status = "PAST_DUE"
OrdersStay ==
    /\ UNCHANGED checkout
    /\ \A i \in DOMAIN subs : SameDue(i)

\* ... but that of row n, which opens, or is settled or given up.
Opens(n) ==
    /\ n \in DOMAIN subs' \ DOMAIN subs
    /\ subs'[n].status = "PAST_DUE" /\ subs'[n].tier # "BASIC"
    /\ checkout' = [checkout EXCEPT ![n] = "open"]
    /\ \A i \in DOMAIN subs : SameDue(i)
Closes(n) ==
    /\ n \in DOMAIN subs
    /\ subs[n].status = "PAST_DUE" /\ subs'[n].status # "PAST_DUE"
    /\ UNCHANGED checkout
    /\ \A i \in DOMAIN subs \ {n} : SameDue(i)

OrdersMove == OrdersStay \/ \E n \in RowId : Opens(n) \/ Closes(n)

\* Vendor v is put on the plan of row n alone ...
PutsOn(v, n) ==
    /\ n \in DOMAIN subs' /\ subs'[n].vendor = v /\ GoesLive(n)
    /\ n \in DOMAIN subs => ~IsLive(n)
    /\ \A i \in DOMAIN subs' \ {n} :
          /\ i \in DOMAIN subs
          /\ IF subs[i].vendor = v THEN ~GoesLive(i) ELSE Untouched(i)
    /\ tier' = [tier EXCEPT ![v] = subs'[n].tier]

\* ... a free one or in exchange, or that of its checkout, or on trial ...
Chooses(v, n) ==
    /\ PutsOn(v, n) /\ OrdersStay
    /\ subs'[n].status = "ACTIVE"
    /\ subs'[n].tier = "BASIC" \/ Exchangeable(v)
    /\ UNCHANGED claims
Takes(v, n) ==
    /\ PutsOn(v, n) /\ Closes(n)
    /\ subs'[n].status = "ACTIVE"
    /\ AnyReference \/ checkout[n] = "paid"
    /\ UNCHANGED claims
Tries(v, n) ==
    /\ PutsOn(v, n) /\ OrdersStay
    /\ subs'[n].tier # "BASIC" /\ subs'[n].status = "TRIALING"
    /\ \A i \in DOMAIN subs : subs[i].vendor = v => subs[i].tier = "BASIC"
    /\ \A c \in DOMAIN claims : claims[c].vendor # v
    /\ \E keys \in SUBSET Key : claims' = Append(claims, [vendor |-> v, keys |-> keys])

\* ... or v's plan, a paid one, runs out.
Drops(v, i) ==
    /\ RowsIn(v, Live) = {i} /\ OrdersStay
    /\ subs[i].tier # "BASIC" /\ subs[i].clock # "running"
    /\ DOMAIN subs' = DOMAIN subs
    /\ ~GoesLive(i)
    /\ \A j \in DOMAIN subs \ {i} : Untouched(j)
    /\ tier' = [tier EXCEPT ![v] = "BASIC"]
    /\ UNCHANGED claims

Moves == \E v \in Vendor :
            \/ \E n \in RowId : Chooses(v, n) \/ Takes(v, n) \/ Tries(v, n)
            \/ \E i \in DOMAIN subs : Drops(v, i)
Pays == UNCHANGED <<subs, tier, claims>> /\ \E i \in DOMAIN subs : Pay(i)

WebShape == (Named /\ ((PlansStay /\ OrdersMove) \/ Moves)) \/ Pays

\* The rows after a step.
LEMMA RowsAfter ==
    ASSUME TypeInv', NEW i \in DOMAIN subs'
    PROVE  subs'[i] \in Row /\ i \in RowId
  <1>1. subs' \in Seq(Row) /\ Len(subs') <= MaxSubs
    BY DEF TypeInv, TypeOK
  <1>2. DOMAIN subs' = 1 .. Len(subs') /\ Len(subs') \in Nat
    BY <1>1, LenProperties
  <1> QED BY <1>1, <1>2, ElementOfSeq, SubscriptionsAssumption DEF RowId

\* The live rows of a vendor after each kind of step.
LEMMA LiveAfter ==
    ASSUME TypeInv, TypeInv', Named, NEW v \in Vendor
    PROVE  /\ PlansStay => RowsIn(v, Live)' = RowsIn(v, Live)
           /\ \A u \in Vendor, n \in RowId : PutsOn(u, n) =>
                 RowsIn(v, Live)' = IF u = v THEN {n} ELSE RowsIn(v, Live)
           /\ \A u \in Vendor, i \in DOMAIN subs : Drops(u, i) =>
                 RowsIn(v, Live)' = IF u = v THEN {} ELSE RowsIn(v, Live)
  <1>1. ASSUME PlansStay
        PROVE  RowsIn(v, Live)' = RowsIn(v, Live)
    BY <1>1 DEF PlansStay, Named, RowsStay, Untouched, IsLive, GoesLive, RowsIn
  <1>2. ASSUME NEW u \in Vendor, NEW n \in RowId, PutsOn(u, n)
        PROVE  RowsIn(v, Live)' = IF u = v THEN {n} ELSE RowsIn(v, Live)
    <2>1. CASE u = v
      BY <1>2, <2>1 DEF PutsOn, Named, RowsStay, IsLive, GoesLive, RowsIn
    <2>2. CASE u # v
      BY <1>2, <2>2 DEF PutsOn, Named, RowsStay, Untouched, IsLive, GoesLive, RowsIn
    <2> QED BY <2>1, <2>2
  <1>3. ASSUME NEW u \in Vendor, NEW i \in DOMAIN subs, Drops(u, i)
        PROVE  RowsIn(v, Live)' = IF u = v THEN {} ELSE RowsIn(v, Live)
    BY <1>3 DEF Drops, Named, Untouched, IsLive, GoesLive, RowsIn
  <1> QED BY <1>1, <1>2, <1>3

\* From the shape of a step: one plan, which the profile shows.
LEMMA ShapeKeepsPlans ==
    ASSUME TypeInv, TypeInv', OneLiveSubscription, TierShown, WebShape
    PROVE  OneLiveSubscription' /\ TierShown'
  <1>1. CASE Pays
    BY <1>1 DEF Pays, OneLiveSubscription, TierShown, RowsIn
  <1>2. CASE Named /\ PlansStay
    <2>1. \A v \in Vendor : RowsIn(v, Live)' = RowsIn(v, Live)
      BY <1>2, LiveAfter
    <2> QED BY <1>2, <2>1 DEF OneLiveSubscription, TierShown, PlansStay, Named, RowsIn
  <1>3. ASSUME Named, NEW v \in Vendor, NEW n \in RowId, PutsOn(v, n)
        PROVE  OneLiveSubscription' /\ TierShown'
    <2>1. \A u \in Vendor : RowsIn(u, Live)' = IF u = v THEN {n} ELSE RowsIn(u, Live)
      BY <1>3, LiveAfter
    <2>2. OneLiveSubscription'
      BY <2>1 DEF OneLiveSubscription
    <2>3. TierShown'
      <3> SUFFICES ASSUME NEW u \in Vendor
                   PROVE  /\ \A i \in RowsIn(u, Live)' : tier'[u] = subs'[i].tier
                          /\ RowsIn(u, Live)' = {} => tier'[u] = "BASIC"
        BY DEF TierShown
      <3>1. CASE u = v
        BY <1>3, <2>1, <3>1 DEF PutsOn, TypeInv, TypeOK
      <3>2. CASE u # v
        <4>1. tier'[u] = tier[u]
          BY <1>3, <3>2 DEF PutsOn, TypeInv, TypeOK
        <4>2. \A i \in RowsIn(u, Live) : subs'[i].tier = subs[i].tier
          BY <1>3 DEF Named, RowsIn
        <4> QED BY <2>1, <3>2, <4>1, <4>2 DEF TierShown
      <3> QED BY <3>1, <3>2
    <2> QED BY <2>2, <2>3
  <1>4. ASSUME Named, NEW v \in Vendor, NEW i \in DOMAIN subs, Drops(v, i)
        PROVE  OneLiveSubscription' /\ TierShown'
    <2>1. \A u \in Vendor : RowsIn(u, Live)' = IF u = v THEN {} ELSE RowsIn(u, Live)
      BY <1>4, LiveAfter
    <2>2. OneLiveSubscription'
      BY <2>1 DEF OneLiveSubscription
    <2>3. TierShown'
      <3> SUFFICES ASSUME NEW u \in Vendor
                   PROVE  /\ \A j \in RowsIn(u, Live)' : tier'[u] = subs'[j].tier
                          /\ RowsIn(u, Live)' = {} => tier'[u] = "BASIC"
        BY DEF TierShown
      <3>1. CASE u = v
        BY <1>4, <2>1, <3>1 DEF Drops, TypeInv, TypeOK
      <3>2. CASE u # v
        <4>1. tier'[u] = tier[u]
          BY <1>4, <3>2 DEF Drops, TypeInv, TypeOK
        <4>2. \A j \in RowsIn(u, Live) : subs'[j].tier = subs[j].tier
          BY <1>4 DEF Named, RowsIn
        <4> QED BY <2>1, <3>2, <4>1, <4>2 DEF TierShown
      <3> QED BY <3>1, <3>2
    <2> QED BY <2>2, <2>3
  <1> QED BY <1>1, <1>2, <1>3, <1>4 DEF WebShape, Moves, Chooses, Takes, Tries

-----------------------------------------------------------------------------
\* A step that writes no table moves nobody.
LEMMA NothingMoves ==
    ASSUME TypeInv, UNCHANGED tables
    PROVE  WebShape
  BY DEF tables, WebShape, Named, RowsStay, PlansStay, Untouched, OrdersMove, OrdersStay, SameDue

\* An insert of a live row that ends v's other rows.
LEMMA InsertPutsOn ==
    ASSUME TypeInv, RoomForRow, NEW v \in Vendor, NEW f, Rewritten(f),
           \A i \in DOMAIN subs :
              /\ f[i].vendor = subs[i].vendor /\ f[i].tier = subs[i].tier
              /\ f[i].status = "PAST_DUE" <=> subs[i].status = "PAST_DUE"
              /\ IF subs[i].vendor = v THEN f[i].status \notin Live
                 ELSE f[i] = subs[i],
           NEW row \in Row, row.vendor = v, row.status \in Live,
           subs' = Append(f, row), tier' = [tier EXCEPT ![v] = row.tier],
           UNCHANGED checkout
    PROVE  /\ Named
           /\ PutsOn(v, Len(subs) + 1) /\ OrdersStay
           /\ subs'[Len(subs) + 1] = row
           /\ Len(subs) + 1 \in RowId
  <1> DEFINE n == Len(subs) + 1
  <1>1. /\ DOMAIN subs' = DOMAIN subs \cup {n}
        /\ \A i \in DOMAIN subs : subs'[i] = f[i]
        /\ subs'[n] = row
        /\ n \in RowId \ DOMAIN subs
    BY AppendTyped DEF TypeInv
  <1> HIDE DEF n
  <1>2. Named
    BY <1>1 DEF Named, RowsStay
  <1>3. PutsOn(v, n)
    BY <1>1 DEF PutsOn, IsLive, GoesLive, Untouched
  <1>4. OrdersStay
    BY <1>1 DEF OrdersStay, SameDue
  <1> QED BY <1>1, <1>2, <1>3, <1>4 DEF n

\* The commits of the vendor's routes.
LEMMA CommitsMove ==
    ASSUME TypeInv, TrialInv, WebInv, NEW r \in RequestId,
           \/ ensureBasicSubscription(r) \/ switchPlan(r) \/ startTrial(r)
           \/ openCheckout(r) \/ settle(r) \/ expirePending(r) \/ endRenewal(r)
    PROVE  WebShape
  <1> DEFINE slot == req[r]
             n == Len(subs) + 1
  <1>1. slot \in Slot /\ Carries(slot) /\ Current(slot)
    BY SlotHolds DEF WebInv, SlotsCurrent
  <1>2. TypeOK /\ Rewritten(subs) /\ \A i \in DOMAIN subs : i \in RowId
    BY KeptRewritten, RowTyped DEF TypeInv
  <1>3. CASE ensureBasicSubscription(r)
    <2> DEFINE row == NewRow(slot.v, "BASIC", "ACTIVE")
    <2>1. slot.v \in Vendor /\ RowsIn(slot.v, Live) = {}
      BY <1>1, <1>3 DEF ensureBasicSubscription, Carries, VendorCarriers, Current
    <2>2. row \in Row
      BY <2>1, NewRowTyped DEF Tier, Status, Live
    <2>3. /\ row.vendor = slot.v /\ row.tier = "BASIC"
          /\ row.status = "ACTIVE" /\ row.status \in Live
      BY DEF NewRow, Live
    <2>4. /\ RoomForRow /\ subs' = Append(subs, row) /\ UNCHANGED <<claims, checkout>>
          /\ tier' = [tier EXCEPT ![slot.v] = row.tier]
      BY <1>3, <2>3 DEF ensureBasicSubscription
    <2>5. \A i \in DOMAIN subs : subs[i].vendor = slot.v => subs[i].status \notin Live
      BY <2>1 DEF RowsIn
    <2> HIDE DEF row
    <2>6. Named /\ PutsOn(slot.v, n) /\ OrdersStay /\ subs'[n] = row /\ n \in RowId
      BY <1>2, <2>1, <2>2, <2>3, <2>4, <2>5, InsertPutsOn
    <2>7. Chooses(slot.v, n)
      BY <2>3, <2>4, <2>6 DEF Chooses
    <2> QED BY <2>1, <2>6, <2>7 DEF WebShape, Moves
  <1>4. CASE switchPlan(r) \/ startTrial(r)
    <2> DEFINE status == IF slot.at = "switchPlan" THEN "ACTIVE" ELSE "TRIALING"
               row == NewRow(slot.v, slot.tier, status)
               f == [i \in DOMAIN subs |->
                        IF i = slot.row THEN Retired(subs[i]) ELSE subs[i]]
    <2>1. /\ slot.v \in Vendor /\ slot.tier \in Tier /\ status \in Live \cap Status
          /\ RowsIn(slot.v, Live) = {slot.row} \ {0}
      BY <1>1, <1>4 DEF switchPlan, startTrial, Carries, VendorCarriers, TierCarriers,
         Status, Live, Current
    <2>2. row \in Row
      BY <2>1, NewRowTyped
    <2>3. row.vendor = slot.v /\ row.status = status /\ row.tier = slot.tier
      BY DEF NewRow
    <2>4. Rewritten(f)
      <3>1. \A i \in DOMAIN subs : f[i] = subs[i] \/ f[i] = Retired(subs[i])
        OBVIOUS
      <3>2. DOMAIN f = DOMAIN subs /\ f = [i \in DOMAIN subs |-> f[i]]
        OBVIOUS
      <3> HIDE DEF f
      <3> QED BY <1>2, <3>1, <3>2, RetiredRewrite
    <2>5. ASSUME NEW i \in DOMAIN subs
          PROVE  /\ f[i].vendor = subs[i].vendor /\ f[i].tier = subs[i].tier
                 /\ f[i].status = "PAST_DUE" <=> subs[i].status = "PAST_DUE"
                 /\ IF subs[i].vendor = slot.v THEN f[i].status \notin Live
                    ELSE f[i] = subs[i]
      <3>1. subs[i] \in Row /\ i # 0
        BY <1>2, <2>5, SubscriptionsAssumption DEF Rewritten, RowId
      <3>2. CASE i = slot.row
        <4>1. subs[i].vendor = slot.v /\ subs[i].status \in Live
          BY <2>1, <3>1, <3>2 DEF RowsIn
        <4> QED BY <3>1, <3>2, <4>1 DEF Retired, Row, Live
      <3>3. CASE i # slot.row
        <4>1. subs[i].vendor = slot.v => subs[i].status \notin Live
          BY <2>1, <3>3 DEF RowsIn
        <4> QED BY <3>3, <4>1
      <3> QED BY <3>2, <3>3
    <2>6. /\ RoomForRow /\ subs' = Append(f, row) /\ UNCHANGED checkout
          /\ tier' = [tier EXCEPT ![slot.v] = row.tier]
      BY <1>4 DEF switchPlan, startTrial, replacePlan
    <2> HIDE DEF f
    <2>7. Named /\ PutsOn(slot.v, n) /\ OrdersStay /\ subs'[n] = row /\ n \in RowId
      <3> HIDE DEF row, status
      <3> QED BY <2>1, <2>2, <2>3, <2>4, <2>5, <2>6, InsertPutsOn
    <2>8. CASE switchPlan(r)
      <3>1. UNCHANGED claims /\ slot.at = "switchPlan"
        BY <2>8 DEF switchPlan
      <3>2. Chooses(slot.v, n)
        BY <1>1, <2>3, <2>7, <3>1 DEF Current, Chooses
      <3> QED BY <2>1, <2>7, <3>2 DEF WebShape, Moves
    <2>9. CASE startTrial(r)
      <3>1. /\ slot.at = "startTrial"
            /\ claims' = Append(claims, [vendor |-> slot.v, keys |-> slot.keys])
            /\ slot.keys \in SUBSET Key
        BY <1>1, <2>9 DEF startTrial, Slot
      <3>2. \A c \in DOMAIN claims : claims[c].vendor # slot.v
        BY <3>1 DEF TrialInv, TrialsFree, TrialFree
      <3>3. /\ slot.tier # "BASIC"
            /\ \A i \in DOMAIN subs : subs[i].vendor = slot.v => subs[i].tier = "BASIC"
        BY <1>1, <3>1 DEF Current
      <3>4. subs'[n].tier # "BASIC" /\ subs'[n].status = "TRIALING"
        BY <2>3, <2>7, <3>1, <3>3
      <3>5. Tries(slot.v, n)
        BY <2>7, <3>1, <3>2, <3>3, <3>4 DEF Tries
      <3> QED BY <2>1, <2>7, <3>5 DEF WebShape, Moves
    <2> QED BY <1>4, <2>8, <2>9
  <1>5. CASE openCheckout(r)
    <2> DEFINE row == [NewRow(slot.v, slot.tier, "PAST_DUE") EXCEPT
                          !.provider = <<"REF", n>>]
    <2>1. slot.at = "openCheckout" /\ slot.v \in Vendor /\ slot.tier \in Tier
      BY <1>1, <1>5 DEF openCheckout, Carries, VendorCarriers, TierCarriers
    <2>2. /\ RoomForRow /\ subs' = Append(subs, row) /\ UNCHANGED <<tier, claims>>
          /\ checkout' = [checkout EXCEPT ![n] = "open"]
      BY <1>5 DEF openCheckout
    <2>3. n \in RowId
      BY <1>2, <2>2, LenProperties, SubscriptionsAssumption
         DEF RoomForRow, RowId, TypeOK
    <2>4. row \in Row /\ row.status = "PAST_DUE" /\ row.tier = slot.tier
      BY <2>1, <2>3, NewRowTyped DEF NewRow, Row, Status, ProviderId
    <2> HIDE DEF row
    <2>5. /\ DOMAIN subs' = DOMAIN subs \cup {n}
          /\ \A i \in DOMAIN subs : subs'[i] = subs[i]
          /\ subs'[n] = row
          /\ n \notin DOMAIN subs
      BY <1>2, <2>2, <2>4, AppendTyped
    <2>6. slot.tier # "BASIC"
      BY <1>1, <2>1 DEF Current
    <2> HIDE DEF n
    <2>7. Opens(n)
      BY <2>2, <2>4, <2>5, <2>6 DEF Opens, SameDue
    <2>8. Named /\ PlansStay
      BY <2>2, <2>4, <2>5 DEF Named, RowsStay, PlansStay, Untouched, GoesLive, Live
    <2> QED BY <2>3, <2>7, <2>8 DEF WebShape, OrdersMove
  <1>6. CASE settle(r)
    <2>1. /\ slot.v \in Vendor /\ slot.row \in DOMAIN subs
          /\ subs[slot.row].vendor = slot.v
          /\ subs[slot.row].status = "PAST_DUE"
          /\ subs[slot.row].tier = slot.tier
          /\ AnyReference \/ checkout[slot.row] = "paid"
      BY <1>1, <1>6 DEF settle, Carries, VendorCarriers, RowCarriers, Current
    <2>2. ASSUME NEW i \in DOMAIN subs
          PROVE  subs'[i] = IF i = slot.row
                            THEN [subs[i] EXCEPT !.status = "ACTIVE", !.clock = "running"]
                            ELSE IF subs[i].vendor = slot.v /\ subs[i].status \in Live
                            THEN Retired(subs[i]) ELSE subs[i]
      BY <1>2, <1>6, <2>1 DEF settle, endPrevious, RowsIn, Rewritten, Row
    <2>3. DOMAIN subs' = DOMAIN subs
      BY <1>6 DEF settle, endPrevious
    <2>4. \A i \in DOMAIN subs : subs[i] \in Row
      BY <1>2 DEF Rewritten
    <2>5. Named
      BY <2>2, <2>3, <2>4 DEF Named, RowsStay, Retired, Row
    <2>6. PutsOn(slot.v, slot.row)
      <3>1. subs'[slot.row].status = "ACTIVE" /\ subs'[slot.row].vendor = slot.v
            /\ subs'[slot.row].tier = slot.tier
        BY <2>1, <2>2, <2>4 DEF Row
      <3>2. tier' = [tier EXCEPT ![slot.v] = subs'[slot.row].tier]
        BY <1>6, <3>1 DEF settle
      <3>3. \A i \in DOMAIN subs' \ {slot.row} :
               /\ i \in DOMAIN subs
               /\ IF subs[i].vendor = slot.v THEN ~GoesLive(i) ELSE Untouched(i)
        BY ZenonT(30), <2>2, <2>3, <2>4 DEF IsLive, GoesLive, Untouched, Retired, Row, Live
      <3>4. GoesLive(slot.row) /\ ~IsLive(slot.row)
        BY <2>1, <3>1 DEF IsLive, GoesLive, Live
      <3> QED BY <2>1, <2>3, <3>1, <3>2, <3>3, <3>4 DEF PutsOn
    <2>7. subs'[slot.row].status = "ACTIVE" /\ UNCHANGED <<checkout, claims>>
      <3>1. subs'[slot.row].status = "ACTIVE"
        BY <2>1, <2>2, <2>4 DEF Row
      <3> QED BY <1>6, <3>1 DEF settle
    <2>8. \A i \in DOMAIN subs \ {slot.row} : SameDue(i)
      BY ZenonT(30), <2>2, <2>4 DEF SameDue, Retired, Row, Live
    <2>9. Closes(slot.row)
      BY <2>1, <2>7, <2>8 DEF Closes
    <2>10. Takes(slot.v, slot.row)
      BY <2>1, <2>6, <2>7, <2>9 DEF Takes
    <2> QED BY <1>2, <2>1, <2>5, <2>10 DEF WebShape, Moves
  <1>7. CASE expirePending(r) \/ endRenewal(r)
    <2>1. slot.row \in DOMAIN subs /\ (expirePending(r) => subs[slot.row].status = "PAST_DUE")
      BY <1>1, <1>7 DEF expirePending, endRenewal, Carries, RowCarriers, Current
    <2>2. DOMAIN subs' = DOMAIN subs /\ UNCHANGED <<tier, claims, checkout>>
      BY <1>7 DEF expirePending, endRenewal
    <2>3. \A i \in DOMAIN subs : Untouched(i) /\ subs'[i].vendor = subs[i].vendor
                                 /\ subs'[i].tier = subs[i].tier
      BY <1>2, <1>7, <2>1 DEF expirePending, endRenewal, Rewritten, Row, Untouched,
         IsLive, GoesLive, Live
    <2>4. Named /\ PlansStay
      BY <2>2, <2>3 DEF Named, RowsStay, PlansStay
    <2>5. CASE expirePending(r)
      <3>1. Closes(slot.row)
        BY <1>2, <2>1, <2>2, <2>5 DEF expirePending, Closes, SameDue, Rewritten, Row
      <3> QED BY <1>2, <2>1, <2>4, <3>1 DEF WebShape, OrdersMove
    <2>6. CASE endRenewal(r)
      <3>1. OrdersStay
        BY <1>2, <2>1, <2>2, <2>6 DEF endRenewal, OrdersStay, SameDue, Rewritten, Row
      <3> QED BY <2>4, <3>1 DEF WebShape, OrdersMove
    <2> QED BY <1>7, <2>5, <2>6
  <1> QED BY <1>3, <1>4, <1>5, <1>6, <1>7

\* The sweep ends a vendor's plan, or a row that is nobody's plan.
LEMMA ExpireMoves ==
    ASSUME TypeInv, WebInv, NEW r \in RequestId, NEW i \in RowId, expire(r, i)
    PROVE  WebShape
  <1> DEFINE slot == req[r]
             v == slot.v
  <1>1. /\ Carries(slot) /\ Current(slot)
        /\ TypeOK /\ Rewritten(subs)
    BY SlotHolds, KeptRewritten DEF WebInv, SlotsCurrent, TypeInv
  <1>2. /\ i \in DOMAIN subs /\ v \in Vendor
        /\ Lapsed(<<i, v>>)
        /\ slot.flag <=> RowsIn(v, Live) \ {i} # {}
    BY <1>1 DEF expire, Carries, VendorCarriers, RowCarriers, Current, SweepSteps
  <1>3. subs' = [subs EXCEPT ![i].status = "EXPIRED"] /\ UNCHANGED <<claims, checkout>>
        /\ tier' = IF slot.flag THEN tier ELSE [tier EXCEPT ![v] = "BASIC"]
    BY DEF expire, dropTier
  <1>4. /\ subs[i].vendor = v /\ subs[i].tier # "BASIC"
        /\ subs[i].status \in Live \cup {"PAST_DUE"}
        /\ subs[i].status \in Live => subs[i].clock # "running"
    BY <1>2 DEF Lapsed
  <1> HIDE DEF v, slot
  <1>5. DOMAIN subs' = DOMAIN subs /\ Named
    BY <1>1, <1>2, <1>3 DEF Named, RowsStay, Rewritten, Row
  <1>6. \A j \in DOMAIN subs \ {i} : Untouched(j) /\ SameDue(j)
    BY <1>3 DEF Untouched, SameDue
  <1>7. ~GoesLive(i) /\ subs'[i].status # "PAST_DUE"
    BY <1>1, <1>2, <1>3 DEF IsLive, GoesLive, Live, Rewritten, Row
  <1>8. CASE subs[i].status \in Live
    <2>1. RowsIn(v, Live) = {i}
      BY <1>2, <1>4, <1>8 DEF WebInv, OneLiveSubscription, RowsIn
    <2>2. OrdersStay
      BY <1>3, <1>6, <1>7, <1>8 DEF OrdersStay, SameDue, Live
    <2>3. subs[i].clock # "running" /\ tier' = [tier EXCEPT ![v] = "BASIC"]
      BY <1>2, <1>3, <1>4, <1>8, <2>1
    <2>4. Drops(v, i)
      BY <1>3, <1>4, <1>5, <1>6, <1>7, <2>1, <2>2, <2>3 DEF Drops
    <2> QED BY <1>2, <1>5, <2>4 DEF WebShape, Moves
  <1>9. CASE subs[i].status = "PAST_DUE"
    <2>1. i \notin RowsIn(v, Live)
      BY <1>9 DEF RowsIn, Live
    <2>2. ~slot.flag => tier[v] = "BASIC"
      BY <1>2, <2>1 DEF WebInv, TierShown
    <2>3. UNCHANGED tier
      BY <1>1, <1>2, <1>3, <2>2 DEF TypeOK
    <2>4. Untouched(i)
      BY <1>7, <1>9 DEF Untouched, IsLive, GoesLive, Live
    <2>5. Closes(i)
      BY <1>2, <1>3, <1>6, <1>7, <1>9 DEF Closes
    <2> QED BY <1>3, <1>5, <1>6, <2>3, <2>4, <2>5 DEF WebShape, PlansStay, OrdersMove
  <1> QED BY <1>4, <1>8, <1>9

\* Time passes, checkouts are paid, requests fail.
LEMMA WorldMoves ==
    ASSUME TypeInv,
           \/ \E i \in DOMAIN subs : Tick(i) \/ Pay(i)
           \/ \E r \in RequestId : Fail(r)
    PROVE  WebShape
  <1>1. \A i \in DOMAIN subs : subs[i] \in Row
    BY RowTyped DEF TypeInv
  <1>2. ASSUME NEW i \in DOMAIN subs, Tick(i)
        PROVE  WebShape
    BY <1>1, <1>2 DEF Tick, WebShape, Named, RowsStay, PlansStay, Untouched, OrdersMove,
       OrdersStay, SameDue, Row
  <1>3. ASSUME NEW i \in DOMAIN subs, Pay(i)
        PROVE  WebShape
    BY <1>3 DEF Pay, WebShape, Pays
  <1> QED BY <1>2, <1>3, NothingMoves DEF Fail

-----------------------------------------------------------------------------
(* Web billing alone: what a request read is still so when it commits.     *)

\* Without their routes, the provider's events and the stores do nothing.
LEMMA WebStepsOnly ==
    ASSUME WebOnly, SlotsCurrent
    PROVE  ~BillingWebhooksNext /\ ~StorePurchasesNext
  <1>1. "paystack" \notin Routes /\ "iapVerify" \notin Routes /\ "storeNotice" \notin Routes
    BY DEF WebOnly
  <1>2. \A r \in RequestId : req[r].at \in VendorSteps \cup SweepSteps \cup {"idle"}
    BY DEF SlotsCurrent, Current
  <1>3. ~BillingWebhooksNext
    BY <1>1, <1>2 DEF BillingWebhooksNext, subscriptionCreate, readKnown,
       invoicePaymentFailed, subscriptionNotRenew, attach, rollForward, disable,
       Delivered, Called, VendorSteps, SweepSteps
  <1>4. ~StorePurchasesNext
    BY <1>1, <1>2 DEF StorePurchasesNext, verify, applyNotification, link, renew,
       storeCancel, endStore, Called, VendorSteps, SweepSteps
  <1> QED BY <1>3, <1>4

\* Requests that wait while nothing is written hold what is so.
LEMMA ReadStaysCurrent ==
    ASSUME TypeInv, SlotsCurrent, NEW r \in RequestId, NEW s, Wait(r, s), Current(s),
           UNCHANGED tables
    PROVE  SlotsCurrent'
  <1> SUFFICES ASSUME NEW q \in RequestId
               PROVE  Current(req[q])'
    BY DEF SlotsCurrent
  <1> DEFINE z == req'[q]
  <1>1. Current(z)
    BY DEF Wait, SlotsCurrent, TypeInv, TypeOK
  <1> QED BY <1>1 DEF Current, Lapsed, Exchangeable, RowsIn, tables

\* When the one request served ends, no slot holds anything.
LEMMA EndStaysCurrent ==
    ASSUME TypeInv, TrialInv, NEW r \in RequestId, Return(r),
           req[r].at # "idle" \/ req[r] # Idle
    PROVE  SlotsCurrent'
  <1>1. req[r] # Idle
    BY DEF Idle
  <1>2. \A q \in RequestId \ {r} : req[q] = Idle
    BY <1>1 DEF TrialInv, Alone
  <1>3. \A q \in RequestId : req'[q] = Idle
    BY <1>2 DEF Return, TypeInv, TypeOK
  <1> QED BY <1>3 DEF SlotsCurrent, Current, Idle, VendorSteps, SweepSteps

\* Time and payments change nothing that was read.
LEMMA WorldStaysCurrent ==
    ASSUME TypeInv, SlotsCurrent, NEW i \in DOMAIN subs, Tick(i) \/ Pay(i)
    PROVE  SlotsCurrent'
  <1>1. \A j \in DOMAIN subs : subs[j] \in Row /\ j \in RowId
    BY RowTyped DEF TypeInv
  <1>2. /\ DOMAIN subs' = DOMAIN subs
        /\ \A j \in DOMAIN subs :
              /\ subs'[j].vendor = subs[j].vendor
              /\ subs'[j].tier = subs[j].tier
              /\ subs'[j].status = subs[j].status
              /\ subs[j].clock # "running" => subs'[j].clock # "running"
        /\ UNCHANGED req
    BY <1>1 DEF Tick, Pay, Row
  <1>3. \A j \in DOMAIN subs : checkout[j] = "paid" => checkout'[j] = "paid"
    BY <1>1 DEF Tick, Pay, TypeInv, TypeOK
  <1> SUFFICES ASSUME NEW q \in RequestId
               PROVE  Current(req[q])'
    BY DEF SlotsCurrent
  <1> PICK z : z = req[q]
    OBVIOUS
  <1>4. Current(z) /\ Carries(z)
    BY SlotHolds DEF SlotsCurrent
  <1>5. req'[q] = z
    BY <1>2
  <1>6. /\ RowsIn(z.v, Live)' = RowsIn(z.v, Live)
        /\ Exchangeable(z.v) => Exchangeable(z.v)'
    BY <1>2, <1>5 DEF RowsIn, Exchangeable
  <1>7. z.at \in SweepSteps => \A c \in z.todo : Lapsed(c)'
    BY <1>2, <1>4 DEF Lapsed, Current, Carries
  <1>8. z.at \in {"settle", "expirePending"} => z.row \in DOMAIN subs
    BY <1>4 DEF Carries, RowCarriers
  <1> QED BY <1>2, <1>3, <1>4, <1>5, <1>6, <1>7, <1>8 DEF Current

\* The reads of the vendor's routes.
LEMMA ReadsStayCurrent ==
    ASSUME TypeInv, WebInv, NEW r \in RequestId,
           \/ \E v \in Vendor :
                 \/ getMySubscription(r, v)
                 \/ \E t \in Tier, keys \in SUBSET Key : subscribe(r, v, t, keys)
                 \/ \E s \in DOMAIN subs : verifyPayment(r, v, s)
                 \/ cancelSubscription(r, v)
           \/ price(r)
    PROVE  UNCHANGED tables /\ SlotsCurrent'
  <1>1. TypeOK /\ \A v : RowsIn(v, Live) \subseteq DOMAIN subs
    BY DEF TypeInv, RowsIn
  <1>2. ASSUME NEW v \in Vendor, getMySubscription(r, v)
        PROVE  UNCHANGED tables /\ SlotsCurrent'
    <2> DEFINE s == [Idle EXCEPT !.at = "ensureBasic", !.v = v]
    <2>1. Wait(r, s) /\ UNCHANGED tables /\ Current(s)
      BY <1>2 DEF getMySubscription, Current, Idle, VendorSteps, SweepSteps
    <2> QED BY <2>1, ReadStaysCurrent DEF WebInv
  <1>3. ASSUME NEW v \in Vendor, NEW t \in Tier, NEW keys \in SUBSET Key,
               subscribe(r, v, t, keys)
        PROVE  UNCHANGED tables /\ SlotsCurrent'
    <2> DEFINE active == Latest(RowsIn(v, Live))
               s == [Idle EXCEPT !.at = IF t = "BASIC" THEN "switchPlan" ELSE "price",
                                 !.v = v, !.tier = t, !.row = active,
                                 !.keys = IF t = "BASIC" THEN {} ELSE keys]
    <2>1. Wait(r, s) /\ UNCHANGED tables
      BY <1>3 DEF subscribe
    <2>2. RowsIn(v, Live) = {active} \ {0}
      <3>1. 0 \notin DOMAIN subs
        BY <1>1, RowTyped, SubscriptionsAssumption DEF RowId
      <3> QED BY <1>1, <3>1, LatestIsOne DEF WebInv, OneLiveSubscription
    <2> HIDE DEF active
    <2>3. Current(s)
      BY <2>2 DEF Current, Idle, VendorSteps, SweepSteps
    <2> QED BY <2>1, <2>3, ReadStaysCurrent DEF WebInv
  <1>4. ASSUME NEW v \in Vendor, NEW c \in DOMAIN subs, verifyPayment(r, v, c)
        PROVE  UNCHANGED tables /\ SlotsCurrent'
    <2> DEFINE pending == Latest(RowsIn(v, {"PAST_DUE"}))
               s == [Idle EXCEPT !.at = answer(c), !.v = v, !.row = pending,
                                 !.tier = subs[pending].tier]
    <2>1. Wait(r, s) /\ UNCHANGED tables
      BY <1>4 DEF verifyPayment
    <2>2. pending \in RowsIn(v, {"PAST_DUE"})
      BY <1>1, <1>4, LatestIsOne DEF verifyPayment, RowsIn
    <2>3. /\ answer(c) \in {"settle", "expirePending"}
          /\ answer(c) = "settle" => AnyReference \/ checkout[pending] = "paid"
      BY <1>4 DEF verifyPayment, answer
    <2> HIDE DEF pending
    <2>4. Current(s)
      BY <2>2, <2>3 DEF RowsIn, Current, Idle, VendorSteps, SweepSteps
    <2> QED BY <2>1, <2>4, ReadStaysCurrent DEF WebInv
  <1>5. ASSUME NEW v \in Vendor, cancelSubscription(r, v)
        PROVE  UNCHANGED tables /\ SlotsCurrent'
    <2> DEFINE s == [Idle EXCEPT !.at = "endRenewal", !.row = Latest(RowsIn(v, Live))]
    <2>1. Wait(r, s) /\ UNCHANGED tables /\ Current(s)
      BY <1>5 DEF cancelSubscription, Current, Idle, VendorSteps, SweepSteps
    <2> QED BY <2>1, ReadStaysCurrent DEF WebInv
  <1>6. CASE price(r)
    <2> DEFINE slot == req[r]
    <2>1. slot \in Slot /\ Current(slot) /\ slot.at = "price"
      BY <1>6, SlotHolds DEF WebInv, SlotsCurrent, price
    <2>2. PICK next \in {"startTrial", "switchPlan", "openCheckout"} :
               /\ next = "startTrial" => isTrialEligible(slot.v, slot.keys)
               /\ next = "switchPlan" => proratedCredit(slot.v)
               /\ Wait(r, [slot EXCEPT !.at = next])
      BY <1>6 DEF price
    <2>3. next = "startTrial" =>
             \A i \in DOMAIN subs : subs[i].vendor = slot.v => subs[i].tier = "BASIC"
      BY <2>2 DEF isTrialEligible
    <2>4. next = "switchPlan" => Exchangeable(slot.v)
      <3> DEFINE paid == {i \in RowsIn(slot.v, {"ACTIVE"}) : subs[i].tier # "BASIC"}
      <3>1. paid \subseteq DOMAIN subs
        BY DEF RowsIn
      <3>2. next = "switchPlan" => Latest(paid) \in paid
        BY <1>1, <2>2, <3>1, LatestIsOne DEF proratedCredit
      <3> QED BY <3>2 DEF Exchangeable
    <2> DEFINE s == [slot EXCEPT !.at = next]
    <2>5. s = [at |-> next, v |-> slot.v, row |-> slot.row, tier |-> slot.tier,
               keys |-> slot.keys, id |-> slot.id, txn |-> slot.txn,
               flag |-> slot.flag, todo |-> slot.todo]
      BY <2>1 DEF Slot
    <2> HIDE DEF s, slot
    <2>6. Current(s)
      BY <2>1, <2>3, <2>4, <2>5 DEF Current, VendorSteps, SweepSteps
    <2>7. Wait(r, s) /\ UNCHANGED tables
      BY <1>6, <2>2 DEF price, s, slot
    <2> QED BY <2>6, <2>7, ReadStaysCurrent DEF WebInv
  <1> QED BY <1>2, <1>3, <1>4, <1>5, <1>6

\* The sweep.
LEMMA SweepStaysCurrent ==
    ASSUME TypeInv, TrialInv, WebInv, NEW r \in RequestId, NEW i \in RowId,
           collectLapsed(r) \/ readOther(r, i) \/ expire(r, i)
    PROVE  SlotsCurrent' /\ (UNCHANGED tables \/ expire(r, i))
  <1> DEFINE slot == req[r]
  <1>1. slot \in Slot /\ Carries(slot) /\ Current(slot)
    BY SlotHolds DEF WebInv, SlotsCurrent
  <1>2. CASE collectLapsed(r)
    <2> DEFINE todo == {<<j, subs[j].vendor>> : j \in {j \in DOMAIN subs : Candidate(j)}}
               s == [Idle EXCEPT !.at = "readOther", !.todo = todo]
    <2>1. Wait(r, s) /\ UNCHANGED tables
      BY <1>2 DEF collectLapsed
    <2>2. \A c \in todo : Lapsed(c)
      BY DEF Lapsed, Candidate, Live
    <2> HIDE DEF todo
    <2>3. Current(s)
      BY <2>2 DEF Current, Idle, VendorSteps, SweepSteps
    <2> QED BY <2>1, <2>3, ReadStaysCurrent DEF WebInv
  <1>3. CASE readOther(r, i)
    <2> PICK v \in Vendor :
             /\ <<i, v>> \in slot.todo
             /\ Wait(r, [slot EXCEPT !.at = "expire", !.row = i, !.v = v,
                                     !.flag = RowsIn(v, Live) \ {i} # {}])
      BY <1>3 DEF readOther
    <2> DEFINE other == RowsIn(v, Live) \ {i} # {}
               s == [slot EXCEPT !.at = "expire", !.row = i, !.v = v, !.flag = other]
    <2>1. /\ s.at = "expire" /\ s.row = i /\ s.v = v /\ s.todo = slot.todo
          /\ s.flag = other
      BY <1>1 DEF Slot
    <2>2. \A c \in slot.todo : Lapsed(c)
      BY <1>1, <1>3 DEF readOther, Current, SweepSteps
    <2>3. Wait(r, s) /\ UNCHANGED tables
      BY <1>3 DEF readOther
    <2> HIDE DEF s
    <2>4. Current(s)
      BY <2>1, <2>2 DEF Current, SweepSteps
    <2> QED BY <2>3, <2>4, ReadStaysCurrent DEF WebInv
  <1>4. CASE expire(r, i)
    <2> DEFINE rest == {c \in slot.todo : c[1] # i}
               s == [Idle EXCEPT !.at = "readOther", !.todo = rest]
    <2>1. slot.at = "expire" /\ subs' = [subs EXCEPT ![i].status = "EXPIRED"]
      BY <1>4 DEF expire
    <2>2. CASE Return(r)
      BY <2>1, <2>2, EndStaysCurrent, <1>4
    <2>3. CASE Wait(r, s)
      <3>1. s.at = "readOther" /\ s.todo = rest
        BY DEF Idle
      <3>2. \A c \in rest : c[1] \in DOMAIN subs /\ c[1] # i /\ Lapsed(c)
        BY <1>1, <2>1 DEF Carries, Current, SweepSteps
      <3>3. \A c \in rest : Lapsed(c)'
        BY <2>1, <3>2 DEF Lapsed
      <3>4. \A q \in RequestId : req'[q] = IF q = r THEN s ELSE Idle
        <4>1. slot # Idle
          BY <2>1 DEF Idle
        <4>2. \A q \in RequestId \ {r} : req[q] = Idle
          BY <4>1 DEF TrialInv, Alone
        <4> HIDE DEF s, slot
        <4> QED BY <2>3, <4>2 DEF Wait, TypeInv, TypeOK
      <3> HIDE DEF s, rest
      <3>5. ASSUME NEW q \in RequestId
            PROVE  Current(req[q])'
        <4>1. CASE q = r
          BY <3>1, <3>3, <3>4, <4>1 DEF Current, SweepSteps
        <4>2. CASE q # r
          BY <3>4, <4>2 DEF Current, Idle, VendorSteps, SweepSteps
        <4> QED BY <4>1, <4>2
      <3> QED BY <1>4, <3>5 DEF SlotsCurrent
    <2> QED BY <1>4, <2>2, <2>3 DEF expire
  <1> QED BY <1>2, <1>3, <1>4

-----------------------------------------------------------------------------
(* The theorems about web billing alone.                                   *)

\* Every step moves at most one vendor's plan, and keeps what requests read.
LEMMA NextMoves ==
    ASSUME WebOnly, TypeInv, TrialInv, WebInv, [Next]_vars
    PROVE  WebShape /\ SlotsCurrent'
  <1>1. ASSUME NEW r \in RequestId,
               \/ ensureBasicSubscription(r) \/ switchPlan(r) \/ startTrial(r)
               \/ openCheckout(r) \/ settle(r) \/ expirePending(r) \/ endRenewal(r)
        PROVE  WebShape /\ SlotsCurrent'
    <2>1. Return(r) /\ req[r].at # "idle"
      BY <1>1 DEF ensureBasicSubscription, switchPlan, startTrial, openCheckout, settle,
                  expirePending, endRenewal
    <2> QED BY <1>1, <2>1, CommitsMove, EndStaysCurrent
  <1>2. CASE SubscriptionsNext
    BY <1>1, <1>2, ReadsStayCurrent, NothingMoves DEF SubscriptionsNext
  <1>3. CASE RenewalSweepNext
    BY <1>3, SweepStaysCurrent, ExpireMoves, NothingMoves DEF RenewalSweepNext
  <1>4. CASE (\E i \in DOMAIN subs : Tick(i) \/ Pay(i))
    BY <1>4, WorldMoves, WorldStaysCurrent DEF WebInv
  <1>5. CASE \E r \in RequestId : Fail(r)
    BY <1>5, WorldMoves, EndStaysCurrent DEF Fail
  <1>6. CASE UNCHANGED vars
    <2>1. WebShape
      BY <1>6, NothingMoves DEF vars, tables
    <2>2. SlotsCurrent'
      BY <1>6 DEF vars, WebInv, SlotsCurrent, Current, Lapsed, RowsIn, Exchangeable
    <2> QED BY <2>1, <2>2
  <1> QED BY <1>2, <1>3, <1>4, <1>5, <1>6, WebStepsOnly DEF Next, WebInv

LEMMA InitWeb == TablesInit => WebInv
  <1> SUFFICES ASSUME TablesInit PROVE WebInv
    OBVIOUS
  <1>1. DOMAIN subs = {} /\ \A v \in Vendor : RowsIn(v, Live) = {} /\ tier[v] = "BASIC"
    BY DEF TablesInit, RowsIn
  <1>2. \A r \in RequestId : req[r] = Idle
    BY DEF TablesInit
  <1>3. SlotsCurrent
    BY <1>2 DEF SlotsCurrent, Current, Idle, VendorSteps, SweepSteps
  <1> QED BY <1>1, <1>3 DEF WebInv, OneLiveSubscription, TierShown

\* One plan per vendor, which its profile shows; and what the request being
\* served read is still so.
LEMMA WebInvariance == ASSUME OneAtATime, WebOnly PROVE Spec => []WebInv
  <1>1. TypeInv /\ TypeInv' /\ TrialInv /\ WebInv /\ [Next]_vars => WebInv'
    BY NextMoves, ShapeKeepsPlans DEF WebInv
  <1> QED BY <1>1, InitWeb, TypeInvariance, TrialInvariance, PTL DEF Spec

\* With web billing alone, one request at a time, a vendor has one plan.
THEOREM OnePlanEach == ASSUME OneAtATime, WebOnly PROVE Spec => []OneLiveSubscription
  BY WebInvariance, PTL DEF WebInv

\* ... which is replaced or runs out, and is never just dropped.
THEOREM ReplacementOnly == ASSUME OneAtATime, WebOnly PROVE Spec => ReplacedNotDropped
  <1>1. ASSUME TypeInv, WebShape, NEW i \in DOMAIN subs,
               subs[i].status \in Live, subs'[i].status \notin Live
        PROVE  \/ subs[i].clock # "running"
               \/ \E j \in DOMAIN subs' : /\ subs'[j].vendor = subs[i].vendor
                                          /\ subs'[j].status \in Live
                                          /\ j \in DOMAIN subs => subs[j].status \notin Live
    <2>1. ~Untouched(i)
      BY <1>1 DEF Untouched, IsLive, GoesLive
    <2>2. ASSUME NEW v \in Vendor, NEW n \in RowId, PutsOn(v, n)
          PROVE  \E j \in DOMAIN subs' : /\ subs'[j].vendor = subs[i].vendor
                                         /\ subs'[j].status \in Live
                                         /\ j \in DOMAIN subs => subs[j].status \notin Live
      BY <1>1, <2>1, <2>2 DEF PutsOn, IsLive, GoesLive, WebShape, Named, RowsStay, Pays
    <2>3. ASSUME NEW v \in Vendor, NEW j \in DOMAIN subs, Drops(v, j)
          PROVE  subs[i].clock # "running"
      BY <2>1, <2>3 DEF Drops
    <2> QED BY <1>1, <2>1, <2>2, <2>3 DEF WebShape, PlansStay, Moves, Chooses, Takes, Tries, Pays
  <1>2. TypeInv /\ TrialInv /\ WebInv /\ [Next]_vars =>
          [\A i \in DOMAIN subs :
              subs[i].status \in Live /\ subs'[i].status \notin Live =>
                 \/ subs[i].clock # "running"
                 \/ \E j \in DOMAIN subs' : /\ subs'[j].vendor = subs[i].vendor
                                            /\ subs'[j].status \in Live
                                            /\ j \in DOMAIN subs =>
                                                  subs[j].status \notin Live]_vars
    BY <1>1, NextMoves
  <1> QED BY <1>2, TypeInvariance, TrialInvariance, WebInvariance, PTL
          DEF Spec, ReplacedNotDropped

\* The latest of one row, and of none.
LEMMA LatestOfOne ==
    /\ Latest({}) = 0
    /\ \A i \in RowId : i # 0 /\ Latest({i}) = i
  BY SubscriptionsAssumption DEF Latest, RowId

\* The mapping to the plan of record.
NoneOn == [tier |-> NULL, trial |-> FALSE]
OnRow(i) == [tier |-> subs[i].tier, trial |-> subs[i].status = "TRIALING"]
plans == [v \in Vendor |-> LET i == Latest(RowsIn(v, Live))
                           IN  IF i = 0 THEN NoneOn ELSE OnRow(i)]
trialled == {claims[c].vendor : c \in DOMAIN claims}

NotOpened == [vendor |-> NULL, tier |-> NULL, state |-> "none"]
Opened(s) == [vendor |-> subs[s].vendor, tier |-> subs[s].tier,
              state |-> IF subs[s].status = "PAST_DUE" THEN checkout[s] ELSE "closed"]
orders == [s \in RowId |-> IF checkout[s] = "none" THEN NotOpened ELSE Opened(s)]

LEMMA OnRowIs ==
    ASSUME NEW i
    PROVE  OnRow(i).tier = subs[i].tier /\ (OnRow(i).trial <=> subs[i].status = "TRIALING")
  BY Zenon DEF OnRow

LEMMA PlansAre ==
    ASSUME NEW v \in Vendor
    PROVE  /\ RowsIn(v, Live) = {} => plans[v] = NoneOn
           /\ \A i \in RowId : RowsIn(v, Live) = {i} => plans[v] = OnRow(i)
           /\ RowsIn(v, Live)' = {} => plans'[v] = NoneOn
           /\ \A i \in RowId : RowsIn(v, Live)' = {i} => plans'[v] = OnRow(i)'
  BY LatestOfOne DEF plans, NoneOn

\* A vendor whose live rows and their status stay keeps its plan.
LEMMA PlanKept ==
    ASSUME TypeInv, Named, WebInv, NEW v \in Vendor, RowsIn(v, Live)' = RowsIn(v, Live),
           \A i \in RowsIn(v, Live) : Untouched(i)
    PROVE  plans'[v] = plans[v]
  <1>1. CASE RowsIn(v, Live) = {}
    BY <1>1, PlansAre
  <1>2. ASSUME NEW i \in RowsIn(v, Live)
        PROVE  plans'[v] = plans[v]
    <2>1. RowsIn(v, Live) = {i} /\ i \in DOMAIN subs /\ IsLive(i)
      BY <1>2 DEF WebInv, OneLiveSubscription, RowsIn, IsLive
    <2>2. i \in RowId /\ subs'[i].tier = subs[i].tier /\ subs'[i].status = subs[i].status
      BY <2>1, RowTyped DEF TypeInv, Named, Untouched
    <2>3. OnRow(i)' = OnRow(i)
      BY <2>2 DEF OnRow
    <2> QED BY <2>1, <2>2, <2>3, PlansAre
  <1> QED BY <1>1, <1>2

\* The plans after nobody's moved, after a vendor is put on a row, and after
\* its plan runs out.
LEMMA PlansMove ==
    ASSUME TypeInv, TypeInv', WebInv, Named
    PROVE  /\ PlansStay => plans' = plans
           /\ \A v \in Vendor, n \in RowId : PutsOn(v, n) =>
                 plans' = [plans EXCEPT ![v] = OnRow(n)']
           /\ \A v \in Vendor, i \in DOMAIN subs : Drops(v, i) =>
                 plans' = [plans EXCEPT ![v] = NoneOn]
  <1>1. plans = [u \in Vendor |-> plans[u]] /\ plans' = [u \in Vendor |-> plans'[u]]
    BY DEF plans
  <1>2. ASSUME PlansStay PROVE plans' = plans
    <2>1. ASSUME NEW u \in Vendor PROVE plans'[u] = plans[u]
      <3>1. \A i \in RowsIn(u, Live) : Untouched(i)
        BY <1>2 DEF PlansStay, RowsIn
      <3> QED BY <1>2, <3>1, LiveAfter, PlanKept
    <2> QED BY <1>1, <2>1
  <1>3. ASSUME NEW v \in Vendor, NEW n \in RowId, PutsOn(v, n)
        PROVE  plans' = [plans EXCEPT ![v] = OnRow(n)']
    <2>1. ASSUME NEW u \in Vendor
          PROVE  plans'[u] = IF u = v THEN OnRow(n)' ELSE plans[u]
      <3>1. RowsIn(u, Live)' = IF u = v THEN {n} ELSE RowsIn(u, Live)
        BY <1>3, LiveAfter
      <3>2. u # v => \A i \in RowsIn(u, Live) : Untouched(i)
        BY <1>3, <3>1 DEF PutsOn, RowsIn, Named, RowsStay, IsLive
      <3> QED BY <3>1, <3>2, PlansAre, PlanKept
    <2> QED BY <1>1, <2>1
  <1>4. ASSUME NEW v \in Vendor, NEW i \in DOMAIN subs, Drops(v, i)
        PROVE  plans' = [plans EXCEPT ![v] = NoneOn]
    <2>1. ASSUME NEW u \in Vendor
          PROVE  plans'[u] = IF u = v THEN NoneOn ELSE plans[u]
      <3>1. RowsIn(u, Live)' = IF u = v THEN {} ELSE RowsIn(u, Live)
        BY <1>4, LiveAfter
      <3>2. u # v => \A j \in RowsIn(u, Live) : Untouched(j)
        BY <1>4 DEF Drops, RowsIn
      <3> QED BY <3>1, <3>2, PlansAre, PlanKept
    <2> QED BY <1>1, <2>1
  <1> QED BY <1>2, <1>3, <1>4

\* The checkouts after none moved, after one opens, and after one closes.
LEMMA OrdersTurn ==
    ASSUME TypeInv, TypeInv', PaidInv, Named
    PROVE  /\ OrdersStay => orders' = orders
           /\ \A n \in RowId : Opens(n) =>
                 /\ orders[n].state = "none"
                 /\ orders' = [orders EXCEPT ![n] = [vendor |-> subs'[n].vendor,
                                                     tier |-> subs'[n].tier,
                                                     state |-> "open"]]
           /\ \A n \in RowId : Closes(n) =>
                 IF checkout[n] = "none" THEN orders' = orders
                 ELSE /\ orders[n] = [vendor |-> subs[n].vendor, tier |-> subs[n].tier,
                                      state |-> checkout[n]]
                      /\ orders' = [orders EXCEPT ![n].state = "closed"]
  <1>1. /\ orders = [s \in RowId |-> orders[s]] /\ orders' = [s \in RowId |-> orders'[s]]
        /\ \A s \in RowId : /\ orders[s] = IF checkout[s] = "none" THEN NotOpened ELSE Opened(s)
                            /\ orders'[s] = IF checkout'[s] = "none" THEN NotOpened
                                            ELSE Opened(s)'
    BY DEF orders, NotOpened
  <1>2. \A s \in RowId : checkout[s] # "none" => s \in DOMAIN subs
    BY DEF PaidInv, CheckoutsOfWebRows
  <1>3. ASSUME NEW s \in RowId, checkout'[s] = checkout[s], s \in DOMAIN subs => SameDue(s)
        PROVE  orders'[s] = orders[s]
    <2>1. CASE checkout[s] = "none"
      BY <1>1, <1>3, <2>1
    <2>2. CASE s \in DOMAIN subs
      <3>1. Opened(s)' = Opened(s)
        BY <1>3, <2>2 DEF Named, Opened, SameDue
      <3> QED BY <1>1, <1>3, <3>1
    <2> QED BY <1>2, <2>1, <2>2
  <1>4. ASSUME OrdersStay PROVE orders' = orders
    <2>1. \A s \in RowId : orders'[s] = orders[s]
      BY <1>3, <1>4 DEF OrdersStay
    <2> QED BY <1>1, <2>1
  <1>5. ASSUME NEW n \in RowId, Opens(n)
        PROVE  /\ orders[n].state = "none"
               /\ orders' = [orders EXCEPT ![n] = [vendor |-> subs'[n].vendor,
                                                   tier |-> subs'[n].tier,
                                                   state |-> "open"]]
    <2>1. \A s \in RowId \ {n} : orders'[s] = orders[s]
      BY <1>3, <1>5 DEF Opens, TypeInv, TypeOK
    <2>2. checkout[n] = "none" /\ checkout'[n] = "open"
      BY <1>2, <1>5 DEF Opens, TypeInv, TypeOK
    <2>3. orders[n].state = "none"
      BY <1>1, <2>2 DEF NotOpened
    <2>4. orders'[n] = [vendor |-> subs'[n].vendor, tier |-> subs'[n].tier, state |-> "open"]
      BY <1>1, <1>5, <2>2 DEF Opens, Opened
    <2> QED BY <1>1, <2>1, <2>3, <2>4
  <1>6. ASSUME NEW n \in RowId, Closes(n)
        PROVE  IF checkout[n] = "none" THEN orders' = orders
               ELSE /\ orders[n] = [vendor |-> subs[n].vendor, tier |-> subs[n].tier,
                                    state |-> checkout[n]]
                    /\ orders' = [orders EXCEPT ![n].state = "closed"]
    <2>1. \A s \in RowId \ {n} : orders'[s] = orders[s]
      BY <1>3, <1>6 DEF Closes
    <2>2. CASE checkout[n] = "none"
      <3>1. orders'[n] = orders[n]
        BY <1>1, <1>6, <2>2 DEF Closes
      <3> QED BY <1>1, <2>1, <2>2, <3>1
    <2>3. CASE checkout[n] # "none"
      <3>1. orders[n] = [vendor |-> subs[n].vendor, tier |-> subs[n].tier,
                         state |-> checkout[n]]
        BY <1>1, <1>6, <2>3 DEF Closes, Opened
      <3>2. orders'[n] = [vendor |-> subs[n].vendor, tier |-> subs[n].tier,
                          state |-> "closed"]
        BY <1>1, <1>6, <2>3 DEF Closes, Opened, Named
      <3>3. orders'[n] = [orders[n] EXCEPT !.state = "closed"]
        BY <3>1, <3>2
      <3> QED BY <1>1, <2>1, <2>3, <3>1, <3>3
    <2> QED BY <2>2, <2>3
  <1> QED BY <1>4, <1>5, <1>6

RecordStep == [Record!Next]_<<plans, tier, trialled, orders>>

\* A vendor chooses a plan, takes the one it paid for, or starts its trial.
LEMMA PutOnStep ==
    ASSUME OwnReference, TypeInv, TypeInv', PaidInv, WebInv, Named,
           NEW v \in Vendor, NEW n \in RowId,
           Chooses(v, n) \/ Takes(v, n) \/ Tries(v, n)
    PROVE  RecordStep
  <1> DEFINE t == subs'[n].tier
  <1>1. PutsOn(v, n)
    BY DEF Chooses, Takes, Tries
  <1>2. \A trial \in BOOLEAN : (subs'[n].status = "TRIALING") = trial =>
           Record!PutOn(v, t, trial)
    <2>1. plans' = [plans EXCEPT ![v] = OnRow(n)'] /\ tier' = [tier EXCEPT ![v] = t]
      BY <1>1, PlansMove DEF PutsOn
    <2>2. OnRow(n)' = [tier |-> t, trial |-> subs'[n].status = "TRIALING"]
      BY DEF OnRow
    <2> HIDE DEF t
    <2> QED BY <2>1, <2>2 DEF Record!PutOn, plans, NoneOn, OnRow
  <1>3. t = "BASIC" \/ t \in PaidTier
    BY <1>1, RowsAfter DEF PutsOn, Row, Tier
  <1>4. \A i \in DOMAIN subs : i \in RowId /\ subs[i] \in Row
    BY RowTyped DEF TypeInv
  <1>5. \A i \in RowsIn(v, Live) : /\ RowsIn(v, Live) = {i} /\ i \in DOMAIN subs
                                   /\ subs[i].vendor = v /\ plans[v] = OnRow(i)
    <2> SUFFICES ASSUME NEW i \in RowsIn(v, Live)
                 PROVE  /\ RowsIn(v, Live) = {i} /\ i \in DOMAIN subs
                        /\ subs[i].vendor = v /\ plans[v] = OnRow(i)
      OBVIOUS
    <2>1. RowsIn(v, Live) = {i} /\ i \in DOMAIN subs /\ subs[i].vendor = v
      BY DEF WebInv, OneLiveSubscription, RowsIn
    <2> QED BY <1>4, <2>1, PlansAre
  <1>6. CASE Chooses(v, n)
    <2>1. Record!PutOn(v, t, FALSE)
      BY <1>2, <1>6 DEF Chooses
    <2>2. trialled' = trialled /\ orders' = orders
      BY <1>6, OrdersTurn DEF Chooses, trialled
    <2>3. CASE t = "BASIC"
      <3>1. Record!ChooseFree(v)
        BY <2>1, <2>2, <2>3
           DEF Record!ChooseFree, plans, trialled, orders, NoneOn, OnRow, NotOpened, Opened
      <3> QED BY <3>1 DEF RecordStep, Record!Next
    <2>4. CASE t \in PaidTier
      <3>1. PICK i \in RowsIn(v, {"ACTIVE"}) : subs[i].tier # "BASIC"
        BY <1>6, <2>4, SubscriptionsAssumption DEF Chooses, Exchangeable
      <3>2. i \in RowsIn(v, Live) /\ subs[i].status = "ACTIVE" /\ subs[i].tier \in PaidTier
        BY <1>4, <3>1 DEF RowsIn, Live, Row, Tier
      <3>3. plans[v].tier \in PaidTier /\ ~plans[v].trial
        BY <1>5, <3>2, OnRowIs
      <3> HIDE DEF t
      <3>4. Record!Exchange(v, t)
        BY <2>1, <2>2, <3>3
           DEF Record!Exchange, Record!OnPaid, plans, trialled, orders,
               NoneOn, OnRow, NotOpened, Opened
      <3> QED BY <2>4, <3>4 DEF RecordStep, Record!Next
    <2> QED BY <1>3, <2>3, <2>4
  <1>7. CASE Takes(v, n)
    <2>1. Record!PutOn(v, t, FALSE)
      BY <1>2, <1>7 DEF Takes
    <2>2. Closes(n) /\ checkout[n] = "paid" /\ trialled' = trialled
      BY <1>7 DEF Takes, OwnReference, trialled
    <2>3. /\ orders[n] = [vendor |-> subs[n].vendor, tier |-> subs[n].tier, state |-> "paid"]
          /\ orders' = [orders EXCEPT ![n].state = "closed"]
      BY <2>2, OrdersTurn
    <2>4. subs[n].vendor = v /\ subs[n].tier = t
      BY <1>1, <2>2 DEF PutsOn, Closes, Named
    <2>5. orders[n].vendor = v /\ orders[n].tier = t /\ orders[n].state = "paid"
      BY <2>3, <2>4
    <2> HIDE DEF t
    <2>6. Record!Take(n)
      BY <2>1, <2>2, <2>3, <2>5
         DEF Record!Take, Record!Turn, plans, trialled, orders, NoneOn, OnRow, NotOpened, Opened
    <2> QED BY <2>6 DEF RecordStep, Record!Next
  <1>8. CASE Tries(v, n)
    <2>1. Record!PutOn(v, t, TRUE) /\ t \in PaidTier
      BY <1>2, <1>3, <1>8 DEF Tries
    <2>2. v \notin trialled /\ orders' = orders
      BY <1>8, OrdersTurn DEF Tries, trialled
    <2>3. plans[v].tier \notin PaidTier
      <3>1. CASE RowsIn(v, Live) = {}
        BY <3>1, PlansAre, SubscriptionsAssumption DEF NoneOn, Tier
      <3>2. ASSUME NEW i \in RowsIn(v, Live)
            PROVE  plans[v].tier \notin PaidTier
        BY <1>5, <1>8, <3>2, OnRowIs, SubscriptionsAssumption DEF Tries
      <3> QED BY <3>1, <3>2
    <2>4. trialled' = trialled \cup {v}
      <3> PICK keys \in SUBSET Key :
               claims' = Append(claims, [vendor |-> v, keys |-> keys])
        BY <1>8 DEF Tries
      <3> DEFINE claim == [vendor |-> v, keys |-> keys]
                 m == Len(claims) + 1
      <3>1. claim \in Claim /\ claim.vendor = v /\ claims \in Seq(Claim)
            /\ claims' = Append(claims, claim)
        BY DEF Claim, TypeInv, TypeOK
      <3> HIDE DEF claim
      <3>2. /\ DOMAIN claims = 1 .. Len(claims) /\ Len(claims) \in Nat
            /\ DOMAIN claims' = 1 .. m
            /\ \A c \in DOMAIN claims : claims'[c] = claims[c]
            /\ claims'[m] = claim
        BY <3>1, AppendProperties, LenProperties
      <3>3. DOMAIN claims' = DOMAIN claims \cup {m}
        BY <3>2
      <3> HIDE DEF m
      <3> QED BY <3>1, <3>2, <3>3 DEF trialled
    <2> HIDE DEF t
    <2>5. Record!StartTrial(v, t)
      BY <2>1, <2>2, <2>3, <2>4
         DEF Record!StartTrial, Record!OnPaid, plans, trialled, orders,
             NoneOn, OnRow, NotOpened, Opened
    <2>6. \E q \in PaidTier : Record!StartTrial(v, q)
      BY <2>1, <2>5 DEF Record!StartTrial
    <2> QED BY <2>6 DEF RecordStep, Record!Next
  <1> QED BY <1>6, <1>7, <1>8

\* A step of web billing is one of the plan of record, or none.
LEMMA StepOfRecord ==
    ASSUME OwnReference, TypeInv, TypeInv', PaidInv, WebInv, WebShape
    PROVE  RecordStep
  <1>1. \A i \in DOMAIN subs : i \in RowId /\ subs[i] \in Row
    BY RowTyped DEF TypeInv
  <1>2. CASE Pays
    <2> PICK i \in DOMAIN subs : Pay(i)
      BY <1>2 DEF Pays
    <2>1. UNCHANGED <<plans, tier, trialled>>
      BY <1>2 DEF Pays, plans, RowsIn, NoneOn, OnRow, trialled
    <2>2. \A s \in RowId : orders'[s] = IF s = i /\ subs[i].status = "PAST_DUE"
                                        THEN [orders[s] EXCEPT !.state = "paid"]
                                        ELSE orders[s]
      BY <1>1, <1>2 DEF Pays, Pay, orders, NotOpened, Opened, TypeInv, TypeOK
    <2>3. orders = [s \in RowId |-> orders[s]] /\ orders' = [s \in RowId |-> orders'[s]]
      BY DEF orders
    <2>4. CASE subs[i].status = "PAST_DUE"
      <3>1. orders' = [orders EXCEPT ![i].state = "paid"]
        BY <1>1, <2>2, <2>3, <2>4
      <3>2. orders[i].state = "open"
        BY <1>1, <2>4 DEF Pay, orders, Opened
      <3>3. Record!Pay(i)
        BY <2>1, <3>1, <3>2
           DEF Record!Pay, Record!Turn, plans, trialled, orders, NoneOn, OnRow, NotOpened, Opened
      <3> QED BY <1>1, <3>3 DEF RecordStep, Record!Next
    <2>5. CASE subs[i].status # "PAST_DUE"
      <3>1. orders' = orders
        BY <2>2, <2>3, <2>5
      <3> QED BY <2>1, <3>1 DEF RecordStep
    <2> QED BY <2>4, <2>5
  <1>3. CASE Named /\ PlansStay /\ OrdersMove
    <2>1. UNCHANGED <<plans, tier, trialled>>
      BY <1>3, PlansMove DEF PlansStay, trialled
    <2>2. CASE OrdersStay
      BY <1>3, <2>1, <2>2, OrdersTurn DEF RecordStep
    <2>3. ASSUME NEW n \in RowId, Opens(n)
          PROVE  RecordStep
      <3> DEFINE v == subs'[n].vendor
                 t == subs'[n].tier
      <3>1. v \in Vendor /\ t \in PaidTier
        BY <2>3, RowsAfter DEF Opens, Row, Tier
      <3>2. Record!Open(n, v, t)
        BY <1>3, <2>1, <2>3, OrdersTurn
           DEF Record!Open, plans, trialled, orders, NoneOn, OnRow, NotOpened, Opened
      <3>3. \E u \in Vendor, q \in PaidTier : Record!Open(n, u, q)
        BY <3>1, <3>2 DEF Record!Open
      <3> QED BY <3>3 DEF RecordStep, Record!Next
    <2>4. ASSUME NEW n \in RowId, Closes(n)
          PROVE  RecordStep
      <3>1. CASE checkout[n] = "none"
        BY <1>3, <2>1, <2>4, <3>1, OrdersTurn DEF RecordStep
      <3>2. CASE checkout[n] # "none"
        <4>1. /\ orders[n].state \in {"open", "paid"}
              /\ orders' = [orders EXCEPT ![n].state = "closed"]
          <5>1. checkout[n] \in {"open", "paid"}
            BY <3>2 DEF TypeInv, TypeOK
          <5>2. /\ orders[n] = [vendor |-> subs[n].vendor, tier |-> subs[n].tier,
                                state |-> checkout[n]]
                /\ orders' = [orders EXCEPT ![n].state = "closed"]
            BY <1>3, <2>4, <3>2, OrdersTurn
          <5> QED BY <5>1, <5>2
        <4>2. Record!Forfeit(n)
          BY <2>1, <4>1 DEF Record!Forfeit, Record!Turn, plans, trialled, orders,
                            NoneOn, OnRow, NotOpened, Opened
        <4> QED BY <4>2 DEF RecordStep, Record!Next
      <3> QED BY <3>1, <3>2
    <2> QED BY <1>3, <2>2, <2>3, <2>4 DEF OrdersMove
  <1>4. ASSUME Named, NEW v \in Vendor, NEW i \in DOMAIN subs, Drops(v, i)
        PROVE  RecordStep
    <2>1. plans' = [plans EXCEPT ![v] = NoneOn] /\ orders' = orders
      BY <1>4, PlansMove, OrdersTurn DEF Drops
    <2>2. plans[v].tier \in PaidTier
      <3>1. subs[i].tier \in PaidTier /\ plans[v] = OnRow(i)
        BY <1>1, <1>4, PlansAre DEF Drops, Row, Tier
      <3> QED BY <3>1, OnRowIs
    <2>3. Record!Lapse(v)
      <3>1. trialled' = trialled /\ tier' = [tier EXCEPT ![v] = "BASIC"]
        BY <1>4 DEF Drops, trialled
      <3> QED BY ZenonT(30), <2>1, <2>2, <3>1
              DEF Record!Lapse, Record!OnPaid, Record!NoPlan,
                  plans, trialled, orders, NoneOn, OnRow, NotOpened, Opened
    <2> QED BY <2>3 DEF RecordStep, Record!Next
  <1> QED BY <1>2, <1>3, <1>4, PutOnStep DEF WebShape, Moves

\* Web billing alone, one request at a time, each row verified under its own
\* reference, implements the plan of record: a paid plan is entered by the one
\* trial, by a checkout paid for that tier and taken once, or by exchange of a
\* paid plan.
THEOREM RecordImplemented ==
    ASSUME OneAtATime, WebOnly, OwnReference PROVE Spec => ImplementsPlanOfRecord
  <1>1. TablesInit => Record!Init
    <2> SUFFICES ASSUME TablesInit PROVE Record!Init
      OBVIOUS
    <2>1. DOMAIN subs = {} /\ DOMAIN claims = {} /\ \A v \in Vendor : RowsIn(v, Live) = {}
      BY DEF TablesInit, RowsIn
    <2>2. plans = [v \in Vendor |-> NoneOn]
      <3>1. \A v \in Vendor : plans[v] = NoneOn
        BY <2>1, PlansAre
      <3> QED BY <3>1 DEF plans
    <2>3. orders = [s \in RowId |-> NotOpened]
      BY DEF TablesInit, orders
    <2> QED BY <2>1, <2>2, <2>3 DEF TablesInit, Record!Init, Record!NoPlan, Record!NoOrder,
            plans, orders, NoneOn, OnRow, NotOpened, Opened
  <1>2. TypeInv /\ TypeInv' /\ PaidInv /\ TrialInv /\ WebInv /\ [Next]_vars
          => RecordStep
    BY NextMoves, StepOfRecord
  <1> QED BY <1>1, <1>2, TypeInvariance, PaidInvariance, TrialInvariance, WebInvariance, PTL
          DEF Spec, ImplementsPlanOfRecord, Record!Spec, RecordStep, plans, trialled, orders,
              NoneOn, OnRow, NotOpened, Opened
=============================================================================
