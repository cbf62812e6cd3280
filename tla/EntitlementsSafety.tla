------------------------- MODULE EntitlementsSafety -------------------------
(***************************************************************************)
(* Vendor plans under any number of overlapping requests, deliveries and   *)
(* sweeps: type correctness, and that no order of them makes a checkout's  *)
(* row ACTIVE for a vendor who paid nothing.  A handler writes through     *)
(* what its slot holds, so both invariants say what a slot may hold.       *)
(***************************************************************************)
EXTENDS Entitlements, SequenceTheorems, FiniteSetTheorems, TLAPS

VendorCarriers == {"ensureBasic", "price", "switchPlan", "startTrial", "openCheckout",
                   "settle", "attach", "rollForward", "disable", "link", "endStore",
                   "expire"}
TierCarriers == {"price", "switchPlan", "startTrial", "openCheckout", "settle",
                 "attach", "rollForward", "link"}
RowCarriers == {"settle", "expirePending", "endRenewal", "attach", "rollForward",
                "disable", "renew", "storeCancel", "endStore", "expire"}

\* What slot s carries to its commit is there.
Carries(s) ==
    /\ s.at \in VendorCarriers => s.v \in Vendor
    /\ s.at \in TierCarriers => s.tier \in Tier
    /\ s.at \in RowCarriers => s.row \in DOMAIN subs
    /\ s.at = "link" => s.row \in DOMAIN subs \cup {0} /\ s.txn \in Txn
    /\ s.at \in SweepSteps => \A c \in s.todo : c[1] \in DOMAIN subs

SlotsCarry == \A r \in RequestId : Carries(req[r])

TypeInv == TypeOK /\ SlotsCarry

-----------------------------------------------------------------------------
(* The rows, and the latest of some of them.                               *)

\* A non-empty set of row numbers has a highest one.
LEMMA Highest ==
    ASSUME NEW n \in Nat, NEW S \in SUBSET (1 .. n), S # {}
    PROVE  \E i \in S : \A j \in S : j <= i
  <1> DEFINE U == 1 .. n
             T == {i .. n : i \in S}
  <1>1. IsFiniteSet(U)
    BY FS_Interval
  <1>2. FiniteSubsetsOf(U) = SUBSET U
    BY <1>1, FS_FiniteSubsetsOfFinite
  <1>3. T \in SUBSET FiniteSubsetsOf(U) /\ T # {}
    <2>1. \A i \in S : i .. n \in SUBSET U
      OBVIOUS
    <2>2. \A above \in T : above \in SUBSET U
      BY <2>1
    <2>3. PICK i \in S : TRUE
      OBVIOUS
    <2>4. i .. n \in T
      OBVIOUS
    <2> HIDE DEF T, U
    <2> QED BY <1>2, <2>2, <2>4
  <1>4. PICK above \in T : \A s \in T : <<s, above>> \notin StrictSubsetOrdering(U)
    BY <1>3, FS_StrictSubsetOrderingWellFounded, WFMin
  <1>5. PICK i \in S : above = i .. n
    OBVIOUS
  <1>6. ASSUME NEW j \in S, i < j
        PROVE  FALSE
    <2>1. j .. n \in T /\ j .. n \subseteq above /\ j .. n # above
      BY <1>5, <1>6
    <2>2. <<j .. n, above>> \in (SUBSET U) \X (SUBSET U)
      BY <1>5
    <2> QED BY <1>4, <2>1, <2>2 DEF StrictSubsetOrdering
  <1> QED BY <1>6

\* Latest picks one of the rows it is given.
LEMMA LatestIsOne ==
    ASSUME TypeOK, NEW ids \in SUBSET DOMAIN subs
    PROVE  /\ ids = {} => Latest(ids) = 0
           /\ ids # {} => Latest(ids) \in ids
           /\ Latest(ids) # 0 => Latest(ids) \in ids
           /\ Latest(ids) \in DOMAIN subs \cup {0}
  <1>1. DOMAIN subs = 1 .. Len(subs) /\ Len(subs) \in Nat
    BY LenProperties DEF TypeOK
  <1>2. ids # {} => \E i \in ids : \A j \in ids : j <= i
    BY <1>1, Highest
  <1> QED BY <1>1, <1>2 DEF Latest

\* f is the rows, rewritten in place.
Rewritten(f) ==
    /\ DOMAIN f = DOMAIN subs
    /\ f = [i \in DOMAIN subs |-> f[i]]
    /\ \A i \in DOMAIN subs : f[i] \in Row

\* Rewritten rows are as many rows.
LEMMA RewriteTyped ==
    ASSUME TypeOK, NEW f, Rewritten(f)
    PROVE  f \in Seq(Row) /\ Len(f) = Len(subs)
  <1>1. DOMAIN subs = 1 .. Len(subs) /\ Len(subs) \in Nat
    BY LenProperties DEF TypeOK
  <1>2. f \in Seq(Row)
    BY <1>1, IsASeq DEF Rewritten
  <1> QED BY <1>1, <1>2, LenProperties DEF Rewritten

\* A row's columns are of their types, and a row number is a RowId.
LEMMA RowTyped ==
    ASSUME TypeOK, NEW i \in DOMAIN subs
    PROVE  subs[i] \in Row /\ i \in RowId
  <1>1. DOMAIN subs = 1 .. Len(subs) /\ Len(subs) \in Nat
    BY LenProperties DEF TypeOK
  <1> QED BY <1>1, ElementOfSeq, SubscriptionsAssumption DEF TypeOK, RowId

\* An insert after a rewrite numbers the new row next and keeps the others.
LEMMA AppendTyped ==
    ASSUME TypeOK, RoomForRow, NEW f, Rewritten(f), NEW row \in Row,
           subs' = Append(f, row)
    PROVE  /\ subs' \in Seq(Row)
           /\ Len(subs') = Len(subs) + 1
           /\ Len(subs') <= MaxSubs
           /\ DOMAIN subs' = DOMAIN subs \cup {Len(subs) + 1}
           /\ \A i \in DOMAIN subs : subs'[i] = f[i]
           /\ subs'[Len(subs) + 1] = row
           /\ Len(subs) + 1 \in RowId \ DOMAIN subs
  <1>1. f \in Seq(Row) /\ Len(f) = Len(subs)
    BY RewriteTyped
  <1>2. DOMAIN subs = 1 .. Len(subs) /\ Len(subs) \in Nat
    BY LenProperties DEF TypeOK
  <1>3. /\ subs' \in Seq(Row)
        /\ Len(subs') = Len(f) + 1
        /\ \A i \in 1 .. Len(f) : subs'[i] = f[i]
        /\ subs'[Len(f) + 1] = row
    BY <1>1, AppendProperties
  <1>4. DOMAIN subs' = 1 .. Len(subs')
    BY <1>3, LenProperties
  <1> QED BY <1>1, <1>2, <1>3, <1>4, SubscriptionsAssumption DEF RoomForRow, RowId

\* The rows as they are are rewritten rows.
LEMMA KeptRewritten ==
    ASSUME TypeOK
    PROVE  Rewritten(subs)
  BY RowTyped DEF TypeOK, Rewritten

\* Rows of which some are retired are rewritten rows.
LEMMA RetiredRewrite ==
    ASSUME TypeOK, NEW f, DOMAIN f = DOMAIN subs, f = [i \in DOMAIN subs |-> f[i]],
           \A i \in DOMAIN subs : f[i] = subs[i] \/ f[i] = Retired(subs[i])
    PROVE  Rewritten(f)
  <1>1. ASSUME NEW row \in Row PROVE Retired(row) \in Row
    <2>1. Retired(row) = [row EXCEPT !.status = "CANCELLED", !.ending = FALSE]
      BY DEF Retired
    <2>2. "CANCELLED" \in Status
      BY DEF Status
    <2> QED BY <1>1, <2>1, <2>2 DEF Row
  <1>2. ASSUME NEW i \in DOMAIN subs PROVE f[i] \in Row
    <2>1. subs[i] \in Row /\ Retired(subs[i]) \in Row
      BY <1>1, RowTyped
    <2> QED BY <2>1
  <1> QED BY <1>2 DEF Rewritten

\* One row of rewritten rows may be written over.
LEMMA OneRewritten ==
    ASSUME NEW f, Rewritten(f), NEW i \in DOMAIN subs, NEW row \in Row,
           subs' = [f EXCEPT ![i] = row]
    PROVE  Rewritten(subs')
  BY DEF Rewritten

\* A new row of a vendor is a row.
LEMMA NewRowTyped ==
    ASSUME NEW v \in Vendor, NEW t \in Tier, NEW status \in Status
    PROVE  NewRow(v, t, status) \in Row
  BY DEF NewRow, Row, Clock, ProviderId

-----------------------------------------------------------------------------
(* Type correctness.                                                       *)

TablesTyped ==
    /\ subs \in Seq(Row)
    /\ Len(subs) <= MaxSubs
    /\ tier \in [Vendor -> Tier]
    /\ claims \in Seq(Claim)
    /\ checkout \in [RowId -> {"none", "open", "paid"}]

\* No step deletes a row.
RowsStay == DOMAIN subs \subseteq DOMAIN subs'

\* The idle slot is a slot, and nothing is carried in it.
LEMMA IdleTyped == Idle \in Slot /\ Carries(Idle) /\ Carries(Idle)'
  BY DEF Idle, Slot, Carries, VendorCarriers, TierCarriers, RowCarriers, SweepSteps,
         ProviderId

\* What is carried stays there.
LEMMA CarriedStays ==
    ASSUME RowsStay, NEW s, Carries(s)
    PROVE  Carries(s)'
  BY DEF Carries, RowsStay

\* A request that ends keeps the invariant.
LEMMA EndStep ==
    ASSUME TypeInv, NEW r \in RequestId, Return(r), TablesTyped', RowsStay
    PROVE  TypeInv'
  <1>1. TypeOK'
    BY IdleTyped DEF TypeInv, TypeOK, TablesTyped, Return
  <1>2. ASSUME NEW q \in RequestId PROVE Carries(req[q])'
    <2>1. req'[q] = Idle \/ req'[q] = req[q]
      BY DEF Return, TypeInv, TypeOK
    <2> QED BY <2>1, IdleTyped, CarriedStays DEF TypeInv, SlotsCarry, Carries
  <1> QED BY <1>1, <1>2 DEF TypeInv, SlotsCarry

\* So does one that waits, carrying what is there.
LEMMA WaitStep ==
    ASSUME TypeInv, NEW r \in RequestId, NEW s \in Slot, Wait(r, s), Carries(s),
           TablesTyped', RowsStay
    PROVE  TypeInv'
  <1>1. TypeOK'
    BY DEF TypeInv, TypeOK, TablesTyped, Wait
  <1>2. ASSUME NEW q \in RequestId PROVE Carries(req[q])'
    <2>1. req'[q] = s \/ req'[q] = req[q]
      BY DEF Wait, TypeInv, TypeOK
    <2> QED BY <2>1, CarriedStays DEF TypeInv, SlotsCarry, Carries
  <1> QED BY <1>1, <1>2 DEF TypeInv, SlotsCarry

\* A step of no request that keeps the slots.
LEMMA QuietStep ==
    ASSUME TypeInv, UNCHANGED req, TablesTyped', RowsStay
    PROVE  TypeInv'
  BY CarriedStays DEF TypeInv, TypeOK, TablesTyped, SlotsCarry, Carries

\* A step that writes no table leaves them typed.
LEMMA TablesUnchanged ==
    ASSUME TypeInv, UNCHANGED tables
    PROVE  TablesTyped' /\ RowsStay
  BY DEF TypeInv, TypeOK, TablesTyped, tables, RowsStay

\* A rewrite of the rows leaves the table typed.
LEMMA RowsRewritten ==
    ASSUME TypeInv, Rewritten(subs'),
           tier' \in [Vendor -> Tier], UNCHANGED <<claims, checkout>>
    PROVE  TablesTyped' /\ RowsStay
  <1>1. subs' \in Seq(Row) /\ Len(subs') = Len(subs)
    BY RewriteTyped DEF TypeInv
  <1> QED BY <1>1 DEF TypeInv, TypeOK, TablesTyped, RowsStay, Rewritten

\* So does an insert after a rewrite.
LEMMA RowInserted ==
    ASSUME TypeInv, RoomForRow, NEW f, Rewritten(f), NEW row \in Row,
           subs' = Append(f, row), tier' \in [Vendor -> Tier],
           claims' \in Seq(Claim),
           checkout' \in [RowId -> {"none", "open", "paid"}]
    PROVE  TablesTyped' /\ RowsStay
  BY AppendTyped DEF TypeInv, TablesTyped, RowsStay

\* A handler of slot r holds what its step needs.
LEMMA SlotHolds ==
    ASSUME TypeInv, NEW r \in RequestId
    PROVE  req[r] \in Slot /\ Carries(req[r])
  BY DEF TypeInv, TypeOK, SlotsCarry

-----------------------------------------------------------------------------
\* Reads of SubscriptionsService store what is there.
LEMMA ReadsTyped ==
    ASSUME TypeInv, NEW r \in RequestId, NEW v \in Vendor,
           \/ getMySubscription(r, v)
           \/ \E t \in Tier, keys \in SUBSET Key : subscribe(r, v, t, keys)
           \/ \E s \in DOMAIN subs : verifyPayment(r, v, s)
           \/ cancelSubscription(r, v)
    PROVE  TypeInv'
  <1> USE DEF TypeInv
  <1>1. /\ RowsIn(v, Live) \subseteq DOMAIN subs
        /\ RowsIn(v, {"PAST_DUE"}) \subseteq DOMAIN subs
    BY DEF RowsIn
  <1>2. DOMAIN subs \subseteq RowId
    BY RowTyped
  <1>3. CASE getMySubscription(r, v)
    <2> DEFINE s == [Idle EXCEPT !.at = "ensureBasic", !.v = v]
    <2>1. s \in Slot /\ Carries(s)
      BY IdleTyped DEF Idle, Slot, Carries, VendorSteps, VendorCarriers, TierCarriers,
         RowCarriers, SweepSteps
    <2> QED BY <1>3, <2>1, WaitStep, TablesUnchanged DEF getMySubscription
  <1>4. ASSUME NEW t \in Tier, NEW keys \in SUBSET Key, subscribe(r, v, t, keys)
        PROVE  TypeInv'
    <2> DEFINE active == Latest(RowsIn(v, Live))
               s == [Idle EXCEPT !.at = IF t = "BASIC" THEN "switchPlan" ELSE "price",
                                 !.v = v, !.tier = t, !.row = active,
                                 !.keys = IF t = "BASIC" THEN {} ELSE keys]
    <2>1. active \in RowId \cup {0}
      BY <1>1, <1>2, LatestIsOne
    <2> DEFINE step == IF t = "BASIC" THEN "switchPlan" ELSE "price"
               given == IF t = "BASIC" THEN {} ELSE keys
    <2>2. step \in {"switchPlan", "price"} /\ given \in SUBSET Key
      OBVIOUS
    <2>3. s = [Idle EXCEPT !.at = step, !.v = v, !.tier = t, !.row = active, !.keys = given]
      OBVIOUS
    <2> HIDE DEF active, step, given, s
    <2>4. s \in Slot
      BY ZenonT(30), <2>1, <2>2, <2>3, IdleTyped DEF Idle, Slot, VendorSteps
    <2>5. Carries(s)
      BY <2>2, <2>3 DEF Idle, Carries, VendorCarriers, TierCarriers, RowCarriers, SweepSteps
    <2>6. Wait(r, s) /\ UNCHANGED tables
      BY <1>4 DEF subscribe, active, step, given, s
    <2> QED BY <2>4, <2>5, <2>6, WaitStep, TablesUnchanged
  <1>5. ASSUME NEW i \in DOMAIN subs, verifyPayment(r, v, i)
        PROVE  TypeInv'
    <2> DEFINE pending == Latest(RowsIn(v, {"PAST_DUE"}))
               s == [Idle EXCEPT !.at = answer(i), !.v = v, !.row = pending,
                                 !.tier = subs[pending].tier]
    <2>1. pending \in DOMAIN subs
      BY <1>1, <1>5, LatestIsOne DEF verifyPayment
    <2>2. subs[pending].tier \in Tier
      BY <2>1, RowTyped DEF Row
    <2>3. s \in Slot /\ Carries(s)
      BY ZenonT(30), <1>2, <2>1, <2>2, IdleTyped DEF Idle, Slot, Carries, VendorSteps,
         VendorCarriers, TierCarriers, RowCarriers, SweepSteps, answer
    <2> QED BY <1>5, <2>3, WaitStep, TablesUnchanged DEF verifyPayment
  <1>6. CASE cancelSubscription(r, v)
    <2> DEFINE i == Latest(RowsIn(v, Live))
               s == [Idle EXCEPT !.at = "endRenewal", !.row = i]
    <2>1. i \in DOMAIN subs
      BY <1>1, <1>6, LatestIsOne DEF cancelSubscription
    <2>2. s \in Slot /\ Carries(s)
      BY <1>2, <2>1, IdleTyped DEF Idle, Slot, Carries, VendorSteps, VendorCarriers,
         TierCarriers, RowCarriers, SweepSteps
    <2> QED BY <1>6, <2>2, WaitStep, TablesUnchanged DEF cancelSubscription
  <1> QED BY <1>3, <1>4, <1>5, <1>6

\* The commits of SubscriptionsService write through what is there.
LEMMA CommitsTyped ==
    ASSUME TypeInv, NEW r \in RequestId,
           \/ ensureBasicSubscription(r) \/ price(r)
           \/ switchPlan(r) \/ startTrial(r) \/ openCheckout(r)
           \/ settle(r) \/ expirePending(r) \/ endRenewal(r)
    PROVE  TypeInv'
  <1> DEFINE slot == req[r]
  <1>1. slot \in Slot /\ Carries(slot)
    BY SlotHolds
  <1>2. TypeOK /\ Rewritten(subs)
    BY KeptRewritten DEF TypeInv
  <1>3. ASSUME slot.at \in {"switchPlan", "startTrial"}, NEW row \in Row,
               replacePlan(slot.v, slot.row, row), claims' \in Seq(Claim),
               UNCHANGED checkout
        PROVE  TablesTyped' /\ RowsStay
    <2> DEFINE f == [i \in DOMAIN subs |->
                        IF i = slot.row THEN Retired(subs[i]) ELSE subs[i]]
    <2>1. Rewritten(f)
      <3>1. \A i \in DOMAIN subs : f[i] = subs[i] \/ f[i] = Retired(subs[i])
        OBVIOUS
      <3>2. DOMAIN f = DOMAIN subs /\ f = [i \in DOMAIN subs |-> f[i]]
        OBVIOUS
      <3> HIDE DEF f
      <3> QED BY <1>2, <3>1, <3>2, RetiredRewrite
    <2>2. row.tier \in Tier
      BY DEF Row
    <2>3. tier' \in [Vendor -> Tier]
      BY <1>2, <1>3, <2>2 DEF replacePlan, TypeOK
    <2> HIDE DEF f
    <2>4. RoomForRow /\ subs' = Append(f, row)
      BY <1>3 DEF replacePlan, f
    <2> QED BY <1>2, <1>3, <2>1, <2>3, <2>4, RowInserted DEF TypeOK
  <1>4. CASE ensureBasicSubscription(r)
    <2>1. slot.v \in Vendor
      BY <1>1, <1>4 DEF ensureBasicSubscription, Carries, VendorCarriers
    <2>2. NewRow(slot.v, "BASIC", "ACTIVE") \in Row
      BY <2>1, NewRowTyped DEF Tier, Status, Live
    <2>3. tier' \in [Vendor -> Tier]
      BY <1>2, <1>4 DEF ensureBasicSubscription, TypeOK, Tier
    <2> QED BY <1>2, <1>4, <2>2, <2>3, RowInserted, EndStep
            DEF ensureBasicSubscription, TypeOK
  <1>5. CASE price(r)
    <2> PICK next \in {"startTrial", "switchPlan", "openCheckout"} :
             Wait(r, [slot EXCEPT !.at = next])
      BY <1>5 DEF price
    <2>1. [slot EXCEPT !.at = next] \in Slot
      BY <1>1 DEF Slot, VendorSteps
    <2>2. Carries([slot EXCEPT !.at = next])
      BY <1>1, <1>5 DEF price, Slot, Carries, VendorCarriers, TierCarriers, RowCarriers,
         SweepSteps
    <2> QED BY <1>5, <2>1, <2>2, WaitStep, TablesUnchanged DEF price
  <1>6. CASE switchPlan(r)
    <2>1. slot.at = "switchPlan" /\ slot.v \in Vendor /\ slot.tier \in Tier
      BY <1>1, <1>6 DEF switchPlan, Carries, VendorCarriers, TierCarriers
    <2>2. NewRow(slot.v, slot.tier, "ACTIVE") \in Row
      BY <2>1, NewRowTyped DEF Status, Live
    <2> QED BY <1>2, <1>3, <1>6, <2>1, <2>2, EndStep DEF switchPlan, TypeOK
  <1>7. CASE startTrial(r)
    <2>1. slot.at = "startTrial" /\ slot.v \in Vendor /\ slot.tier \in Tier
      BY <1>1, <1>7 DEF startTrial, Carries, VendorCarriers, TierCarriers
    <2>2. NewRow(slot.v, slot.tier, "TRIALING") \in Row
      BY <2>1, NewRowTyped DEF Status, Live
    <2>3. [vendor |-> slot.v, keys |-> slot.keys] \in Claim
      BY <1>1, <2>1 DEF Slot, Claim
    <2>4. claims' \in Seq(Claim)
      BY <1>2, <1>7, <2>3, AppendProperties DEF startTrial, TypeOK
    <2> QED BY <1>3, <1>7, <2>1, <2>2, <2>4, EndStep DEF startTrial
  <1>8. CASE openCheckout(r)
    <2> DEFINE s == Len(subs) + 1
               row == [NewRow(slot.v, slot.tier, "PAST_DUE") EXCEPT
                          !.provider = <<"REF", s>>]
    <2>1. slot.at = "openCheckout" /\ slot.v \in Vendor /\ slot.tier \in Tier
      BY <1>1, <1>8 DEF openCheckout, Carries, VendorCarriers, TierCarriers
    <2>2. s \in RowId
      BY <1>2, <1>8, LenProperties, SubscriptionsAssumption
         DEF openCheckout, RoomForRow, RowId, TypeOK
    <2>3. row \in Row
      BY <2>1, <2>2, NewRowTyped DEF Row, Status, ProviderId
    <2>4. checkout' \in [RowId -> {"none", "open", "paid"}]
      BY <1>2, <1>8 DEF openCheckout, TypeOK
    <2> QED BY <1>2, <1>8, <2>3, <2>4, RowInserted, EndStep DEF openCheckout, TypeOK
  <1>9. CASE settle(r)
    <2>1. slot.v \in Vendor /\ slot.tier \in Tier /\ slot.row \in DOMAIN subs
      BY <1>1, <1>9 DEF settle, Carries, VendorCarriers, TierCarriers, RowCarriers
    <2>2. Rewritten(endPrevious(slot.v, slot.row))
      <3> DEFINE f == endPrevious(slot.v, slot.row)
      <3>1. \A i \in DOMAIN subs : f[i] = subs[i] \/ f[i] = Retired(subs[i])
        BY DEF endPrevious
      <3>2. DOMAIN f = DOMAIN subs /\ f = [i \in DOMAIN subs |-> f[i]]
        BY DEF endPrevious
      <3> HIDE DEF f
      <3>3. Rewritten(f)
        BY <1>2, <3>1, <3>2, RetiredRewrite
      <3> QED BY <3>3 DEF f
    <2>3. Rewritten(subs')
      <3> DEFINE f == endPrevious(slot.v, slot.row)
                 row == [f[slot.row] EXCEPT !.status = "ACTIVE", !.clock = "running"]
      <3>1. f[slot.row] \in Row /\ slot.row \in DOMAIN f
        BY <2>1, <2>2 DEF Rewritten
      <3>2. row \in Row
        BY <3>1 DEF Row, Status, Live, Clock
      <3>3. subs' = [f EXCEPT ![slot.row] = row]
        BY <1>9, <3>1 DEF settle
      <3> HIDE DEF f, row
      <3> QED BY <2>1, <2>2, <3>2, <3>3, OneRewritten DEF f
    <2>4. tier' \in [Vendor -> Tier]
      BY <1>2, <1>9, <2>1 DEF settle, TypeOK
    <2> QED BY <1>9, <2>3, <2>4, RowsRewritten, EndStep DEF settle
  <1>10. CASE expirePending(r)
    <2>1. slot.row \in DOMAIN subs
      BY <1>1, <1>10 DEF expirePending, Carries, RowCarriers
    <2>2. Rewritten(subs')
      BY ZenonT(30), <1>2, <1>10, <2>1 DEF expirePending, Rewritten, Row, Status
    <2> QED BY <1>2, <1>10, <2>2, RowsRewritten, EndStep DEF expirePending, TypeOK
  <1>11. CASE endRenewal(r)
    <2>1. slot.row \in DOMAIN subs
      BY <1>1, <1>11 DEF endRenewal, Carries, RowCarriers
    <2>2. Rewritten(subs')
      BY ZenonT(30), <1>2, <1>11, <2>1 DEF endRenewal, Rewritten, Row
    <2> QED BY <1>2, <1>11, <2>2, RowsRewritten, EndStep DEF endRenewal, TypeOK
  <1> QED BY <1>4, <1>5, <1>6, <1>7, <1>8, <1>9, <1>10, <1>11

\* The nightly sweep carries the rows it collected, with their vendors.
LEMMA SweepTyped ==
    ASSUME TypeInv, NEW r \in RequestId, NEW i \in RowId,
           collectLapsed(r) \/ readOther(r, i) \/ expire(r, i)
    PROVE  TypeInv'
  <1> DEFINE slot == req[r]
  <1>1. slot \in Slot /\ Carries(slot)
    BY SlotHolds
  <1>2. TypeOK /\ Rewritten(subs)
    BY KeptRewritten DEF TypeInv
  <1>3. DOMAIN subs \subseteq RowId
    BY <1>2, RowTyped
  <1>4. CASE collectLapsed(r)
    <2> DEFINE todo == {<<j, subs[j].vendor>> : j \in {j \in DOMAIN subs : Candidate(j)}}
               s == [Idle EXCEPT !.at = "readOther", !.todo = todo]
    <2>1. \A j \in DOMAIN subs : j \in RowId /\ subs[j].vendor \in Vendor
      BY <1>2, RowTyped DEF Row
    <2>2. \A c \in todo : c[1] \in DOMAIN subs
      OBVIOUS
    <2>3. todo \in SUBSET (RowId \X Vendor)
      BY <2>1
    <2> HIDE DEF todo
    <2>4. s \in Slot
      BY <2>3, IdleTyped DEF Idle, Slot, SweepSteps
    <2>5. Carries(s)
      BY <2>2 DEF Idle, Carries, VendorCarriers, TierCarriers, RowCarriers, SweepSteps
    <2>6. Wait(r, s)
      BY <1>4 DEF collectLapsed, todo
    <2> QED BY <1>4, <2>4, <2>5, <2>6, WaitStep, TablesUnchanged DEF collectLapsed
  <1>5. CASE readOther(r, i)
    <2> PICK v \in Vendor :
             /\ <<i, v>> \in slot.todo
             /\ Wait(r, [slot EXCEPT !.at = "expire", !.row = i, !.v = v,
                                     !.flag = RowsIn(v, Live) \ {i} # {}])
      BY <1>5 DEF readOther
    <2> DEFINE s == [slot EXCEPT !.at = "expire", !.row = i, !.v = v,
                                 !.flag = RowsIn(v, Live) \ {i} # {}]
    <2>1. slot.at = "readOther" /\ \A c \in slot.todo : c[1] \in DOMAIN subs
      BY <1>1, <1>5 DEF readOther, Carries, SweepSteps
    <2>2. i \in DOMAIN subs
      BY <2>1
    <2>3. s \in Slot
      BY ZenonT(30), <1>1 DEF Slot, SweepSteps
    <2>4. Carries(s)
      BY <1>1, <2>1, <2>2 DEF Slot, Carries, VendorCarriers, TierCarriers, RowCarriers,
         SweepSteps
    <2> QED BY <1>5, <2>3, <2>4, WaitStep, TablesUnchanged DEF readOther
  <1>6. CASE expire(r, i)
    <2> DEFINE rest == {c \in slot.todo : c[1] # i}
               s == [Idle EXCEPT !.at = "readOther", !.todo = rest]
    <2>1. /\ slot.v \in Vendor
          /\ i \in DOMAIN subs
          /\ \A c \in slot.todo : c[1] \in DOMAIN subs
      BY <1>1, <1>6 DEF expire, Carries, VendorCarriers, RowCarriers, SweepSteps
    <2>2. Rewritten(subs')
      <3>1. subs[i] \in Row
        BY <1>2, <2>1 DEF Rewritten
      <3>2. [subs[i] EXCEPT !.status = "EXPIRED"] \in Row
        BY <3>1 DEF Row, Status
      <3> QED BY <1>2, <1>6, <2>1, <3>2, OneRewritten DEF expire
    <2>3. tier' \in [Vendor -> Tier]
      BY <1>2, <1>6, <2>1 DEF expire, dropTier, TypeOK, Tier
    <2>4. TablesTyped' /\ RowsStay
      BY <1>6, <2>2, <2>3, RowsRewritten DEF expire
    <2>5. rest \in SUBSET (RowId \X Vendor) /\ \A c \in rest : c[1] \in DOMAIN subs
      BY <1>1, <2>1 DEF Slot
    <2> HIDE DEF rest
    <2>6. s \in Slot
      BY <2>5, IdleTyped DEF Idle, Slot, SweepSteps
    <2>7. Carries(s)
      BY <2>5 DEF Idle, Carries, VendorCarriers, TierCarriers, RowCarriers, SweepSteps
    <2>8. Return(r) \/ Wait(r, s)
      BY <1>6 DEF expire, rest
    <2> QED BY <2>4, <2>6, <2>7, <2>8, EndStep, WaitStep
  <1> QED BY <1>4, <1>5, <1>6

\* The payment provider's events.
LEMMA WebhooksTyped ==
    ASSUME TypeInv, NEW r \in RequestId,
           \/ \E s \in DOMAIN subs :
                 \/ subscriptionCreate(r, s)
                 \/ readKnown(r, s, "rollForward") \/ readKnown(r, s, "disable")
                 \/ invoicePaymentFailed(r, s) \/ subscriptionNotRenew(r, s)
           \/ attach(r) \/ rollForward(r) \/ disable(r)
    PROVE  TypeInv'
  <1> DEFINE slot == req[r]
  <1>1. slot \in Slot /\ Carries(slot)
    BY SlotHolds
  <1>2. TypeOK /\ Rewritten(subs)
    BY KeptRewritten DEF TypeInv
  <1>3. \A j \in DOMAIN subs : j \in RowId /\ subs[j].vendor \in Vendor /\ subs[j].tier \in Tier
    BY <1>2, RowTyped DEF Row
  <1>4. ASSUME NEW s \in DOMAIN subs, subscriptionCreate(r, s)
        PROVE  TypeInv'
    <2> DEFINE v == subs[s].vendor
               i == Latest(RowsIn(v, Status))
               next == [Idle EXCEPT !.at = "attach", !.v = v, !.row = i,
                                    !.tier = subs[i].tier, !.id = Code(s)]
    <2>1. RowsIn(v, Status) \subseteq DOMAIN subs
      BY DEF RowsIn
    <2>2. i \in DOMAIN subs
      BY <1>2, <1>4, <2>1, LatestIsOne DEF subscriptionCreate
    <2>3. v \in Vendor /\ i \in RowId /\ subs[i].tier \in Tier /\ Code(s) \in ProviderId
      BY <1>3, <2>2 DEF Code, ProviderId
    <2>4. Wait(r, next)
      BY <1>4 DEF subscriptionCreate
    <2> HIDE DEF v, i
    <2>5. next \in Slot /\ Carries(next)
      BY <2>2, <2>3, IdleTyped DEF Idle, Slot, Carries, WebhookSteps, VendorCarriers,
         TierCarriers, RowCarriers, SweepSteps
    <2> QED BY <1>4, <2>4, <2>5, WaitStep, TablesUnchanged DEF subscriptionCreate
  <1>5. ASSUME NEW s \in DOMAIN subs, NEW at \in {"rollForward", "disable"},
               readKnown(r, s, at)
        PROVE  TypeInv'
    <2> PICK i \in KnownAs(Code(s)) :
             Wait(r, [Idle EXCEPT !.at = at, !.v = subs[i].vendor, !.row = i,
                                  !.tier = subs[i].tier])
      BY <1>5 DEF readKnown
    <2> DEFINE next == [Idle EXCEPT !.at = at, !.v = subs[i].vendor, !.row = i,
                                    !.tier = subs[i].tier]
    <2>1. i \in DOMAIN subs
      BY DEF KnownAs
    <2>2. next \in Slot /\ Carries(next)
      BY <1>3, <2>1, IdleTyped DEF Idle, Slot, Carries, WebhookSteps, VendorCarriers,
         TierCarriers, RowCarriers, SweepSteps
    <2> QED BY <1>5, <2>2, WaitStep, TablesUnchanged DEF readKnown
  <1>6. ASSUME NEW s \in DOMAIN subs,
               invoicePaymentFailed(r, s) \/ subscriptionNotRenew(r, s)
        PROVE  TypeInv'
    <2>1. \A j \in DOMAIN subs : /\ [subs[j] EXCEPT !.status = "PAST_DUE"] \in Row
                                 /\ [subs[j] EXCEPT !.ending = TRUE] \in Row
      BY <1>2 DEF Rewritten, Row, Status
    <2>2. Rewritten(subs')
      <3> DEFINE K == KnownAs(Code(s))
      <3>1. \/ subs' = [j \in DOMAIN subs |-> IF j \in K
                          THEN [subs[j] EXCEPT !.status = "PAST_DUE"] ELSE subs[j]]
            \/ subs' = [j \in DOMAIN subs |-> IF j \in K
                          THEN [subs[j] EXCEPT !.ending = TRUE] ELSE subs[j]]
        BY <1>6 DEF invoicePaymentFailed, subscriptionNotRenew
      <3> HIDE DEF K
      <3> QED BY <1>2, <2>1, <3>1 DEF Rewritten
    <2> QED BY <1>2, <1>6, <2>2, RowsRewritten, QuietStep
            DEF invoicePaymentFailed, subscriptionNotRenew, TypeOK
  <1>7. ASSUME slot.at \in {"attach", "rollForward", "disable"},
               Rewritten(subs'), Return(r), UNCHANGED <<claims, checkout>>,
               \/ tier' = [tier EXCEPT ![slot.v] = "BASIC"]
               \/ tier' = [tier EXCEPT ![slot.v] = slot.tier] /\ slot.at # "disable"
        PROVE  TypeInv'
    <2>1. tier' \in [Vendor -> Tier]
      BY <1>1, <1>2, <1>7 DEF Carries, VendorCarriers, TierCarriers, TypeOK, Tier
    <2> QED BY <1>7, <2>1, RowsRewritten, EndStep
  <1>8. CASE attach(r)
    <2>1. slot.row \in DOMAIN subs /\ slot.id \in ProviderId
      BY <1>1, <1>8 DEF attach, Carries, RowCarriers, Slot
    <2>2. Rewritten(subs')
      <3>1. subs[slot.row] \in Row
        BY <1>2, <2>1 DEF Rewritten
      <3>2. [subs[slot.row] EXCEPT !.status = "ACTIVE", !.clock = "running",
                                   !.provider = slot.id] \in Row
        BY <2>1, <3>1 DEF Row, Status, Live, Clock
      <3> QED BY <1>2, <1>8, <2>1, <3>2, OneRewritten DEF attach
    <2> QED BY <1>7, <1>8, <2>2 DEF attach
  <1>9. CASE rollForward(r)
    <2>1. slot.row \in DOMAIN subs
      BY <1>1, <1>9 DEF rollForward, Carries, RowCarriers
    <2>2. Rewritten(subs')
      <3>1. subs[slot.row] \in Row
        BY <1>2, <2>1 DEF Rewritten
      <3>2. [subs[slot.row] EXCEPT !.status = "ACTIVE", !.clock = "running"] \in Row
        BY <3>1 DEF Row, Status, Live, Clock
      <3>3. subs' = [subs EXCEPT ![slot.row] =
                        [subs[slot.row] EXCEPT !.status = "ACTIVE", !.clock = "running"]]
        BY <1>2, <1>9, <2>1 DEF rollForward, Rewritten
      <3> QED BY <1>2, <2>1, <3>2, <3>3, OneRewritten
    <2> QED BY <1>7, <1>9, <2>2 DEF rollForward
  <1>10. CASE disable(r)
    <2>1. slot.row \in DOMAIN subs
      BY <1>1, <1>10 DEF disable, Carries, RowCarriers
    <2>2. Rewritten(subs')
      BY ZenonT(30), <1>2, <1>10, <2>1 DEF disable, Rewritten, Row, Status
    <2> QED BY <1>7, <1>10, <2>2 DEF disable
  <1> QED BY <1>4, <1>5, <1>6, <1>8, <1>9, <1>10

\* What a store notification can ask for.
Notices == handleAppleNotification \cup handleGoogleNotification

LEMMA NoticeAsks ==
    ASSUME NEW notice \in Notices
    PROVE  /\ notice.action \in {"renew", "cancel", "expire", "refund", "ignore"}
           /\ notice.expiryKnown \in BOOLEAN
  <1>1. CASE notice \in handleAppleNotification
    BY <1>1 DEF handleAppleNotification, classifyAppleType
  <1>2. CASE notice \in handleGoogleNotification
    <2> PICK type \in GoogleType, fetched \in BOOLEAN :
             notice = [action |-> classifyGoogleType(type),
                       expiryKnown |-> classifyGoogleType(type) = "renew" /\ fetched]
      BY <1>2 DEF handleGoogleNotification
    <2>1. notice.action = classifyGoogleType(type)
      OBVIOUS
    <2>2. notice.expiryKnown = (classifyGoogleType(type) = "renew" /\ fetched)
      OBVIOUS
    <2>3. (classifyGoogleType(type) = "renew" /\ fetched) \in BOOLEAN
      BY Zenon
    <2> QED BY <2>1, <2>2, <2>3 DEF classifyGoogleType
  <1> QED BY <1>1, <1>2 DEF Notices

\* What the store says of a purchase.
LEMMA PurchaseSays ==
    ASSUME NEW purchase \in NormalizedIapPurchase
    PROVE  purchase.isTrial \in BOOLEAN
  <1>1. \A a \in AppleAnswer : \A p \in a : p.isTrial \in BOOLEAN
    BY DEF AppleAnswer, findAppleProduct
  <1>2. CASE \E a \in AppleAnswer, b \in AppleAnswer : purchase \in validateApple(a, b)
    BY <1>1, <1>2 DEF validateApple
  <1>3. CASE \E state \in GoogleState, tagged \in BOOLEAN :
                purchase = validateGoogle(state, tagged)
    BY <1>3 DEF validateGoogle
  <1> QED BY <1>2, <1>3 DEF NormalizedIapPurchase

\* The stores' purchases and notifications.
LEMMA StoreTyped ==
    ASSUME TypeInv, NEW r \in RequestId,
           \/ \E v \in Vendor, t \in PaidTier, x \in Txn, p \in NormalizedIapPurchase :
                 verify(r, v, t, x, p)
           \/ \E x \in Txn, notice \in Notices : applyNotification(r, x, notice)
           \/ link(r) \/ renew(r) \/ storeCancel(r) \/ endStore(r)
    PROVE  TypeInv'
  <1> DEFINE slot == req[r]
  <1>1. slot \in Slot /\ Carries(slot)
    BY SlotHolds
  <1>2. TypeOK /\ Rewritten(subs)
    BY KeptRewritten DEF TypeInv
  <1>3. \A j \in DOMAIN subs : j \in RowId /\ subs[j].vendor \in Vendor
    BY <1>2, RowTyped DEF Row
  <1>4. ASSUME NEW v \in Vendor, NEW t \in PaidTier, NEW x \in Txn,
               NEW purchase \in NormalizedIapPurchase, verify(r, v, t, x, purchase)
        PROVE  TypeInv'
    <2> PICK i \in (IF LinkedTo(x) = {} THEN {0} ELSE LinkedTo(x)) :
             Wait(r, [Idle EXCEPT !.at = "link", !.v = v, !.tier = t, !.txn = x,
                                  !.row = i, !.flag = purchase.isTrial])
      BY <1>4 DEF verify
    <2> DEFINE s == [Idle EXCEPT !.at = "link", !.v = v, !.tier = t, !.txn = x,
                                 !.row = i, !.flag = purchase.isTrial]
    <2>1. i \in DOMAIN subs \cup {0}
      BY DEF LinkedTo
    <2>2. s \in Slot /\ Carries(s)
      BY <1>3, <2>1, PurchaseSays, IdleTyped DEF Idle, Slot, Carries, StoreSteps,
         VendorCarriers, TierCarriers, RowCarriers, SweepSteps, Tier
    <2> QED BY <1>4, <2>2, WaitStep, TablesUnchanged DEF verify
  <1>5. ASSUME NEW x \in Txn, NEW notice \in Notices, applyNotification(r, x, notice)
        PROVE  TypeInv'
    <2> DEFINE at == StepFor[notice.action]
               flag == notice.action = "renew" /\ notice.expiryKnown
    <2> PICK i \in LinkedTo(x) :
             Wait(r, [Idle EXCEPT !.at = at, !.v = subs[i].vendor, !.row = i, !.flag = flag])
      BY <1>5 DEF applyNotification
    <2> DEFINE s == [Idle EXCEPT !.at = at, !.v = subs[i].vendor, !.row = i, !.flag = flag]
    <2>1. i \in DOMAIN subs
      BY DEF LinkedTo
    <2>2. at \in {"renew", "storeCancel", "endStore"} /\ flag \in BOOLEAN
      <3>1. at \in {"renew", "storeCancel", "endStore"}
        <4>1. notice.action # "ignore"
          BY <1>5 DEF applyNotification
        <4>2. notice.action \in {"renew", "cancel", "expire", "refund"}
          BY <4>1, NoticeAsks
        <4> QED BY <4>2 DEF StepFor
      <3>2. flag \in BOOLEAN
        BY Zenon
      <3> QED BY <3>1, <3>2
    <2>3. Wait(r, s)
      OBVIOUS
    <2> HIDE DEF at, flag
    <2>4. s \in Slot /\ Carries(s)
      BY <1>3, <2>1, <2>2, IdleTyped DEF Idle, Slot, Carries, StoreSteps, VendorCarriers,
         TierCarriers, RowCarriers, SweepSteps
    <2> QED BY <1>5, <2>3, <2>4, WaitStep, TablesUnchanged DEF applyNotification
  <1>6. CASE link(r)
    <2>1. /\ slot.v \in Vendor /\ slot.tier \in Tier /\ slot.txn \in Txn
          /\ slot.row \in DOMAIN subs \cup {0}
      BY <1>1, <1>6 DEF link, Carries, VendorCarriers, TierCarriers
    <2>2. \A row \in Row : linked(row, slot) \in Row /\ Retired(row) \in Row
      BY <2>1 DEF linked, Retired, Row, Status, Live, Clock
    <2>3. tier' \in [Vendor -> Tier]
      BY <1>2, <1>6, <2>1 DEF link, TypeOK
    <2>4. CASE slot.row # 0
      <3> DEFINE rows == [subs EXCEPT ![slot.row] = linked(@, slot)]
      <3>1. Rewritten(rows)
        BY <1>2, <2>1, <2>2, <2>4 DEF Rewritten
      <3>2. subs' = retireOthers(rows, slot)
        BY <1>6, <2>4 DEF link
      <3> HIDE DEF rows
      <3>3. Rewritten(subs')
        BY <2>2, <3>1, <3>2 DEF Rewritten, retireOthers
      <3> QED BY <1>6, <2>3, <3>3, RowsRewritten, EndStep DEF link
    <2>5. CASE slot.row = 0
      <3> DEFINE row == linked(NewRow(slot.v, slot.tier, "ACTIVE"), slot)
                 rows == Append(subs, row)
      <3>1. row \in Row /\ RoomForRow
        BY <1>6, <2>1, <2>2, <2>5, NewRowTyped DEF Status, Live, link
      <3>2. subs' = retireOthers(rows, slot)
        BY <1>6, <2>5 DEF link
      <3> HIDE DEF row
      <3>3. /\ DOMAIN subs = 1 .. Len(subs) /\ Len(subs) \in Nat
            /\ rows \in Seq(Row)
            /\ Len(rows) = Len(subs) + 1
            /\ DOMAIN rows = 1 .. Len(rows)
        BY <1>2, <3>1, AppendProperties, LenProperties DEF TypeOK
      <3>4. \A i \in 1 .. Len(rows) : rows[i] \in Row
        BY <3>3, ElementOfSeq
      <3> HIDE DEF rows
      <3>5. subs' = [i \in 1 .. Len(rows) |-> subs'[i]]
        BY <3>2, <3>3 DEF retireOthers
      <3>6. \A i \in 1 .. Len(rows) : subs'[i] \in Row
        BY <2>2, <3>2, <3>3, <3>4 DEF retireOthers
      <3>7. subs' \in Seq(Row) /\ Len(subs') = Len(rows)
        BY <3>3, <3>5, <3>6, IsASeq, LenProperties
      <3>8. DOMAIN subs' = 1 .. Len(rows)
        BY <3>7, LenProperties
      <3>9. TablesTyped' /\ RowsStay
        BY <1>2, <1>6, <2>3, <3>1, <3>3, <3>7, <3>8, SubscriptionsAssumption
           DEF link, TypeOK, TablesTyped, RowsStay, RoomForRow
      <3> QED BY <1>6, <3>9, EndStep DEF link
    <2> QED BY <2>4, <2>5
  <1>7. CASE renew(r)
    <2>1. slot.row \in DOMAIN subs
      BY <1>1, <1>7 DEF renew, Carries, RowCarriers
    <2>2. Rewritten(subs')
      <3> DEFINE clock == IF slot.flag THEN "running" ELSE subs[slot.row].clock
      <3>1. subs[slot.row] \in Row /\ clock \in Clock
        BY <1>2, <2>1 DEF Rewritten, Row, Clock
      <3>2. subs' = [subs EXCEPT ![slot.row].status = "ACTIVE",
                                 ![slot.row].ending = FALSE,
                                 ![slot.row].clock = clock]
        BY <1>7, <2>1, <3>1 DEF renew
      <3> HIDE DEF clock
      <3> QED BY <1>2, <2>1, <3>1, <3>2 DEF Rewritten, Row, Status, Live
    <2> QED BY <1>2, <1>7, <2>2, RowsRewritten, EndStep DEF renew, TypeOK
  <1>8. CASE storeCancel(r)
    <2>1. slot.row \in DOMAIN subs
      BY <1>1, <1>8 DEF storeCancel, Carries, RowCarriers
    <2>2. Rewritten(subs')
      BY <1>2, <1>8, <2>1 DEF storeCancel, Rewritten, Row
    <2> QED BY <1>2, <1>8, <2>2, RowsRewritten, EndStep DEF storeCancel, TypeOK
  <1>9. CASE endStore(r)
    <2>1. slot.row \in DOMAIN subs /\ slot.v \in Vendor
      BY <1>1, <1>9 DEF endStore, Carries, RowCarriers, VendorCarriers
    <2>2. Rewritten(subs')
      BY ZenonT(30), <1>2, <1>9, <2>1 DEF endStore, Rewritten, Row, Status
    <2>3. tier' \in [Vendor -> Tier]
      BY <1>2, <1>9, <2>1 DEF endStore, TypeOK, Tier
    <2> QED BY <1>9, <2>2, <2>3, RowsRewritten, EndStep DEF endStore
  <1> QED BY <1>4, <1>5, <1>6, <1>7, <1>8, <1>9

\* Time, the payer, and failures.
LEMMA WorldTyped ==
    ASSUME TypeInv,
           \/ \E i \in DOMAIN subs : Tick(i) \/ Pay(i)
           \/ \E r \in RequestId : Fail(r)
    PROVE  TypeInv'
  <1>1. TypeOK /\ Rewritten(subs)
    BY KeptRewritten DEF TypeInv
  <1>2. ASSUME NEW i \in DOMAIN subs, Tick(i)
        PROVE  TypeInv'
    <2>1. Rewritten(subs')
      BY ZenonT(30), <1>1, <1>2 DEF Tick, Rewritten, Row, Clock
    <2> QED BY <1>1, <1>2, <2>1, RowsRewritten, QuietStep DEF Tick, TypeOK
  <1>3. ASSUME NEW i \in DOMAIN subs, Pay(i)
        PROVE  TypeInv'
    <2>1. TablesTyped' /\ RowsStay
      BY <1>1, <1>3 DEF Pay, TypeOK, TablesTyped, RowsStay
    <2> QED BY <1>3, <2>1, QuietStep DEF Pay
  <1>4. ASSUME NEW r \in RequestId, Fail(r)
        PROVE  TypeInv'
    BY <1>4, TablesUnchanged, EndStep DEF Fail
  <1> QED BY <1>2, <1>3, <1>4

LEMMA InitTyped == TablesInit => TypeInv
  <1> SUFFICES ASSUME TablesInit PROVE TypeInv
    OBVIOUS
  <1>1. subs \in Seq(Row) /\ claims \in Seq(Claim) /\ Len(subs) = 0
    BY EmptySeq DEF TablesInit
  <1>2. TypeOK
    BY <1>1, IdleTyped, SubscriptionsAssumption DEF TablesInit, TypeOK, Tier
  <1>3. SlotsCarry
    BY IdleTyped DEF TablesInit, SlotsCarry
  <1> QED BY <1>2, <1>3 DEF TypeInv

LEMMA NextTyped == ASSUME TypeInv, [Next]_vars PROVE TypeInv'
  <1>1. CASE SubscriptionsNext
    BY <1>1, ReadsTyped, CommitsTyped DEF SubscriptionsNext
  <1>2. CASE RenewalSweepNext
    BY <1>2, SweepTyped DEF RenewalSweepNext
  <1>3. CASE BillingWebhooksNext
    BY <1>3, WebhooksTyped DEF BillingWebhooksNext
  <1>4. CASE StorePurchasesNext
    BY <1>4, StoreTyped DEF StorePurchasesNext, Notices
  <1>5. CASE UNCHANGED vars
    BY <1>5, TablesUnchanged, QuietStep DEF vars, tables
  <1> QED BY <1>1, <1>2, <1>3, <1>4, <1>5, WorldTyped DEF Next

\* The tables and the slots are of their types, and what a slot carries to its
\* commit exists, whatever overlaps.
THEOREM TypeInvariance == Spec => []TypeInv
  <1>1. TypeInv /\ [Next]_vars => TypeInv'
    BY NextTyped
  <1> QED BY <1>1, InitTyped, PTL DEF Spec

\* Every reachable state of the vendor plans is of the declared types.
THEOREM TypeCorrect == Spec => []TypeOK
  BY TypeInvariance, PTL DEF TypeInv

-----------------------------------------------------------------------------
(* Nobody is put on a plan by a checkout that nobody paid.  A commit may   *)
(* revive a row long after the request read it; what still holds is that   *)
(* the row was earned: its vendor paid a checkout, or bought in a store.   *)

PaidFor(v) == \E s \in DOMAIN subs : subs[s].vendor = v /\ checkout[s] = "paid"
Earned(i) == subs[i].txn # NULL \/ PaidFor(subs[i].vendor)

\* A checkout's row is never linked to a store purchase, so its vendor stays.
CheckoutsOfWebRows ==
    \A s \in RowId : checkout[s] # "none" => s \in DOMAIN subs /\ subs[s].txn = NULL

\* No row but its own carries the reference of a checkout.
ReferencesOwn ==
    \A i \in DOMAIN subs, s \in RowId : subs[i].provider = <<"REF", s>> => i = s

\* Row i renews with the provider, or is ACTIVE through it.
ThroughProvider(i) ==
    \/ subs[i].provider \in {"SUB"} \X RowId
    \/ subs[i].status = "ACTIVE" /\ subs[i].provider # NULL

RowsEarned == \A i \in DOMAIN subs : ThroughProvider(i) => Earned(i)

\* The row slot s will revive was earned.
Backed(s) ==
    /\ s.at \in {"settle", "attach", "rollForward"} => Earned(s.row)
    /\ s.at = "attach" => s.id \in {"SUB"} \X RowId
    /\ s.at = "renew" => subs[s.row].txn # NULL
    /\ s.at = "link" /\ s.row # 0 => subs[s.row].txn # NULL

SlotsBacked == \A r \in RequestId : Backed(req[r])

PaidInv == CheckoutsOfWebRows /\ ReferencesOwn /\ RowsEarned /\ SlotsBacked

\* What a step may do to a row ...
SameOwner(i) == subs'[i].vendor = subs[i].vendor /\ subs'[i].txn = subs[i].txn
SameProvider(i) == subs'[i].provider = subs[i].provider
Quiet(i) ==
    /\ SameOwner(i) /\ SameProvider(i)
    /\ subs'[i].status = "ACTIVE" => subs[i].status = "ACTIVE"
Revived(i) ==
    /\ Earned(i) /\ SameOwner(i)
    /\ SameProvider(i) \/ subs'[i].provider \in {"SUB"} \X RowId
Sold(i) == subs[i].txn # NULL /\ subs'[i].txn # NULL /\ SameProvider(i)
Inserted(i) ==
    \/ subs'[i].provider = NULL
    \/ /\ subs'[i].provider = <<"REF", i>>
       /\ subs'[i].status = "PAST_DUE"
       /\ subs'[i].txn = NULL

\* ... and to a checkout.
CheckoutKept(s) ==
    \/ checkout'[s] = checkout[s]
    \/ checkout[s] = "open" /\ checkout'[s] = "paid"
    \/ /\ s \in DOMAIN subs' \ DOMAIN subs
       /\ checkout'[s] = "open"
       /\ subs'[s].txn = NULL

PlanShape ==
    /\ RowsStay
    /\ \A i \in DOMAIN subs : Quiet(i) \/ Revived(i) \/ Sold(i)
    /\ \A i \in DOMAIN subs' \ DOMAIN subs : Inserted(i)
    /\ \A s \in RowId : CheckoutKept(s)

SlotShape ==
    \A r \in RequestId :
        \/ req'[r] = req[r]
        \/ req'[r].at \in SweepSteps \cup {"idle"}
        \/ UNCHANGED tables /\ Backed(req'[r])

\* From the shape of a step: what was earned stays earned.
LEMMA EarnedStays ==
    ASSUME TypeInv, PaidInv, PlanShape, NEW i \in DOMAIN subs, Earned(i)
    PROVE  Earned(i)'
  <1>1. ASSUME NEW v, PaidFor(v)
        PROVE  PaidFor(v)'
    <2> PICK s \in DOMAIN subs : subs[s].vendor = v /\ checkout[s] = "paid"
      BY <1>1 DEF PaidFor
    <2>1. s \in RowId
      BY RowTyped DEF TypeInv
    <2>2. subs[s].txn = NULL
      BY <2>1 DEF PaidInv, CheckoutsOfWebRows
    <2>3. subs'[s].vendor = v /\ s \in DOMAIN subs'
      BY <2>2 DEF PlanShape, RowsStay, Quiet, Revived, Sold, SameOwner
    <2>4. checkout'[s] = "paid"
      BY <2>1 DEF PlanShape, CheckoutKept
    <2> QED BY <2>3, <2>4 DEF PaidFor
  <1> QED BY <1>1 DEF PlanShape, Earned, Quiet, Revived, Sold, SameOwner

\* From the shapes of a step: the invariant is preserved.
LEMMA ShapesKeepPaid ==
    ASSUME TypeInv, TypeInv', PaidInv, PlanShape, SlotShape
    PROVE  PaidInv'
  <1>1. CheckoutsOfWebRows'
    BY DEF PaidInv, CheckoutsOfWebRows, PlanShape, RowsStay, CheckoutKept, Quiet, Revived,
           Sold, SameOwner
  <1>2. ASSUME NEW i \in DOMAIN subs', NEW s \in RowId, subs'[i].provider = <<"REF", s>>
        PROVE  i = s
    <2>1. <<"REF", s>> # NULL /\ <<"REF", s>> \notin {"SUB"} \X RowId
      BY SubscriptionsAssumption
    <2>2. CASE i \in DOMAIN subs
      <3>1. SameProvider(i)
        BY <1>2, <2>1, <2>2 DEF PlanShape, Quiet, Revived, Sold
      <3> QED BY <1>2, <2>2, <3>1 DEF PaidInv, ReferencesOwn, SameProvider
    <2>3. CASE i \notin DOMAIN subs
      BY <1>2, <2>1, <2>3 DEF PlanShape, Inserted
    <2> QED BY <2>2, <2>3
  <1>3. ASSUME NEW i \in DOMAIN subs', ThroughProvider(i)'
        PROVE  Earned(i)'
    <2>1. CASE i \in DOMAIN subs
      <3>1. CASE Quiet(i)
        BY <1>3, <2>1, <3>1, EarnedStays
           DEF PaidInv, RowsEarned, ThroughProvider, Quiet, SameProvider
      <3>2. CASE Revived(i)
        BY <2>1, <3>2, EarnedStays DEF Revived
      <3>3. CASE Sold(i)
        BY <3>3 DEF Sold, Earned
      <3> QED BY <2>1, <3>1, <3>2, <3>3 DEF PlanShape
    <2>2. CASE i \notin DOMAIN subs
      <3>1. Inserted(i)
        BY <2>2 DEF PlanShape
      <3>2. NULL \notin {"SUB"} \X RowId
        BY SubscriptionsAssumption
      <3> QED BY <1>3, <3>1, <3>2 DEF Inserted, ThroughProvider
    <2> QED BY <2>1, <2>2
  <1>4. ASSUME NEW r \in RequestId
        PROVE  Backed(req[r])'
    <2>1. CASE req'[r] = req[r]
      <3>1. Backed(req[r]) /\ Carries(req[r])
        BY SlotHolds DEF PaidInv, SlotsBacked
      <3>2. req[r].at \in {"settle", "attach", "rollForward", "renew"} =>
                req[r].row \in DOMAIN subs
        BY <3>1 DEF Carries, RowCarriers
      <3>3. req[r].at = "link" /\ req[r].row # 0 => req[r].row \in DOMAIN subs
        BY <3>1 DEF Carries
      <3>4. \A i \in DOMAIN subs : subs[i].txn # NULL => subs'[i].txn # NULL
        BY DEF PlanShape, Quiet, Revived, Sold, SameOwner
      <3>5. \A i \in DOMAIN subs : Earned(i) => Earned(i)'
        BY EarnedStays
      <3> QED BY <2>1, <3>1, <3>2, <3>3, <3>4, <3>5 DEF Backed
    <2>2. CASE req'[r].at \in SweepSteps \cup {"idle"}
      BY <2>2 DEF Backed, SweepSteps
    <2>3. CASE UNCHANGED tables /\ Backed(req'[r])
      BY <2>3 DEF Backed, Earned, PaidFor, tables
    <2> QED BY <2>1, <2>2, <2>3 DEF SlotShape
  <1> QED BY <1>1, <1>2, <1>3, <1>4 DEF PaidInv, ReferencesOwn, RowsEarned, SlotsBacked

-----------------------------------------------------------------------------
\* A request that ends, or waits, changes its own slot only.
LEMMA SlotEnds ==
    ASSUME TypeInv, NEW r \in RequestId, Return(r)
    PROVE  SlotShape
  BY DEF Return, TypeInv, TypeOK, SlotShape, Idle

LEMMA SlotWaits ==
    ASSUME TypeInv, NEW r \in RequestId, NEW s, Wait(r, s), UNCHANGED tables, Backed(s)
    PROVE  SlotShape
  BY DEF Wait, TypeInv, TypeOK, SlotShape

\* A step that writes no table.
LEMMA TablesQuiet ==
    ASSUME TypeInv, UNCHANGED tables
    PROVE  PlanShape
  BY DEF tables, PlanShape, RowsStay, Quiet, SameOwner, SameProvider, CheckoutKept

\* A rewrite of the rows that revives only what was earned.
LEMMA RewriteShape ==
    ASSUME TypeInv, DOMAIN subs' = DOMAIN subs, UNCHANGED checkout,
           \A i \in DOMAIN subs : Quiet(i) \/ Revived(i) \/ Sold(i)
    PROVE  PlanShape
  BY DEF PlanShape, RowsStay, CheckoutKept

\* The vendor of a paid checkout, by either of its tests, has paid.
LEMMA ReferencePaid ==
    ASSUME TypeInv, PaidInv, NEW v, NEW s \in DOMAIN subs,
           referenceBelongs(v, s), checkout[s] = "paid"
    PROVE  PaidFor(v)
  <1>1. s \in RowId
    BY RowTyped DEF TypeInv
  <1> QED BY <1>1 DEF referenceBelongs, PaidFor, PaidInv, ReferencesOwn

\* The steps of SubscriptionsService.
LEMMA ServiceShape ==
    ASSUME TypeInv, PaidInv, SubscriptionsNext
    PROVE  PlanShape /\ SlotShape
  <1>0. PICK r \in RequestId :
             \/ \E v \in Vendor :
                   \/ getMySubscription(r, v)
                   \/ \E t \in Tier, keys \in SUBSET Key : subscribe(r, v, t, keys)
                   \/ \E s \in DOMAIN subs : verifyPayment(r, v, s)
                   \/ cancelSubscription(r, v)
             \/ ensureBasicSubscription(r)
             \/ price(r) \/ switchPlan(r) \/ startTrial(r) \/ openCheckout(r)
             \/ settle(r) \/ expirePending(r)
             \/ endRenewal(r)
    BY DEF SubscriptionsNext
  <1> DEFINE slot == req[r]
  <1>1. slot \in Slot /\ Carries(slot) /\ Backed(slot)
    BY SlotHolds DEF PaidInv, SlotsBacked
  <1>2. TypeOK /\ Rewritten(subs) /\ \A i \in DOMAIN subs : i \in RowId
    BY KeptRewritten, RowTyped DEF TypeInv
  <1>3. ASSUME NEW v \in Vendor,
               \/ getMySubscription(r, v)
               \/ \E t \in Tier, keys \in SUBSET Key : subscribe(r, v, t, keys)
               \/ cancelSubscription(r, v)
        PROVE  PlanShape /\ SlotShape
    <2>1. UNCHANGED tables
      BY <1>3 DEF getMySubscription, subscribe, cancelSubscription
    <2>2. CASE getMySubscription(r, v)
      <3> DEFINE s == [Idle EXCEPT !.at = "ensureBasic", !.v = v]
      <3>1. Wait(r, s) /\ Backed(s)
        BY <2>2 DEF getMySubscription, Backed, Idle
      <3> QED BY <2>1, <3>1, SlotWaits, TablesQuiet
    <2>3. ASSUME NEW t \in Tier, NEW keys \in SUBSET Key, subscribe(r, v, t, keys)
          PROVE  PlanShape /\ SlotShape
      <3> DEFINE s == [Idle EXCEPT !.at = IF t = "BASIC" THEN "switchPlan" ELSE "price",
                                   !.v = v, !.tier = t, !.row = Latest(RowsIn(v, Live)),
                                   !.keys = IF t = "BASIC" THEN {} ELSE keys]
      <3>1. Wait(r, s) /\ Backed(s)
        BY <2>3 DEF subscribe, Backed, Idle
      <3> QED BY <2>1, <3>1, SlotWaits, TablesQuiet
    <2>4. CASE cancelSubscription(r, v)
      <3> DEFINE s == [Idle EXCEPT !.at = "endRenewal", !.row = Latest(RowsIn(v, Live))]
      <3>1. Wait(r, s) /\ Backed(s)
        BY <2>4 DEF cancelSubscription, Backed, Idle
      <3> QED BY <2>1, <3>1, SlotWaits, TablesQuiet
    <2> QED BY <1>3, <2>2, <2>3, <2>4
  <1>4. ASSUME NEW v \in Vendor, NEW s \in DOMAIN subs, verifyPayment(r, v, s)
        PROVE  PlanShape /\ SlotShape
    <2> DEFINE pending == Latest(RowsIn(v, {"PAST_DUE"}))
               next == [Idle EXCEPT !.at = answer(s), !.v = v, !.row = pending,
                                    !.tier = subs[pending].tier]
    <2>1. pending \in RowsIn(v, {"PAST_DUE"})
      BY <1>2, <1>4, LatestIsOne DEF verifyPayment, RowsIn
    <2>2. answer(s) = "settle" => Earned(pending)
      <3>1. answer(s) = "settle" => PaidFor(v)
        BY <1>4, ReferencePaid DEF verifyPayment, answer
      <3> QED BY <2>1, <3>1 DEF RowsIn, Earned
    <2>3. Wait(r, next) /\ UNCHANGED tables
      BY <1>4 DEF verifyPayment
    <2> HIDE DEF pending
    <2>4. Backed(next)
      BY <2>2 DEF Backed, Idle, answer
    <2> QED BY <2>3, <2>4, SlotWaits, TablesQuiet
  <1>5. CASE price(r)
    <2>1. PICK next \in {"startTrial", "switchPlan", "openCheckout"} :
               Wait(r, [slot EXCEPT !.at = next]) /\ UNCHANGED tables
      BY <1>5 DEF price
    <2>2. Backed([slot EXCEPT !.at = next])
      BY <1>1 DEF Backed, Slot
    <2> QED BY <2>1, <2>2, SlotWaits, TablesQuiet
  <1>6. ASSUME RoomForRow, NEW f, Rewritten(f), NEW row \in Row, subs' = Append(f, row),
               row.provider = NULL, UNCHANGED checkout,
               \A i \in DOMAIN subs : \/ f[i] = subs[i]
                                      \/ f[i] = Retired(subs[i])
        PROVE  PlanShape
    <2>1. /\ DOMAIN subs' = DOMAIN subs \cup {Len(subs) + 1}
          /\ \A i \in DOMAIN subs : subs'[i] = f[i]
          /\ subs'[Len(subs) + 1] = row
      BY <1>2, <1>6, AppendTyped
    <2>2. \A i \in DOMAIN subs : Quiet(i)
      <3> SUFFICES ASSUME NEW i \in DOMAIN subs PROVE Quiet(i)
        OBVIOUS
      <3>1. subs[i] \in Row /\ (subs'[i] = subs[i] \/ subs'[i] = Retired(subs[i]))
        BY <1>2, <1>6, <2>1 DEF Rewritten
      <3> QED BY <3>1 DEF Quiet, SameOwner, SameProvider, Retired, Row
    <2>3. \A i \in DOMAIN subs' \ DOMAIN subs : Inserted(i)
      BY <1>6, <2>1 DEF Inserted
    <2> QED BY <1>6, <2>1, <2>2, <2>3 DEF PlanShape, RowsStay, CheckoutKept
  <1>7. CASE ensureBasicSubscription(r)
    <2> DEFINE row == NewRow(slot.v, "BASIC", "ACTIVE")
    <2>1. slot.v \in Vendor
      BY <1>1, <1>7 DEF ensureBasicSubscription, Carries, VendorCarriers
    <2>2. row \in Row /\ row.provider = NULL
      BY <2>1, NewRowTyped DEF Tier, Status, Live, NewRow
    <2> HIDE DEF row
    <2>3. RoomForRow /\ subs' = Append(subs, row) /\ Return(r) /\ UNCHANGED checkout
      BY <1>7 DEF ensureBasicSubscription, row
    <2> QED BY <1>2, <1>6, <2>2, <2>3, SlotEnds
  <1>8. CASE switchPlan(r) \/ startTrial(r)
    <2> DEFINE status == IF slot.at = "switchPlan" THEN "ACTIVE" ELSE "TRIALING"
               row == NewRow(slot.v, slot.tier, status)
               f == [i \in DOMAIN subs |->
                        IF i = slot.row THEN Retired(subs[i]) ELSE subs[i]]
    <2>1. slot.v \in Vendor /\ slot.tier \in Tier /\ status \in Status
      BY <1>1, <1>8 DEF switchPlan, startTrial, Carries, VendorCarriers, TierCarriers,
         Status, Live
    <2>2. row \in Row /\ row.provider = NULL
      BY <2>1, NewRowTyped DEF NewRow
    <2>3. \A i \in DOMAIN subs : f[i] = subs[i] \/ f[i] = Retired(subs[i])
      OBVIOUS
    <2>4. Rewritten(f)
      <3>1. DOMAIN f = DOMAIN subs /\ f = [i \in DOMAIN subs |-> f[i]]
        OBVIOUS
      <3> HIDE DEF f
      <3> QED BY <1>2, <2>3, <3>1, RetiredRewrite
    <2>5. RoomForRow /\ subs' = Append(f, row) /\ Return(r) /\ UNCHANGED checkout
      BY <1>8 DEF switchPlan, startTrial, replacePlan
    <2> HIDE DEF row, f
    <2> QED BY <1>6, <2>2, <2>3, <2>4, <2>5, SlotEnds
  <1>9. CASE openCheckout(r)
    <2> DEFINE s == Len(subs) + 1
               row == [NewRow(slot.v, slot.tier, "PAST_DUE") EXCEPT
                          !.provider = <<"REF", s>>]
    <2>1. slot.at = "openCheckout" /\ slot.v \in Vendor /\ slot.tier \in Tier
      BY <1>1, <1>9 DEF openCheckout, Carries, VendorCarriers, TierCarriers
    <2>2. RoomForRow /\ subs' = Append(subs, row) /\ Return(r)
          /\ checkout' = [checkout EXCEPT ![s] = "open"]
      BY <1>9 DEF openCheckout
    <2>3. s \in RowId
      BY <1>2, <2>2, LenProperties, SubscriptionsAssumption
         DEF RoomForRow, RowId, TypeOK
    <2>4. /\ row \in Row
          /\ row.provider = <<"REF", s>> /\ row.status = "PAST_DUE" /\ row.txn = NULL
      BY <2>1, <2>3, NewRowTyped DEF NewRow, Row, Status, ProviderId
    <2> HIDE DEF row
    <2>5. /\ DOMAIN subs' = DOMAIN subs \cup {s}
          /\ \A i \in DOMAIN subs : subs'[i] = subs[i]
          /\ subs'[s] = row
          /\ s \notin DOMAIN subs
      BY <1>2, <2>2, <2>4, AppendTyped
    <2>6. \A i \in DOMAIN subs : Quiet(i)
      BY <2>5 DEF Quiet, SameOwner, SameProvider
    <2>7. Inserted(s)
      BY <2>4, <2>5 DEF Inserted
    <2> HIDE DEF s
    <2>8. \A q \in RowId : CheckoutKept(q)
      BY <1>2, <2>2, <2>4, <2>5 DEF CheckoutKept, TypeOK
    <2> QED BY <2>2, <2>5, <2>6, <2>7, <2>8, SlotEnds DEF PlanShape, RowsStay
  <1>10. CASE settle(r)
    <2>1. slot.row \in DOMAIN subs /\ Earned(slot.row)
      BY <1>1, <1>10 DEF settle, Carries, RowCarriers, Backed
    <2>2. ASSUME NEW i \in DOMAIN subs PROVE Quiet(i) \/ Revived(i)
      <3>1. subs[i] \in Row
        BY <1>2, <2>2 DEF Rewritten
      <3>2. CASE i = slot.row
        <4>1. /\ subs'[i].vendor = subs[i].vendor /\ subs'[i].txn = subs[i].txn
              /\ subs'[i].provider = subs[i].provider
          BY <1>10, <2>1, <3>1, <3>2 DEF settle, endPrevious, Retired, Row
        <4> QED BY <2>1, <3>2, <4>1 DEF Revived, SameOwner, SameProvider
      <3>3. CASE i # slot.row
        <4>1. subs'[i] = subs[i] \/ subs'[i] = Retired(subs[i])
          BY <1>10, <3>3 DEF settle, endPrevious
        <4> QED BY <3>1, <4>1 DEF Quiet, SameOwner, SameProvider, Retired, Row
      <3> QED BY <3>2, <3>3
    <2>3. DOMAIN subs' = DOMAIN subs
      BY <1>10 DEF settle, endPrevious
    <2> QED BY <1>10, <2>2, <2>3, RewriteShape, SlotEnds DEF settle
  <1>11. CASE expirePending(r) \/ endRenewal(r)
    <2>1. \A i \in DOMAIN subs : Quiet(i)
      BY <1>2, <1>11 DEF expirePending, endRenewal, Rewritten, Row, Quiet, SameOwner,
         SameProvider
    <2>2. DOMAIN subs' = DOMAIN subs
      BY <1>11 DEF expirePending, endRenewal
    <2> QED BY <1>11, <2>1, <2>2, RewriteShape, SlotEnds DEF expirePending, endRenewal
  <1> QED BY <1>0, <1>3, <1>4, <1>5, <1>7, <1>8, <1>9, <1>10, <1>11

\* The steps of the sweep, of the provider's events and of the stores.
LEMMA SweepShape ==
    ASSUME TypeInv, PaidInv, RenewalSweepNext
    PROVE  PlanShape /\ SlotShape
  <1> PICK r \in RequestId, i \in RowId :
           collectLapsed(r) \/ readOther(r, i) \/ expire(r, i)
    BY DEF RenewalSweepNext
  <1>1. SlotShape
    <2>1. PICK s : /\ req' = [req EXCEPT ![r] = s]
                   /\ s.at \in SweepSteps \cup {"idle"}
      <3>1. CASE collectLapsed(r)
        <4> DEFINE s == [Idle EXCEPT !.at = "readOther",
                             !.todo = {<<j, subs[j].vendor>> :
                                          j \in {j \in DOMAIN subs : Candidate(j)}}]
        <4>1. req' = [req EXCEPT ![r] = s]
          BY <3>1 DEF collectLapsed, Wait
        <4>2. s.at = "readOther"
          BY DEF Idle
        <4> QED BY <4>1, <4>2 DEF SweepSteps
      <3>2. CASE readOther(r, i)
        <4> PICK v \in Vendor :
                 req' = [req EXCEPT ![r] = [req[r] EXCEPT !.at = "expire", !.row = i, !.v = v,
                                                !.flag = RowsIn(v, Live) \ {i} # {}]]
          BY <3>2 DEF readOther, Wait
        <4> DEFINE s == [req[r] EXCEPT !.at = "expire", !.row = i, !.v = v,
                                       !.flag = RowsIn(v, Live) \ {i} # {}]
        <4>1. req' = [req EXCEPT ![r] = s]
          OBVIOUS
        <4>2. s.at = "expire"
          BY SlotHolds DEF Slot
        <4> QED BY <4>1, <4>2 DEF SweepSteps
      <3>3. CASE expire(r, i)
        <4> DEFINE s == [Idle EXCEPT !.at = "readOther",
                                     !.todo = {c \in req[r].todo : c[1] # i}]
        <4>1. req' = [req EXCEPT ![r] = Idle] \/ req' = [req EXCEPT ![r] = s]
          BY <3>3 DEF expire, Return, Wait
        <4>2. s.at = "readOther" /\ Idle.at = "idle"
          BY DEF Idle
        <4> QED BY <4>1, <4>2 DEF SweepSteps
      <3> QED BY <3>1, <3>2, <3>3
    <2> QED BY <2>1 DEF TypeInv, TypeOK, SlotShape
  <1>2. CASE UNCHANGED tables
    BY <1>1, <1>2, TablesQuiet
  <1>3. CASE expire(r, i)
    <2>1. \A j \in DOMAIN subs : Quiet(j)
      BY <1>3, RowTyped DEF TypeInv, expire, Row, Quiet, SameOwner, SameProvider
    <2>2. DOMAIN subs' = DOMAIN subs
      BY <1>3 DEF expire
    <2> QED BY <1>1, <1>3, <2>1, <2>2, RewriteShape DEF expire
  <1> QED BY <1>2, <1>3 DEF collectLapsed, readOther

LEMMA WebhooksShape ==
    ASSUME TypeInv, PaidInv, BillingWebhooksNext
    PROVE  PlanShape /\ SlotShape
  <1>0. PICK r \in RequestId :
             \/ \E s \in DOMAIN subs :
                   \/ subscriptionCreate(r, s)
                   \/ readKnown(r, s, "rollForward") \/ readKnown(r, s, "disable")
                   \/ invoicePaymentFailed(r, s) \/ subscriptionNotRenew(r, s)
             \/ attach(r) \/ rollForward(r) \/ disable(r)
    BY DEF BillingWebhooksNext
  <1> DEFINE slot == req[r]
  <1>1. slot \in Slot /\ Carries(slot) /\ Backed(slot)
    BY SlotHolds DEF PaidInv, SlotsBacked
  <1>2. TypeOK /\ Rewritten(subs) /\ \A i \in DOMAIN subs : i \in RowId
    BY KeptRewritten, RowTyped DEF TypeInv
  <1>3. ASSUME NEW s \in DOMAIN subs, subscriptionCreate(r, s)
        PROVE  PlanShape /\ SlotShape
    <2> DEFINE v == subs[s].vendor
               i == Latest(RowsIn(v, Status))
               next == [Idle EXCEPT !.at = "attach", !.v = v, !.row = i,
                                    !.tier = subs[i].tier, !.id = Code(s)]
    <2>1. i \in RowsIn(v, Status)
      BY <1>2, <1>3, LatestIsOne DEF subscriptionCreate, RowsIn
    <2>2. PaidFor(v)
      BY <1>3 DEF subscriptionCreate, Delivered, PaidFor
    <2>3. Earned(i)
      BY <2>1, <2>2 DEF RowsIn, Earned
    <2>4. Wait(r, next) /\ UNCHANGED tables
      BY <1>3 DEF subscriptionCreate
    <2>5. Code(s) \in {"SUB"} \X RowId
      BY <1>2 DEF Code
    <2> HIDE DEF i
    <2>6. Backed(next)
      BY <2>3, <2>5 DEF Backed, Idle
    <2> QED BY <2>4, <2>6, SlotWaits, TablesQuiet
  <1>4. ASSUME NEW s \in DOMAIN subs, NEW at \in {"rollForward", "disable"},
               readKnown(r, s, at)
        PROVE  PlanShape /\ SlotShape
    <2> PICK i \in KnownAs(Code(s)) :
             /\ Wait(r, [Idle EXCEPT !.at = at, !.v = subs[i].vendor, !.row = i,
                                     !.tier = subs[i].tier])
             /\ UNCHANGED tables
      BY <1>4 DEF readKnown
    <2>1. Code(s) \in {"SUB"} \X RowId
      BY <1>2 DEF Code
    <2>2. Earned(i)
      BY <2>1 DEF KnownAs, PaidInv, RowsEarned, ThroughProvider
    <2> DEFINE next == [Idle EXCEPT !.at = at, !.v = subs[i].vendor, !.row = i,
                                    !.tier = subs[i].tier]
    <2>3. Backed(next)
      BY <2>2 DEF Backed, Idle
    <2> QED BY <2>3, SlotWaits, TablesQuiet
  <1>5. ASSUME NEW s \in DOMAIN subs,
               invoicePaymentFailed(r, s) \/ subscriptionNotRenew(r, s)
        PROVE  PlanShape /\ SlotShape
    <2>1. ASSUME NEW i \in DOMAIN subs
          PROVE  Quiet(i)
      <3>1. \/ subs'[i] = subs[i]
            \/ subs'[i] = [subs[i] EXCEPT !.status = "PAST_DUE"]
            \/ subs'[i] = [subs[i] EXCEPT !.ending = TRUE]
        BY <1>5 DEF invoicePaymentFailed, subscriptionNotRenew
      <3>2. subs[i] \in Row
        BY <1>2 DEF Rewritten
      <3> QED BY <3>1, <3>2 DEF Quiet, SameOwner, SameProvider, Row
    <2>2. DOMAIN subs' = DOMAIN subs /\ UNCHANGED <<checkout, req>>
      BY <1>5 DEF invoicePaymentFailed, subscriptionNotRenew
    <2> QED BY <2>1, <2>2, RewriteShape DEF SlotShape
  <1>6. CASE attach(r) \/ rollForward(r)
    <2>1. /\ slot.row \in DOMAIN subs /\ Earned(slot.row)
          /\ attach(r) => slot.id \in {"SUB"} \X RowId
      BY <1>1, <1>6 DEF attach, rollForward, Carries, RowCarriers, Backed
    <2>2. ASSUME NEW i \in DOMAIN subs
          PROVE  Quiet(i) \/ Revived(i)
      <3>1. CASE i # slot.row
        BY <1>6, <3>1 DEF attach, rollForward, Quiet, SameOwner, SameProvider
      <3>2. CASE i = slot.row
        <4>1. \/ subs'[i] = [subs[i] EXCEPT !.status = "ACTIVE", !.clock = "running"]
              \/ /\ subs'[i] = [subs[i] EXCEPT !.status = "ACTIVE", !.clock = "running",
                                               !.provider = slot.id]
                 /\ slot.id \in {"SUB"} \X RowId
          BY <1>6, <2>1, <3>2 DEF attach, rollForward
        <4>2. subs[i] \in Row
          BY <1>2 DEF Rewritten
        <4> QED BY <2>1, <3>2, <4>1, <4>2 DEF Revived, SameOwner, SameProvider, Row
      <3> QED BY <3>1, <3>2
    <2>3. DOMAIN subs' = DOMAIN subs
      BY <1>6 DEF attach, rollForward
    <2> QED BY <1>6, <2>2, <2>3, RewriteShape, SlotEnds DEF attach, rollForward
  <1>7. CASE disable(r)
    <2>1. \A i \in DOMAIN subs : Quiet(i)
      BY <1>2, <1>7 DEF disable, Rewritten, Row, Quiet, SameOwner, SameProvider
    <2>2. DOMAIN subs' = DOMAIN subs
      BY <1>7 DEF disable
    <2> QED BY <1>7, <2>1, <2>2, RewriteShape, SlotEnds DEF disable
  <1> QED BY <1>0, <1>3, <1>4, <1>5, <1>6, <1>7

LEMMA StoreShape ==
    ASSUME TypeInv, PaidInv, StorePurchasesNext
    PROVE  PlanShape /\ SlotShape
  <1>0. PICK r \in RequestId :
             \/ \E v \in Vendor, t \in PaidTier, x \in Txn, p \in NormalizedIapPurchase :
                   verify(r, v, t, x, p)
             \/ \E x \in Txn, notice \in Notices : applyNotification(r, x, notice)
             \/ link(r) \/ renew(r) \/ storeCancel(r) \/ endStore(r)
    BY DEF StorePurchasesNext, Notices
  <1> DEFINE slot == req[r]
  <1>1. slot \in Slot /\ Carries(slot) /\ Backed(slot)
    BY SlotHolds DEF PaidInv, SlotsBacked
  <1>2. TypeOK /\ Rewritten(subs) /\ \A i \in DOMAIN subs : i \in RowId
    BY KeptRewritten, RowTyped DEF TypeInv
  <1>3. ASSUME NEW v \in Vendor, NEW t \in PaidTier, NEW x \in Txn,
               NEW purchase \in NormalizedIapPurchase, verify(r, v, t, x, purchase)
        PROVE  PlanShape /\ SlotShape
    <2> PICK i \in (IF LinkedTo(x) = {} THEN {0} ELSE LinkedTo(x)) :
             /\ Wait(r, [Idle EXCEPT !.at = "link", !.v = v, !.tier = t, !.txn = x,
                                     !.row = i, !.flag = purchase.isTrial])
             /\ UNCHANGED tables
      BY <1>3 DEF verify
    <2> DEFINE s == [Idle EXCEPT !.at = "link", !.v = v, !.tier = t, !.txn = x,
                                 !.row = i, !.flag = purchase.isTrial]
    <2>1. i # 0 => subs[i].txn # NULL
      BY SubscriptionsAssumption DEF LinkedTo
    <2>2. Backed(s)
      BY <2>1 DEF Backed, Idle
    <2> QED BY <2>2, SlotWaits, TablesQuiet
  <1>4. ASSUME NEW x \in Txn, NEW notice \in Notices, applyNotification(r, x, notice)
        PROVE  PlanShape /\ SlotShape
    <2> DEFINE at == StepFor[notice.action]
               flag == notice.action = "renew" /\ notice.expiryKnown
    <2> PICK i \in LinkedTo(x) :
             /\ Wait(r, [Idle EXCEPT !.at = at, !.v = subs[i].vendor, !.row = i,
                                     !.flag = flag])
             /\ UNCHANGED tables
      BY <1>4 DEF applyNotification
    <2> DEFINE s == [Idle EXCEPT !.at = at, !.v = subs[i].vendor, !.row = i, !.flag = flag]
    <2>1. subs[i].txn # NULL
      BY SubscriptionsAssumption DEF LinkedTo
    <2>2. at \in {"renew", "storeCancel", "endStore"}
      <3>1. notice.action # "ignore"
        BY <1>4 DEF applyNotification
      <3> QED BY <3>1, NoticeAsks DEF StepFor
    <2>3. Wait(r, s)
      OBVIOUS
    <2> HIDE DEF at, flag
    <2>4. Backed(s)
      BY <2>1, <2>2 DEF Backed, Idle
    <2> QED BY <2>3, <2>4, SlotWaits, TablesQuiet
  <1>5. CASE link(r)
    <2>1. /\ slot.v \in Vendor /\ slot.tier \in Tier /\ slot.txn \in Txn
          /\ slot.row \in DOMAIN subs \cup {0}
          /\ slot.row # 0 => subs[slot.row].txn # NULL
      BY <1>1, <1>5 DEF link, Carries, VendorCarriers, TierCarriers, Backed
    <2>2. \A row \in Row : /\ linked(row, slot) \in Row /\ Retired(row) \in Row
                           /\ linked(row, slot).txn = slot.txn
                           /\ linked(row, slot).provider = row.provider
                           /\ Retired(row).provider = row.provider
                           /\ Retired(row).txn = row.txn
                           /\ Retired(row).vendor = row.vendor
                           /\ Retired(row).status # "ACTIVE"
      BY ZenonT(30), <2>1 DEF linked, Retired, Row, Status, Live, Clock
    <2>3. slot.txn # NULL
      BY <2>1, SubscriptionsAssumption
    <2>4. CASE slot.row # 0
      <3> DEFINE rows == [subs EXCEPT ![slot.row] = linked(@, slot)]
      <3>1. /\ DOMAIN rows = DOMAIN subs
            /\ \A i \in DOMAIN subs \ {slot.row} : rows[i] = subs[i]
            /\ rows[slot.row] = linked(subs[slot.row], slot)
        BY <2>1, <2>4
      <3>2. subs' = retireOthers(rows, slot)
        BY <1>5, <2>4 DEF link
      <3> HIDE DEF rows
      <3>3. /\ DOMAIN subs' = DOMAIN subs
            /\ \A i \in DOMAIN subs : subs'[i] = rows[i] \/ subs'[i] = Retired(rows[i])
        BY <3>1, <3>2 DEF retireOthers
      <3>4. ASSUME NEW i \in DOMAIN subs, i # slot.row
            PROVE  Quiet(i)
        <4>1. subs[i] \in Row
          BY <1>2 DEF Rewritten
        <4>2. subs'[i] = subs[i] \/ subs'[i] = Retired(subs[i])
          BY <3>1, <3>3, <3>4
        <4> QED BY <2>2, <4>1, <4>2 DEF Quiet, SameOwner, SameProvider
      <3>5. Sold(slot.row)
        <4> DEFINE row == linked(subs[slot.row], slot)
        <4>1. subs[slot.row] \in Row
          BY <1>2, <2>1, <2>4 DEF Rewritten
        <4>2. row \in Row /\ row.txn # NULL /\ row.provider = subs[slot.row].provider
          BY <2>2, <2>3, <4>1
        <4>3. subs'[slot.row] = row \/ subs'[slot.row] = Retired(row)
          BY <2>1, <2>4, <3>1, <3>3
        <4> HIDE DEF row
        <4> QED BY <2>1, <2>2, <2>4, <4>2, <4>3 DEF Sold, SameProvider
      <3> QED BY <1>5, <3>3, <3>4, <3>5, RewriteShape, SlotEnds DEF link
    <2>5. CASE slot.row = 0
      <3> DEFINE row == linked(NewRow(slot.v, slot.tier, "ACTIVE"), slot)
                 rows == Append(subs, row)
                 n == Len(subs) + 1
      <3>1. NewRow(slot.v, slot.tier, "ACTIVE") \in Row
        BY <2>1, NewRowTyped DEF Status, Live
      <3>2. row \in Row /\ row.provider = NULL
        BY <2>2, <3>1 DEF NewRow
      <3>3. subs' = retireOthers(rows, slot)
        BY <1>5, <2>5 DEF link
      <3> HIDE DEF row
      <3>4. /\ DOMAIN subs = 1 .. Len(subs) /\ Len(subs) \in Nat
            /\ DOMAIN rows = 1 .. n
            /\ \A i \in DOMAIN subs : rows[i] = subs[i]
            /\ rows[n] = row
        BY <1>2, <3>2, AppendProperties, LenProperties DEF TypeOK
      <3> HIDE DEF rows
      <3>5. /\ DOMAIN subs' = 1 .. n
            /\ \A i \in 1 .. n : subs'[i] = rows[i] \/ subs'[i] = Retired(rows[i])
        BY <3>3, <3>4 DEF retireOthers
      <3>6. ASSUME NEW i \in DOMAIN subs
            PROVE  Quiet(i)
        <4>1. subs[i] \in Row
          BY <1>2 DEF Rewritten
        <4>2. subs'[i] = subs[i] \/ subs'[i] = Retired(subs[i])
          BY <3>4, <3>5
        <4> QED BY <2>2, <4>1, <4>2 DEF Quiet, SameOwner, SameProvider
      <3>7. Inserted(n)
        BY <2>2, <3>2, <3>4, <3>5 DEF Inserted
      <3>8. DOMAIN subs' = DOMAIN subs \cup {n} /\ UNCHANGED checkout /\ Return(r)
        BY <1>5, <3>4, <3>5 DEF link
      <3> HIDE DEF n
      <3> QED BY <3>6, <3>7, <3>8, SlotEnds DEF PlanShape, RowsStay, CheckoutKept
    <2> QED BY <2>4, <2>5
  <1>6. CASE renew(r)
    <2>1. slot.row \in DOMAIN subs /\ subs[slot.row].txn # NULL
      BY <1>1, <1>6 DEF renew, Carries, RowCarriers, Backed
    <2>2. \A i \in DOMAIN subs : Quiet(i) \/ Sold(i)
      <3> DEFINE clock == IF slot.flag THEN "running" ELSE subs[slot.row].clock
      <3>1. subs' = [subs EXCEPT ![slot.row].status = "ACTIVE",
                                 ![slot.row].ending = FALSE,
                                 ![slot.row].clock = clock]
        BY <1>2, <1>6, <2>1 DEF renew, Rewritten, Row
      <3> HIDE DEF clock
      <3> QED BY <1>2, <2>1, <3>1 DEF Rewritten, Row, Quiet, Sold, SameOwner, SameProvider
    <2>3. DOMAIN subs' = DOMAIN subs
      BY <1>6 DEF renew
    <2> QED BY <1>6, <2>2, <2>3, RewriteShape, SlotEnds DEF renew
  <1>7. CASE storeCancel(r) \/ endStore(r)
    <2>1. \A i \in DOMAIN subs : Quiet(i)
      BY <1>2, <1>7 DEF storeCancel, endStore, Rewritten, Row, Quiet, SameOwner,
         SameProvider
    <2>2. DOMAIN subs' = DOMAIN subs
      BY <1>7 DEF storeCancel, endStore
    <2> QED BY <1>7, <2>1, <2>2, RewriteShape, SlotEnds DEF storeCancel, endStore
  <1> QED BY <1>0, <1>3, <1>4, <1>5, <1>6, <1>7

LEMMA WorldShape ==
    ASSUME TypeInv, PaidInv,
           \/ \E i \in DOMAIN subs : Tick(i) \/ Pay(i)
           \/ \E r \in RequestId : Fail(r)
    PROVE  PlanShape /\ SlotShape
  <1>1. TypeOK /\ Rewritten(subs) /\ \A i \in DOMAIN subs : i \in RowId
    BY KeptRewritten, RowTyped DEF TypeInv
  <1>2. ASSUME NEW i \in DOMAIN subs, Tick(i)
        PROVE  PlanShape /\ SlotShape
    <2>1. \A j \in DOMAIN subs : Quiet(j)
      BY <1>1, <1>2 DEF Tick, Rewritten, Row, Quiet, SameOwner, SameProvider
    <2> QED BY <1>2, <2>1, RewriteShape DEF Tick, SlotShape
  <1>3. ASSUME NEW i \in DOMAIN subs, Pay(i)
        PROVE  PlanShape /\ SlotShape
    <2>1. \A s \in RowId : CheckoutKept(s)
      BY <1>1, <1>3 DEF Pay, CheckoutKept, TypeOK
    <2> QED BY <1>3, <2>1 DEF Pay, PlanShape, RowsStay, Quiet, SameOwner, SameProvider,
            SlotShape
  <1>4. ASSUME NEW r \in RequestId, Fail(r)
        PROVE  PlanShape /\ SlotShape
    BY <1>4, TablesQuiet, SlotEnds DEF Fail
  <1> QED BY <1>2, <1>3, <1>4

LEMMA InitPaid == TablesInit => PaidInv
  BY DEF TablesInit, PaidInv, CheckoutsOfWebRows, ReferencesOwn, RowsEarned, SlotsBacked,
         Backed, Idle

LEMMA NextPaid == ASSUME TypeInv, PaidInv, [Next]_vars PROVE PaidInv'
  <1>1. TypeInv'
    BY NextTyped
  <1>2. CASE UNCHANGED vars
    BY <1>2, TablesQuiet, <1>1, ShapesKeepPaid DEF vars, tables, SlotShape
  <1>3. CASE Next
    BY <1>1, <1>3, ServiceShape, SweepShape, WebhooksShape, StoreShape, WorldShape,
       ShapesKeepPaid DEF Next
  <1> QED BY <1>2, <1>3

\* The inductive strengthening: rows and waiting requests that a provider put
\* or will put on a plan were earned.
THEOREM PaidInvariance == Spec => []PaidInv
  <1>1. TypeInv /\ PaidInv /\ [Next]_vars => PaidInv'
    BY NextPaid
  <1> QED BY <1>1, InitPaid, TypeInvariance, PTL DEF Spec

\* No order of requests, webhooks and sweeps makes the row of a checkout
\* ACTIVE for a vendor who paid nothing.
THEOREM ActivationsPaid == Spec => []NoActivationUnpaid
  <1>1. TypeInv /\ PaidInv => NoActivationUnpaid
    BY DEF PaidInv, RowsEarned, ThroughProvider, Earned, PaidFor, NoActivationUnpaid
  <1> QED BY <1>1, TypeInvariance, PaidInvariance, PTL
=============================================================================
