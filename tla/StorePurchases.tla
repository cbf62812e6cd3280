--------------------------- MODULE StorePurchases ---------------------------
(***************************************************************************)
(* IapService: purchases made in the Apple or Google store.  verify links  *)
(* an active purchase, whatever tier and trial the store reports for it,   *)
(* to one row; the store's notifications, which may be lost, repeated or   *)
(* reordered, renew, cancel or end that row.  A purchase the store does    *)
(* not vouch for, and a notification that is not signed or not about a     *)
(* known transaction, change nothing.                                      *)
(***************************************************************************)
EXTENDS SubscriptionTables

LinkedTo(x) == {i \in DOMAIN subs : subs[i].txn = x}

\* The store's answer about a purchase.  Apple's status is believed unless the
\* transaction was revoked or its period is over; the trial is an introductory
\* offer, of the transaction or of its renewal.
findAppleProduct(status, revoked, over, introductory, renewsAtIntroductory) ==
    [isTrial |-> introductory \/ renewsAtIntroductory,
     isActive |-> /\ status \in {"ACTIVE", "BILLING_GRACE_PERIOD"}
                  /\ ~revoked
                  /\ ~over]

\* Google's state is believed whatever the expiry, and a trial is one whose
\* offer the developer tagged so.
validateGoogle(state, tagged) ==
    [isTrial |-> tagged, isActive |-> state \in {"ACTIVE", "IN_GRACE_PERIOD"}]

AppleStatus == {"ACTIVE", "EXPIRED", "BILLING_RETRY", "BILLING_GRACE_PERIOD", "REVOKED"}
GoogleState == {"PENDING", "ACTIVE", "PAUSED", "IN_GRACE_PERIOD", "ON_HOLD",
                "CANCELED", "EXPIRED"}

\* A transaction lives in one of Apple's environments.  The first is asked
\* first, and the other only where the first does not know the transaction.
validateApple(production, sandbox) == IF production = {} THEN sandbox ELSE production

AppleAnswer ==
    {{}} \cup {{findAppleProduct(status, revoked, over, i, j)} :
        status \in AppleStatus, revoked \in BOOLEAN, over \in BOOLEAN,
        i \in BOOLEAN, j \in BOOLEAN}

NormalizedIapPurchase ==
    (UNION {validateApple(p, s) : p \in AppleAnswer, s \in AppleAnswer})
    \cup {validateGoogle(state, tagged) : state \in GoogleState, tagged \in BOOLEAN}

\* row = 0 when no row carries the transaction yet.
verify(r, v, t, x, purchase) ==
    /\ Called(r, "iapVerify")
    /\ t \in PaidTier
    /\ purchase.isActive
    /\ \E i \in (IF LinkedTo(x) = {} THEN {0} ELSE LinkedTo(x)) :
          Wait(r, [Idle EXCEPT !.at = "link", !.v = v, !.tier = t, !.txn = x,
                               !.row = i, !.flag = purchase.isTrial])
    /\ UNCHANGED tables

\* The row as the store describes it, the provider's id left as it was.
linked(row, slot) ==
    [row EXCEPT !.vendor = slot.v, !.tier = slot.tier, !.txn = slot.txn,
                !.status = IF slot.flag THEN "TRIALING" ELSE "ACTIVE",
                !.clock = "running", !.ending = FALSE]

\* The vendor's other live rows are retired: those whose transaction differs.
\* In SQL "<>" does not select a row whose transaction is NULL.
retireOthers(rows, slot) ==
    [i \in DOMAIN rows |->
        IF /\ rows[i].vendor = slot.v
           /\ rows[i].status \in Live
           /\ rows[i].txn \notin {NULL, slot.txn}
        THEN Retired(rows[i]) ELSE rows[i]]

link(r) ==
    LET slot == req[r]
    IN  /\ slot.at = "link"
        /\ \/ /\ slot.row # 0
              /\ subs' = retireOthers([subs EXCEPT ![slot.row] = linked(@, slot)], slot)
           \/ /\ slot.row = 0
              /\ RoomForRow
              /\ subs' = retireOthers(
                    Append(subs, linked(NewRow(slot.v, slot.tier, "ACTIVE"), slot)), slot)
        /\ tier' = [tier EXCEPT ![slot.v] = slot.tier]
        /\ Return(r)
        /\ UNCHANGED <<claims, checkout>>

\* What a type of notification asks for; a type not listed asks for nothing.
classifyAppleType(type) ==
    CASE type \in {"SUBSCRIBED", "DID_RENEW", "OFFER_REDEEMED"} -> "renew"
      [] type = "DID_CHANGE_RENEWAL_STATUS" -> "cancel"
      [] type \in {"EXPIRED", "GRACE_PERIOD_EXPIRED", "DID_FAIL_TO_RENEW"} -> "expire"
      [] type \in {"REFUND", "REVOKE"} -> "refund"
      [] OTHER -> "ignore"

classifyGoogleType(type) ==
    CASE type \in {"RECOVERED", "RENEWED", "PURCHASED", "RESTARTED"} -> "renew"
      [] type = "CANCELED" -> "cancel"
      [] type \in {"ON_HOLD", "EXPIRED"} -> "expire"
      [] type = "REVOKED" -> "refund"
      [] OTHER -> "ignore"

AppleType == {"SUBSCRIBED", "DID_RENEW", "OFFER_REDEEMED", "DID_CHANGE_RENEWAL_STATUS",
              "EXPIRED", "GRACE_PERIOD_EXPIRED", "DID_FAIL_TO_RENEW", "REFUND",
              "REVOKE", "PRICE_INCREASE", "TEST"}
GoogleType == {"RECOVERED", "RENEWED", "CANCELED", "PURCHASED", "ON_HOLD",
               "IN_GRACE_PERIOD", "RESTARTED", "REVOKED", "EXPIRED", "PAUSED"}

\* Apple tells of auto-renewal turned on with the type it turns it off with;
\* turned on again is not followed.  The new expiry comes with the transaction,
\* unless that could not be decoded.
handleAppleNotification ==
    {[action |-> IF type = "DID_CHANGE_RENEWAL_STATUS" /\ ~autoRenewOff
                 THEN "ignore" ELSE classifyAppleType(type),
      expiryKnown |-> decoded] :
        type \in AppleType, autoRenewOff \in BOOLEAN, decoded \in BOOLEAN}

\* Google sends no expiry: that of a renewal is fetched, which may fail.
handleGoogleNotification ==
    {[action |-> classifyGoogleType(type),
      expiryKnown |-> classifyGoogleType(type) = "renew" /\ fetched] :
        type \in GoogleType, fetched \in BOOLEAN}

StepFor == [renew |-> "renew", cancel |-> "storeCancel",
            expire |-> "endStore", refund |-> "endStore"]

\* applyNotification up to its read of the row.
applyNotification(r, x, notice) ==
    /\ Called(r, "storeNotice")
    /\ notice.action # "ignore"
    /\ \E i \in LinkedTo(x) :
          Wait(r, [Idle EXCEPT !.at = StepFor[notice.action], !.v = subs[i].vendor,
                               !.row = i,
                               !.flag = notice.action = "renew" /\ notice.expiryKnown])
    /\ UNCHANGED tables

\* A renewal whose new expiry is not known keeps the old one.
renew(r) ==
    /\ req[r].at = "renew"
    /\ subs' = [subs EXCEPT ![req[r].row].status = "ACTIVE",
                            ![req[r].row].ending = FALSE,
                            ![req[r].row].clock = IF req[r].flag THEN "running" ELSE @]
    /\ Return(r)
    /\ UNCHANGED <<tier, claims, checkout>>

storeCancel(r) ==
    /\ req[r].at = "storeCancel"
    /\ subs' = [subs EXCEPT ![req[r].row].ending = TRUE]
    /\ Return(r)
    /\ UNCHANGED <<tier, claims, checkout>>

\* Expired or refunded.
endStore(r) ==
    /\ req[r].at = "endStore"
    /\ subs' = [subs EXCEPT ![req[r].row].status = "EXPIRED"]
    /\ tier' = [tier EXCEPT ![req[r].v] = "BASIC"]
    /\ Return(r)
    /\ UNCHANGED <<claims, checkout>>

StorePurchasesNext ==
    \E r \in RequestId :
      \/ \E v \in Vendor, t \in PaidTier, x \in Txn, p \in NormalizedIapPurchase :
            verify(r, v, t, x, p)
      \/ \E x \in Txn, notice \in handleAppleNotification \cup handleGoogleNotification :
            applyNotification(r, x, notice)
      \/ link(r) \/ renew(r) \/ storeCancel(r) \/ endStore(r)
=============================================================================
