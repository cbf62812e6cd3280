----------------------------- MODULE Fulfilment -----------------------------
(***************************************************************************)
(* FulfilmentService and the booking side of ReviewsService.create: the    *)
(* vendor reports progress and completes an invoiced booking, the client   *)
(* reviews a completed one.                                                *)
(***************************************************************************)
EXTENDS OrderTables

\* Mutant: a cancelled booking is not excluded.
loadBookingCancelled(r, op, b) ==
    /\ Called(r, op)
    /\ BookingExists(b)
    /\ Invoiced(b)
    /\ IF op = "postUpdate"
       THEN cards[<<"TIMELINE_UPDATE", b>>] < MaxUpdates
       ELSE bookings[b].status # "COMPLETED"
    /\ Wait(r, [Idle EXCEPT !.op = op, !.b = b, !.seen = bookings[b].status])
    /\ UNCHANGED tables

\* loadBooking and the tests after it: an invoice carries the conversation;
\* completing only excludes COMPLETED and CANCELLED.
loadBooking(r, op, b) ==
    /\ Called(r, op)
    /\ BookingExists(b)
    /\ Invoiced(b)
    /\ IF op = "postUpdate"
       THEN cards[<<"TIMELINE_UPDATE", b>>] < MaxUpdates
       ELSE bookings[b].status \notin {"COMPLETED", "CANCELLED"}
    /\ Wait(r, [Idle EXCEPT !.op = op, !.b = b, !.seen = bookings[b].status])
    /\ UNCHANGED tables

postUpdate(r) ==
    /\ Resumes(r, "postUpdate", "commit")
    /\ post({<<"TIMELINE_UPDATE", req[r].b>>})
    /\ Return(r)
    /\ UNCHANGED <<bookings, history, invoices, quotes, reviews, dm>>

\* markDelivered and confirmReturn write the same.
completeOrder(r, op) ==
    /\ Resumes(r, op, "commit")
    /\ transition(req[r].b, req[r].seen, "COMPLETED")
    /\ post({<<"TIMELINE_UPDATE", req[r].b>>, <<"REVIEW_REQUESTED", req[r].b>>})
    /\ Return(r)
    /\ UNCHANGED <<invoices, quotes, reviews, dm>>

\* Mutant: the review gate opens at CONFIRMED.
readReviewableEarly(r, op, b) ==
    /\ Called(r, op)
    /\ bookings[b].status \in {"CONFIRMED", "COMPLETED"}
    /\ b \notin reviews
    /\ Wait(r, [Idle EXCEPT !.op = op, !.b = b, !.seen = "COMPLETED"])
    /\ UNCHANGED tables

\* ReviewsService.create reads the booking, then looks for a review; the
\* second test only chooses the error, the unique index decides.
readReviewable(r, op, b) ==
    /\ Called(r, op)
    /\ bookings[b].status = "COMPLETED"
    /\ b \notin reviews
    /\ Wait(r, [Idle EXCEPT !.op = op, !.b = b, !.seen = "COMPLETED"])
    /\ UNCHANGED tables

\* submitReview, unlike POST /reviews, goes on to post a card.
createReview(r, op) ==
    /\ Resumes(r, op, "commit")
    /\ req[r].b \notin reviews
    /\ reviews' = reviews \cup {req[r].b}
    /\ IF op = "submitReview"
       THEN Wait(r, [req[r] EXCEPT !.at = "postCard"])
       ELSE Return(r)
    /\ UNCHANGED <<bookings, history, invoices, quotes, dm, cards>>

createReviewRollsBack(r, op) ==
    /\ Resumes(r, op, "commit")
    /\ req[r].b \in reviews
    /\ Return(r)
    /\ UNCHANGED tables

postReviewCard(r) ==
    /\ Resumes(r, "submitReview", "postCard")
    /\ post(IF Invoiced(req[r].b) THEN {<<"REVIEW_SUBMITTED", req[r].b>>} ELSE {})
    /\ Return(r)
    /\ UNCHANGED <<bookings, history, invoices, quotes, reviews, dm>>

FulfilmentNext ==
    \E r \in RequestId :
        \/ \E op \in FulfilOps, b \in BookingId : loadBooking(r, op, b)
        \/ postUpdate(r)
        \/ \E op \in {"markDelivered", "confirmReturn"} : completeOrder(r, op)
        \/ \E op \in ReviewOps :
              \/ \E b \in BookingId : readReviewable(r, op, b)
              \/ createReview(r, op)
              \/ createReviewRollsBack(r, op)
        \/ postReviewCard(r)
=============================================================================
