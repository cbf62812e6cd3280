------------------------------- MODULE Ratings -------------------------------
(***************************************************************************)
(* ReviewsService: a review of a completed booking and the rating of its   *)
(* vendor change in one transaction; the vendor answers a review once.     *)
(***************************************************************************)
EXTENDS VendorProfiles

ReviewsOf(v) == {b \in Booking : reviews[b].vendor = v /\ reviews[b].state # "none"}

\* A booking with vendor v is completed: it may be reviewed from then on.
complete(b, v) ==
    /\ "createReview" \in suite.routes
    /\ reviews[b].vendor = NULL
    /\ Onboarded(v)
    /\ reviews' = [reviews EXCEPT ![b].vendor = v]
    /\ UNCHANGED <<suite, profile, listing, limit, copies, dispute, account, req>>

\* A completed booking without a review, when it is asked for.
createReview(r, b) ==
    LET v == reviews[b].vendor IN
    /\ Called(r, "createReview")
    /\ v # NULL
    /\ reviews[b].state = "none"
    /\ Wait(r, [Idle EXCEPT !.at = "postReview", !.b = b, !.v = v,
                            !.old = profile[v].slug, !.keys = KeysOf(v, profile[v].slug)])
    /\ UNCHANGED tables

\* Mutant: the reviews are counted before this one is among them.
postReviewCountedFirst(r) ==
    LET b == req[r].b IN
    /\ req[r].at = "postReview"
    /\ reviews[b].state = "none"
    /\ ~\E s \in RequestId : req[s].at = "commitRating" /\ req[s].b = b
    /\ Wait(r, [req[r] EXCEPT !.at = "commitRating", !.n = Cardinality(ReviewsOf(req[r].v))])
    /\ UNCHANGED tables

\* Inside the transaction the row is inserted and the vendor's reviews are
\* counted: those committed, and this one.  An insert for the same booking
\* that is not yet committed makes this one wait.
postReview(r) ==
    LET b == req[r].b IN
    /\ req[r].at = "postReview"
    /\ reviews[b].state = "none"
    /\ ~\E s \in RequestId : req[s].at = "commitRating" /\ req[s].b = b
    /\ Wait(r, [req[r] EXCEPT !.at = "commitRating",
                              !.n = Cardinality(ReviewsOf(req[r].v)) + 1])
    /\ UNCHANGED tables

\* The unique index on booking_id refuses the second.
postReviewRefused(r) ==
    /\ req[r].at = "postReview"
    /\ reviews[req[r].b].state # "none"
    /\ Return(r)
    /\ UNCHANGED tables

\* The row and the count counted before become visible together.
commitRating(r) ==
    LET v == req[r].v IN
    /\ req[r].at = "commitRating"
    /\ reviews' = [reviews EXCEPT ![req[r].b].state = "posted"]
    /\ profile' = [profile EXCEPT ![v].count = req[r].n]
    /\ Wait(r, [req[r] EXCEPT !.at = "bust", !.n = 0])
    /\ UNCHANGED <<suite, listing, limit, copies, dispute, account>>

-----------------------------------------------------------------------------
respond(r, b) ==
    /\ Called(r, "respond")
    /\ reviews[b].state = "posted"
    /\ Wait(r, [Idle EXCEPT !.at = "insertResponse", !.b = b])
    /\ UNCHANGED tables

insertResponse(r) ==
    LET b == req[r].b IN
    /\ req[r].at = "insertResponse"
    /\ reviews[b].state = "posted"
    /\ reviews' = [reviews EXCEPT ![b].state = "answered"]
    /\ Return(r)
    /\ UNCHANGED <<suite, profile, listing, limit, copies, dispute, account>>

\* The unique index on review_id refuses the second.
insertResponseRefused(r) ==
    /\ req[r].at = "insertResponse"
    /\ reviews[req[r].b].state = "answered"
    /\ Return(r)
    /\ UNCHANGED tables

RatingsNext ==
    \/ \E b \in Booking, v \in Vendor : complete(b, v)
    \/ \E r \in RequestId :
        \/ \E b \in Booking : createReview(r, b) \/ respond(r, b)
        \/ postReview(r) \/ postReviewRefused(r) \/ commitRating(r)
        \/ insertResponse(r) \/ insertResponseRefused(r)
=============================================================================
