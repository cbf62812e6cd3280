--------------------------- MODULE BookingQuotes ---------------------------
(***************************************************************************)
(* QuotesService: price proposals on a booking inquiry.  Accepting one     *)
(* locks it, writes the agreed amount on the booking and confirms the      *)
(* booking if it was read PENDING.                                         *)
(***************************************************************************)
EXTENDS OrderTables

\* quotes.create tests nothing that can change (the booking's existence and
\* its vendor), so it is one step.
createBookingQuote(q, b, amount) ==
    /\ "createBookingQuote" \in Routes
    /\ BookingExists(b)
    /\ ~QuoteExists(q)
    /\ quotes' = [quotes EXCEPT ![q] =
          [status |-> "PENDING", amount |-> amount, booking |-> b, parent |-> NULL,
           version |-> 1, active |-> TRUE, locked |-> FALSE, lapsed |-> FALSE]]
    /\ UNCHANGED <<bookings, history, invoices, reviews, dm, cards, req>>

\* Mutant: the lock is not tested.
readUnlockedAlways(r, q) ==
    /\ Called(r, "updateQuote")
    /\ QuoteExists(q)
    /\ Wait(r, [Idle EXCEPT !.op = "updateQuote", !.q = q])
    /\ UNCHANGED tables

\* quotes.update serves every quote of the vendor, in-chat ones included.
readUnlocked(r, q) ==
    /\ Called(r, "updateQuote")
    /\ QuoteExists(q)
    /\ ~quotes[q].locked
    /\ Wait(r, [Idle EXCEPT !.op = "updateQuote", !.q = q])
    /\ UNCHANGED tables

\* The body may name a new total, a new validity, both or neither.
updateQuote(r, newTotal, extends) ==
    /\ Resumes(r, "updateQuote", "commit")
    /\ quotes' = [quotes EXCEPT
          ![req[r].q].amount = IF newTotal = NULL THEN @ ELSE newTotal,
          ![req[r].q].lapsed = @ /\ ~extends]
    /\ Return(r)
    /\ UNCHANGED <<bookings, history, invoices, reviews, dm, cards>>

\* assertClientOwns reaches the client through the booking: in-chat quotes,
\* which have none, are refused.
readPending(r, op, q) ==
    /\ Called(r, op)
    /\ quotes[q].booking # NULL
    /\ quotes[q].status = "PENDING"
    /\ Wait(r, [Idle EXCEPT
          !.op = op, !.q = q, !.b = quotes[q].booking, !.amount = quotes[q].amount,
          !.at = IF op = "rejectBookingQuote" THEN "commit"
                 ELSE IF quotes[q].lapsed THEN "expire" ELSE "readBooking"])
    /\ UNCHANGED tables

rejectBookingQuote(r) ==
    /\ Resumes(r, "rejectBookingQuote", "commit")
    /\ quotes' = [quotes EXCEPT ![req[r].q].status = "REJECTED"]
    /\ Return(r)
    /\ UNCHANGED <<bookings, history, invoices, reviews, dm, cards>>

expireBookingQuote(r) ==
    /\ Resumes(r, "acceptBookingQuote", "expire")
    /\ quotes' = [quotes EXCEPT ![req[r].q].status = "EXPIRED"]
    /\ Return(r)
    /\ UNCHANGED <<bookings, history, invoices, reviews, dm, cards>>

\* A second read decides whether the acceptance confirms the booking.
readConfirmsBooking(r) ==
    /\ Resumes(r, "acceptBookingQuote", "readBooking")
    /\ Wait(r, [req[r] EXCEPT !.at = "commit", !.seen = bookings[req[r].b].status])
    /\ UNCHANGED tables

\* Mutant: every acceptance confirms, whatever the booking's status.
acceptBookingQuoteAlwaysConfirms(r) ==
    LET b == req[r].b
    IN  /\ Resumes(r, "acceptBookingQuote", "commit")
        /\ quotes' = [quotes EXCEPT ![req[r].q].status = "ACCEPTED",
                                    ![req[r].q].locked = TRUE]
        /\ bookings' = [bookings EXCEPT ![b] =
              [status |-> "CONFIRMED",
               quoteAmount |-> req[r].amount, finalAmount |-> req[r].amount]]
        /\ history' = [history EXCEPT ![b] = Append(@, [from |-> "PENDING", to |-> "CONFIRMED"])]
        /\ Return(r)
        /\ UNCHANGED <<invoices, reviews, dm, cards>>

\* Mutant: the same, but the history row is still conditional.
acceptBookingQuoteUnrecorded(r) ==
    LET b == req[r].b
    IN  /\ Resumes(r, "acceptBookingQuote", "commit")
        /\ quotes' = [quotes EXCEPT ![req[r].q].status = "ACCEPTED",
                                    ![req[r].q].locked = TRUE]
        /\ bookings' = [bookings EXCEPT ![b] =
              [status |-> "CONFIRMED",
               quoteAmount |-> req[r].amount, finalAmount |-> req[r].amount]]
        /\ history' = [history EXCEPT ![b] = 
              IF req[r].seen = "PENDING"
              THEN Append(@, [from |-> "PENDING", to |-> "CONFIRMED"]) ELSE @]
        /\ Return(r)
        /\ UNCHANGED <<invoices, reviews, dm, cards>>

acceptBookingQuote(r) ==
    LET b == req[r].b
        confirmsBooking == req[r].seen = "PENDING"
    IN  /\ Resumes(r, "acceptBookingQuote", "commit")
        /\ quotes' = [quotes EXCEPT ![req[r].q].status = "ACCEPTED",
                                    ![req[r].q].locked = TRUE]
        /\ bookings' = [bookings EXCEPT ![b] =
              [status |-> IF confirmsBooking THEN "CONFIRMED" ELSE @.status,
               quoteAmount |-> req[r].amount, finalAmount |-> req[r].amount]]
        /\ history' = [history EXCEPT ![b] =
              IF confirmsBooking
              THEN Append(@, [from |-> "PENDING", to |-> "CONFIRMED"]) ELSE @]
        /\ Return(r)
        /\ UNCHANGED <<invoices, reviews, dm, cards>>

BookingQuotesNext ==
    \/ \E q \in QuoteId, b \in BookingId, amount \in Amount :
          createBookingQuote(q, b, amount)
    \/ \E r \in RequestId :
          \/ \E q \in QuoteId :
                \/ readUnlocked(r, q)
                \/ \E op \in {"acceptBookingQuote", "rejectBookingQuote"} :
                      readPending(r, op, q)
          \/ \E newTotal \in Sum, extends \in BOOLEAN :
                updateQuote(r, newTotal, extends)
          \/ rejectBookingQuote(r)
          \/ expireBookingQuote(r)
          \/ readConfirmsBooking(r)
          \/ acceptBookingQuote(r)
=============================================================================
