------------------------------ MODULE Bookings ------------------------------
(***************************************************************************)
(* BookingsService: a client's inquiry to a vendor.  Four status changes   *)
(* share one shape: read the booking, test its status, then update the row *)
(* and append a history row carrying the status READ as its fromStatus.    *)
(***************************************************************************)
EXTENDS OrderTables

\* The statuses a handler accepts from its read, and the status it writes.
\* Mutant: complete forgets that only a confirmed booking is completed.
AcceptedFromUnconfirmed(op) ==
    CASE op \in {"confirm", "reject"} -> {"PENDING"}
      [] op \in {"cancel", "complete"} -> {"PENDING", "CONFIRMED"}

AcceptedFrom(op) == CASE op \in {"confirm", "reject"} -> {"PENDING"}
                      [] op = "cancel" -> {"PENDING", "CONFIRMED"}
                      [] op = "complete" -> {"CONFIRMED"}
Target(op) == CASE op = "confirm" -> "CONFIRMED"
                [] op \in {"reject", "cancel"} -> "CANCELLED"
                [] op = "complete" -> "COMPLETED"

\* bookings.create: the inquiry, with its first history row.
create(b, amount) ==
    /\ "createBooking" \in Routes
    /\ ~BookingExists(b)
    /\ bookings' = [bookings EXCEPT ![b] =
          [status |-> "PENDING", quoteAmount |-> amount, finalAmount |-> NULL]]
    /\ history' = [history EXCEPT ![b] = Append(@, [from |-> NULL, to |-> "PENDING"])]
    /\ UNCHANGED <<invoices, quotes, reviews, dm, cards, req>>

\* confirm, reject, cancel, complete up to their await.
readStatus(r, op, b) ==
    /\ Called(r, op)
    /\ bookings[b].status \in AcceptedFrom(op)
    /\ Wait(r, [Idle EXCEPT !.op = op, !.b = b, !.seen = bookings[b].status])
    /\ UNCHANGED tables

\* ... and the transaction after it.
changeStatus(r, op) ==
    /\ Resumes(r, op, "commit")
    /\ transition(req[r].b, req[r].seen, Target(op))
    /\ Return(r)
    /\ UNCHANGED <<invoices, quotes, reviews, dm, cards>>

BookingsNext ==
    \/ \E b \in BookingId, amount \in Sum : create(b, amount)
    \/ \E r \in RequestId, op \in BookingOps :
          \/ \E b \in BookingId : readStatus(r, op, b)
          \/ changeStatus(r, op)
=============================================================================
